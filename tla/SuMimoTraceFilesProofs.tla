----------------------- MODULE SuMimoTraceFilesProofs -----------------------
(***************************************************************************)
(* Proofs about the trace files, for every number of nodes, of trainings  *)
(* and of callbacks: while a training is past its SISO phase, the SISO    *)
(* results and candidate files hold rows of that training only. It rests  *)
(* on one fact: a callback that opens its file with CreateFileStream      *)
(* leaves exactly its own header and rows in it.                          *)
(***************************************************************************)
EXTENDS SuMimoTraceFiles, TLAPS

USE TraceConstantsAssumption

\* The rows of a file, as TypeOK types them.
RowT == [hdr : BOOLEAN, training : 0 .. MaxTrainings]

\* The file contents CreateFileStream and the callback's loops leave: a
\* header and n data rows of training t.
Fresh(t, n) == <<Row(TRUE, t)>> \o DataRows(n, t)

-----------------------------------------------------------------------------
(* A rewritten file.                                                       *)

\* A header row put before a sequence of rows.
LEMMA ConsRow ==
  ASSUME NEW h \in RowT, NEW d \in Seq(RowT)
  PROVE  /\ <<h>> \o d \in Seq(RowT)
         /\ Len(<<h>> \o d) = 1 + Len(d)
         /\ (<<h>> \o d)[1] = h
         /\ \A i \in 2 .. 1 + Len(d) : (<<h>> \o d)[i] = d[i - 1]
  OBVIOUS

\* A freshly written file is typed and all its rows are of training t.
LEMMA FreshRows ==
  ASSUME NEW t \in 0 .. MaxTrainings, NEW n \in Nat
  PROVE  /\ Fresh(t, n) \in Seq(RowT)
         /\ \A r \in RowSet(Fresh(t, n)) : r.training = t
<1>1. /\ DataRows(n, t) \in Seq(RowT)
      /\ Len(DataRows(n, t)) = n
      /\ \A i \in 1 .. n : DataRows(n, t)[i] = Row(FALSE, t)
  BY DEF DataRows, Row, RowT
<1>2. Row(TRUE, t) \in RowT
  BY DEF Row, RowT
<1>3. /\ Fresh(t, n) \in Seq(RowT)
      /\ Len(Fresh(t, n)) = 1 + n
      /\ Fresh(t, n)[1] = Row(TRUE, t)
      /\ \A i \in 2 .. 1 + n : Fresh(t, n)[i] = DataRows(n, t)[i - 1]
  <2> DEFINE h == Row(TRUE, t)
             d == DataRows(n, t)
  <2>1. /\ <<h>> \o d \in Seq(RowT)
        /\ Len(<<h>> \o d) = 1 + Len(d)
        /\ (<<h>> \o d)[1] = h
        /\ \A i \in 2 .. 1 + Len(d) : (<<h>> \o d)[i] = d[i - 1]
    BY <1>1, <1>2, ConsRow, Zenon
  <2> QED BY <1>1, <2>1 DEF Fresh
<1>4. ASSUME NEW i \in DOMAIN Fresh(t, n) PROVE Fresh(t, n)[i].training = t
  <2>1. CASE i = 1
    BY <1>3, <2>1 DEF Row
  <2>2. CASE i # 1
    <3>1. i \in 2 .. 1 + n /\ i - 1 \in 1 .. n
      BY <1>3, <2>2
    <3> QED BY <1>1, <1>3, <3>1 DEF Row
  <2> QED BY <2>1, <2>2
<1> QED BY <1>3, <1>4 DEF RowSet

\* Rewriting one file with a fresh one keeps every file typed.
LEMMA RewriteTyped ==
  ASSUME NEW F \in [FileNames -> Seq(RowT)], NEW g \in FileNames,
         NEW t \in 0 .. MaxTrainings, NEW n \in Nat
  PROVE  [F EXCEPT ![g] = Fresh(t, n)] \in [FileNames -> Seq(RowT)]
  BY FreshRows

-----------------------------------------------------------------------------
(* The callbacks.                                                          *)

\* The inductive invariant: the types and the current training's files.
TInv == TypeOK /\ FilesDescribeCurrentTraining

\* TypeOK, with the rows' type named.
LEMMA TypeIs ==
  /\ TypeOK <=> /\ files \in [FileNames -> Seq(RowT)]
                /\ session \in [Nodes -> Sessions]
                /\ training \in [Nodes -> 0 .. MaxTrainings]
                /\ calls \in 0 .. MaxCalls
  /\ TypeOK' <=> /\ files' \in [FileNames -> Seq(RowT)]
                 /\ session' \in [Nodes -> Sessions]
                 /\ training' \in [Nodes -> 0 .. MaxTrainings]
                 /\ calls' \in 0 .. MaxCalls
  BY DEF TypeOK, RowT

\* The per-node files are named apart from each other and from slsResults.
LEMMA FileNamesApart ==
  ASSUME NEW k1 \in PerNodeKinds, NEW k2 \in PerNodeKinds,
         NEW e1 \in Nodes, NEW e2 \in Nodes
  PROVE  /\ <<k1, e1>> \in FileNames
         /\ <<k1, e1>> # SlsFile
         /\ <<k1, e1>> = <<k2, e2>> => k1 = k2 /\ e1 = e2
  BY DEF FileNames, SlsFile, PerNodeKinds

LEMMA TInvInit == Init => TInv
<1> SUFFICES ASSUME Init PROVE TInv
  OBVIOUS
<1>1. TypeOK
  <2>1. <<Row(TRUE, 0)>> \in Seq(RowT) /\ <<>> \in Seq(RowT)
    BY DEF Row, RowT
  <2>2. files \in [FileNames -> Seq(RowT)]
    BY <2>1 DEF Init
  <2>3. session \in [Nodes -> Sessions] /\ training \in [Nodes -> 0 .. MaxTrainings]
        /\ calls \in 0 .. MaxCalls
    BY DEF Init, Sessions
  <2> QED BY <2>2, <2>3, TypeIs
<1>2. FilesDescribeCurrentTraining
  BY DEF Init, FilesDescribeCurrentTraining
<1> QED BY <1>1, <1>2 DEF TInv

\* A step that leaves the sessions, the trainings and the SISO results and
\* candidate files alone keeps them describing the current training.
LEMMA DescribeKept ==
  ASSUME FilesDescribeCurrentTraining,
         session' = session, training' = training,
         \A e \in Nodes : \A k \in {"SisoRes", "MimoTx", "MimoRx"} :
           files'[<<k, e>>] = files[<<k, e>>]
  PROVE  FilesDescribeCurrentTraining'
  BY DEF FilesDescribeCurrentTraining

\* A callback that rewrites one per-node file with a fresh one and leaves
\* the sessions and the trainings alone keeps the types.
LEMMA RewriteStep ==
  ASSUME TInv, NEW k \in PerNodeKinds, NEW e \in Nodes, NEW n \in Nat,
         files' = [files EXCEPT ![<<k, e>>] = Fresh(training[e], n)],
         Call, UNCHANGED <<session, training>>
  PROVE  TypeOK'
<1>1. files \in [FileNames -> Seq(RowT)] /\ training[e] \in 0 .. MaxTrainings
      /\ session \in [Nodes -> Sessions] /\ calls \in 0 .. MaxCalls
      /\ training \in [Nodes -> 0 .. MaxTrainings]
  BY TypeIs DEF TInv
<1>2. <<k, e>> \in FileNames
  BY FileNamesApart
<1>3. files' \in [FileNames -> Seq(RowT)]
  BY <1>1, <1>2, RewriteTyped
<1>4. calls' \in 0 .. MaxCalls
  BY <1>1 DEF Call
<1> QED BY <1>1, <1>3, <1>4, TypeIs

\* A row appended to a file of rows.
LEMMA AppendRowT ==
  ASSUME NEW s \in Seq(RowT), NEW r \in RowT
  PROVE  Append(s, r) \in Seq(RowT)
  OBVIOUS

LEMMA TInvStep == TInv /\ [Next]_vars => TInv'
<1> SUFFICES ASSUME TInv, [Next]_vars PROVE TInv'
  OBVIOUS
<1>0. /\ files \in [FileNames -> Seq(RowT)]
      /\ session \in [Nodes -> Sessions]
      /\ training \in [Nodes -> 0 .. MaxTrainings]
      /\ calls \in 0 .. MaxCalls
  BY TypeIs DEF TInv
<1>1. ASSUME NEW e \in Nodes, SLSCompleted(e) PROVE TInv'
  <2>1. files[SlsFile] \in Seq(RowT)
    BY <1>0 DEF FileNames
  <2>2. Row(FALSE, 0) \in RowT
    BY DEF Row, RowT
  <2>3. Append(files[SlsFile], Row(FALSE, 0)) \in Seq(RowT)
    BY <2>1, <2>2, AppendRowT, Zenon
  <2>4. files' \in [FileNames -> Seq(RowT)]
    BY <1>1, <1>0, <2>3 DEF SLSCompleted, FileNames
  <2>5. FilesDescribeCurrentTraining'
    <3>1. \A e2 \in Nodes : \A k \in {"SisoRes", "MimoTx", "MimoRx"} :
            files'[<<k, e2>>] = files[<<k, e2>>]
      <4> SUFFICES ASSUME NEW e2 \in Nodes, NEW k \in {"SisoRes", "MimoTx", "MimoRx"}
                   PROVE  files'[<<k, e2>>] = files[<<k, e2>>]
        OBVIOUS
      <4>1. <<k, e2>> \in FileNames /\ <<k, e2>> # SlsFile
        BY FileNamesApart DEF PerNodeKinds
      <4> QED BY <4>1, <1>1, <1>0 DEF SLSCompleted
    <3> QED BY <1>1, <3>1, DescribeKept DEF SLSCompleted, TInv
  <2>6. calls' \in 0 .. MaxCalls
    BY <1>1, <1>0 DEF SLSCompleted, Call
  <2> QED BY <1>1, <1>0, <2>4, <2>5, <2>6, TypeIs DEF TInv, SLSCompleted
<1>2. ASSUME NEW e \in Nodes, BeginTraining(e) PROVE TInv'
  <2>1. session' \in [Nodes -> Sessions]
        /\ training' \in [Nodes -> 0 .. MaxTrainings]
    BY <1>2, <1>0 DEF BeginTraining, Sessions
  <2>2. FilesDescribeCurrentTraining'
    BY <1>2 DEF BeginTraining, TInv, FilesDescribeCurrentTraining
  <2> QED BY <1>2, <1>0, <2>1, <2>2, TypeIs DEF BeginTraining, TInv
<1>3. ASSUME NEW e \in Nodes, NEW n \in RowCounts,
             SuMimoSisoPhaseMeasurements(e, n)
      PROVE  TInv'
  <2>1. files' = [files EXCEPT ![<<"SisoMeas", e>>] = Fresh(training[e], n)]
    BY <1>3 DEF SuMimoSisoPhaseMeasurements, WriteFile, Fresh
  <2>2. "SisoMeas" \in PerNodeKinds /\ n \in Nat
        /\ Call /\ UNCHANGED <<session, training>>
    BY <1>3 DEF PerNodeKinds, RowCounts, SuMimoSisoPhaseMeasurements
  <2>3. TypeOK'
    BY <2>1, <2>2, RewriteStep, Zenon
  <2>4. FilesDescribeCurrentTraining'
    <3>1. \A e2 \in Nodes : \A k \in {"SisoRes", "MimoTx", "MimoRx"} :
            files'[<<k, e2>>] = files[<<k, e2>>]
      BY <2>1, <1>0 DEF FileNames, PerNodeKinds
    <3> QED BY <2>2, <3>1, DescribeKept DEF TInv
  <2> QED BY <2>3, <2>4 DEF TInv
<1>4. ASSUME NEW e \in Nodes, NEW n \in RowCounts,
             SuMimoSisoPhaseComplete(e, n)
      PROVE  TInv'
  <2> DEFINE new == Fresh(training[e], n)
  <2>1. files' = [files EXCEPT ![<<"SisoRes", e>>] = new]
    BY <1>4 DEF SuMimoSisoPhaseComplete, WriteFile, Fresh
  <2>2. /\ <<"SisoRes", e>> \in FileNames /\ n \in Nat
        /\ training[e] \in 0 .. MaxTrainings
    BY <1>0 DEF FileNames, PerNodeKinds, RowCounts
  <2>3. files' \in [FileNames -> Seq(RowT)]
    BY <1>0, <2>1, <2>2, RewriteTyped, Zenon DEF new
  <2>4. /\ session' = [session EXCEPT ![e] = "Candidates"]
        /\ session' \in [Nodes -> Sessions]
        /\ training' = training /\ calls' \in 0 .. MaxCalls
    BY <1>4, <1>0 DEF SuMimoSisoPhaseComplete, Sessions, Call
  <2>5. \A r \in RowSet(new) : r.training = training[e]
    BY <2>2, FreshRows, Zenon DEF new
  <2>6. FilesDescribeCurrentTraining'
    <3>1. files'[<<"SisoRes", e>>] = new
      BY <2>1, <2>2, <1>0
    <3>2. \A e2 \in Nodes \ {e} : \A k \in {"SisoRes", "MimoTx", "MimoRx"} :
            files'[<<k, e2>>] = files[<<k, e2>>] /\ session'[e2] = session[e2]
      BY <2>1, <2>4, <1>0 DEF FileNames, PerNodeKinds
    <3>3. session'[e] = "Candidates"
      BY <2>4, <1>0
    <3> SUFFICES ASSUME NEW e2 \in Nodes
                 PROVE  /\ session'[e2] \in {"Candidates", "Mimo"} =>
                             \A r \in RowSet(files'[<<"SisoRes", e2>>]) :
                               r.training = training'[e2]
                        /\ session'[e2] = "Mimo" =>
                             \A k \in {"MimoTx", "MimoRx"} :
                               \A r \in RowSet(files'[<<k, e2>>]) :
                                 r.training = training'[e2]
      BY DEF FilesDescribeCurrentTraining
    <3>4. CASE e2 = e
      BY <3>4, <2>4, <2>5, <3>1, <3>3
    <3>5. CASE e2 # e
      BY <3>5, <2>4, <3>2 DEF TInv, FilesDescribeCurrentTraining
    <3> QED BY <3>4, <3>5
  <2> QED BY <2>3, <2>4, <2>6, <1>0, TypeIs DEF TInv
<1>5. ASSUME NEW e \in Nodes, NEW n \in RowCounts,
             SuMimoMimoCandidatesSelected(e, n)
      PROVE  TInv'
  <2> DEFINE new == Fresh(training[e], n)
             tx == <<"MimoTx", e>>
             rx == <<"MimoRx", e>>
             G1 == [files EXCEPT ![tx] = new]
  <2>1. files' = [G1 EXCEPT ![rx] = new]
    BY <1>5 DEF SuMimoMimoCandidatesSelected, Fresh, G1, new, tx, rx
  <2>2. /\ tx \in FileNames /\ rx \in FileNames /\ n \in Nat
        /\ training[e] \in 0 .. MaxTrainings
    BY <1>0 DEF tx, rx, FileNames, PerNodeKinds, RowCounts
  <2>3. G1 \in [FileNames -> Seq(RowT)]
    BY <1>0, <2>2, RewriteTyped, Zenon DEF G1, new
  <2>4. files' \in [FileNames -> Seq(RowT)]
    BY <2>1, <2>2, <2>3, RewriteTyped, Zenon DEF new
  <2>5. /\ session' = [session EXCEPT ![e] = "Mimo"]
        /\ session' \in [Nodes -> Sessions]
        /\ session[e] = "Candidates"
        /\ training' = training /\ calls' \in 0 .. MaxCalls
    BY <1>5, <1>0 DEF SuMimoMimoCandidatesSelected, Sessions, Call
  <2>6. \A r \in RowSet(new) : r.training = training[e]
    BY <2>2, FreshRows, Zenon DEF new
  <2>7. /\ files'[tx] = new /\ files'[rx] = new
        /\ files'[<<"SisoRes", e>>] = files[<<"SisoRes", e>>]
        /\ \A e2 \in Nodes \ {e} : \A k \in {"SisoRes", "MimoTx", "MimoRx"} :
             files'[<<k, e2>>] = files[<<k, e2>>]
    BY <2>1, <2>2, <1>0 DEF G1, tx, rx, FileNames, PerNodeKinds
  <2>8. FilesDescribeCurrentTraining'
    <3> SUFFICES ASSUME NEW e2 \in Nodes
                 PROVE  /\ session'[e2] \in {"Candidates", "Mimo"} =>
                             \A r \in RowSet(files'[<<"SisoRes", e2>>]) :
                               r.training = training'[e2]
                        /\ session'[e2] = "Mimo" =>
                             \A k \in {"MimoTx", "MimoRx"} :
                               \A r \in RowSet(files'[<<k, e2>>]) :
                                 r.training = training'[e2]
      BY DEF FilesDescribeCurrentTraining
    <3>1. CASE e2 = e
      <4>1. \A r \in RowSet(files[<<"SisoRes", e>>]) : r.training = training[e]
        BY <2>5 DEF TInv, FilesDescribeCurrentTraining
      <4> QED BY <3>1, <4>1, <2>5, <2>6, <2>7 DEF tx, rx
    <3>2. CASE e2 # e
      <4>1. session'[e2] = session[e2]
        BY <3>2, <2>5, <1>0
      <4> QED BY <3>2, <4>1, <2>5, <2>7 DEF TInv, FilesDescribeCurrentTraining
    <3> QED BY <3>1, <3>2
  <2> QED BY <2>4, <2>5, <2>8, <1>0, TypeIs DEF TInv
<1>6. ASSUME NEW e \in Nodes, NEW n \in RowCounts,
             SuMimoMimoPhaseMeasurements(e, n)
      PROVE  TInv'
  <2>1. files' = [files EXCEPT ![<<"MimoMeas", e>>] = Fresh(training[e], n)]
    BY <1>6 DEF SuMimoMimoPhaseMeasurements, WriteFile, Fresh
  <2>2. "MimoMeas" \in PerNodeKinds /\ n \in Nat
        /\ Call /\ UNCHANGED <<session, training>>
    BY <1>6 DEF PerNodeKinds, RowCounts, SuMimoMimoPhaseMeasurements
  <2>3. TypeOK'
    BY <2>1, <2>2, RewriteStep, Zenon
  <2>4. FilesDescribeCurrentTraining'
    <3>1. \A e2 \in Nodes : \A k \in {"SisoRes", "MimoTx", "MimoRx"} :
            files'[<<k, e2>>] = files[<<k, e2>>]
      BY <2>1, <1>0 DEF FileNames, PerNodeKinds
    <3> QED BY <2>2, <3>1, DescribeKept DEF TInv
  <2> QED BY <2>3, <2>4 DEF TInv
<1>7. ASSUME NEW e \in Nodes, SuMimoMimoPhaseComplete(e) PROVE TInv'
  <2>1. session' \in [Nodes -> Sessions]
    BY <1>7, <1>0 DEF SuMimoMimoPhaseComplete, Sessions
  <2>2. FilesDescribeCurrentTraining'
    BY <1>7 DEF SuMimoMimoPhaseComplete, TInv, FilesDescribeCurrentTraining
  <2> QED BY <1>7, <1>0, <2>1, <2>2, TypeIs DEF SuMimoMimoPhaseComplete, TInv
<1>8. ASSUME NEW e \in Nodes, MacAbortsTraining(e) PROVE TInv'
  <2>1. session' \in [Nodes -> Sessions]
    BY <1>8, <1>0 DEF MacAbortsTraining, Sessions
  <2>2. FilesDescribeCurrentTraining'
    BY <1>8 DEF MacAbortsTraining, TInv, FilesDescribeCurrentTraining
  <2> QED BY <1>8, <1>0, <2>1, <2>2, TypeIs DEF MacAbortsTraining, TInv
<1>9. CASE UNCHANGED vars
  BY <1>9, <1>0, TypeIs DEF vars, TInv, FilesDescribeCurrentTraining
<1> QED BY <1>1, <1>2, <1>3, <1>4, <1>5, <1>6, <1>7, <1>8, <1>9 DEF Next

-----------------------------------------------------------------------------
(* The theorem.                                                            *)

\* For every number of nodes, trainings and callbacks, while a node's
\* training is past its SISO phase, its SISO results and candidate files
\* hold rows of that training only: the truncation by CreateFileStream in
\* SuMimoSisoPhaseComplete and SuMimoMimoCandidatesSelected drops what a
\* given-up training wrote.
THEOREM CurrentTrainingFiles == Spec => []FilesDescribeCurrentTraining
<1>1. Init => TInv
  BY TInvInit
<1>2. TInv /\ [Next]_vars => TInv'
  BY TInvStep
<1>3. TInv => FilesDescribeCurrentTraining
  BY DEF TInv
<1> QED BY <1>1, <1>2, <1>3, PTL DEF Spec

=============================================================================
