----------------------- MODULE ThroughputSamplerProofs -----------------------
(***************************************************************************)
(* Proofs about the Session Telemetry Sampler (CalculateThroughput): the  *)
(* rows tile the run and their packet counts sum to totalRx <= sinkRx.    *)
(***************************************************************************)
EXTENDS ThroughputSampler, TLAPS

\* f satisfies the equation that defines the function in ReportedBy(s):
\* f[0] = 0 and f[n] = f[n - 1] + s[n].pkts.
SumEq(f, s) ==
  f = [n \in 0 .. Len(s) |-> IF n = 0 THEN 0 ELSE f[n - 1] + s[n].pkts]

\* When the defining equation has exactly one solution g, ReportedBy(s) is
\* its last value.
LEMMA ReportedByIs ==
  ASSUME NEW s, NEW g, SumEq(g, s), \A h : SumEq(h, s) => h = g
  PROVE  ReportedBy(s) = g[Len(s)]
  BY DEF ReportedBy, SumEq


\* The equation of ReportedBy(s) has exactly one solution, and its last
\* value is v: ReportedBy(s) = v, in a form that survives an Append.
SumUnique(s, v) ==
  \E g \in [0 .. Len(s) -> Int] :
    /\ SumEq(g, s)
    /\ g[Len(s)] = v
    /\ \A h : SumEq(h, s) => h = g

\* The type of a row.
RowT == [from : Int, to : Nat, pkts : Int]

\* Appending a row to s keeps the sum's equation uniquely solvable and
\* adds the row's packets to the total.
LEMMA SumAppend ==
  ASSUME NEW s \in Seq(RowT), NEW r \in RowT, NEW v \in Int, SumUnique(s, v)
  PROVE  SumUnique(Append(s, r), v + r.pkts)
<1> PICK g \in [0 .. Len(s) -> Int] :
           /\ SumEq(g, s)
           /\ g[Len(s)] = v
           /\ \A h : SumEq(h, s) => h = g
  BY DEF SumUnique
<1> DEFINE L == Len(s)
           t == Append(s, r)
           g2 == [n \in 0 .. L + 1 |-> IF n <= L THEN g[n] ELSE v + r.pkts]
<1>0. /\ L \in Nat
      /\ Len(t) = L + 1
      /\ \A n \in 1 .. L : t[n] = s[n] /\ s[n] \in RowT
      /\ t[L + 1] = r
  BY DEF L, t
<1>1. \A n \in 0 .. L :
        g[n] = IF n = 0 THEN 0 ELSE g[n - 1] + s[n].pkts
  BY DEF SumEq
<1>2. g2 \in [0 .. Len(t) -> Int]
  BY <1>0 DEF g2
<1>3. SumEq(g2, t)
  <2>1. ASSUME NEW n \in 0 .. L
        PROVE  g2[n] = IF n = 0 THEN 0 ELSE g2[n - 1] + t[n].pkts
    BY <1>0, <1>1 DEF g2
  <2>2. g2[L + 1] = g2[L] + t[L + 1].pkts
    BY <1>0 DEF g2
  <2>3. \A n \in 0 .. L + 1 :
          g2[n] = IF n = 0 THEN 0 ELSE g2[n - 1] + t[n].pkts
    <3> TAKE n \in 0 .. L + 1
    <3>1. CASE n \in 0 .. L
      BY <2>1, <3>1
    <3>2. CASE n = L + 1
      BY <1>0, <2>2, <3>2
    <3> QED BY <1>0, <3>1, <3>2
  <2> QED BY <1>0, <2>3 DEF SumEq, g2
<1>4. g2[Len(t)] = v + r.pkts
  BY <1>0 DEF g2
<1>5. ASSUME NEW h, SumEq(h, t) PROVE h = g2
  <2> DEFINE h0 == [n \in 0 .. L |-> h[n]]
  <2>1. \A n \in 0 .. L + 1 :
          h[n] = IF n = 0 THEN 0 ELSE h[n - 1] + t[n].pkts
    BY <1>0, <1>5 DEF SumEq
  <2>2. SumEq(h0, s)
    BY <1>0, <2>1 DEF SumEq, h0
  <2>3. h0 = g
    BY <2>2
  <2>4. h = [n \in 0 .. L + 1 |-> h[n]]
    BY <1>0, <1>5 DEF SumEq
  <2> QED BY <1>0, <2>1, <2>3, <2>4 DEF h0, g2
<1> QED BY <1>2, <1>3, <1>4, <1>5 DEF SumUnique, t

-----------------------------------------------------------------------------
(* The inductive invariant.                                                *)

\* Row i is the interval [(i - 1) * 100, i * 100] ms.
Tiled(s) ==
  \A i \in 1 .. Len(s) : s[i].from = (i - 1) * PeriodMs
                         /\ s[i].to = i * PeriodMs

\* SamplesPartitionReceived, strengthened: the pending CalculateThroughput
\* is the one of the next row, and the row sum is kept in the form that
\* SumAppend carries across an Append.
SInv ==
  /\ TypeOK
  /\ next = (Len(rows) + 1) * PeriodMs
  /\ Tiled(rows)
  /\ totalRx <= sinkRx
  /\ SumUnique(rows, totalRx)

\* TypeOK with the row type named.
LEMMA TypeIs ==
  /\ TypeOK <=> /\ now \in Nat /\ next \in Nat
                /\ sinkRx \in 0 .. MaxPkts /\ totalRx \in 0 .. MaxPkts
                /\ rows \in Seq(RowT)
                /\ running \in BOOLEAN
  /\ TypeOK' <=> /\ now' \in Nat /\ next' \in Nat
                 /\ sinkRx' \in 0 .. MaxPkts /\ totalRx' \in 0 .. MaxPkts
                 /\ rows' \in Seq(RowT)
                 /\ running' \in BOOLEAN
  BY DEF TypeOK, RowT

\* Appending a row keeps a sequence of rows one.
LEMMA AppendRow ==
  ASSUME NEW s \in Seq(RowT), NEW r \in RowT
  PROVE  Append(s, r) \in Seq(RowT)
  OBVIOUS

LEMMA SInvInit == Init => SInv
<1> SUFFICES ASSUME Init PROVE SInv
  OBVIOUS
<1>1. SumUnique(rows, totalRx)
  <2> DEFINE g0 == [n \in 0 .. 0 |-> 0]
  <2>1. g0 \in [0 .. Len(rows) -> Int] /\ SumEq(g0, rows) /\ g0[Len(rows)] = 0
    BY DEF Init, SumEq, g0
  <2>2. \A h : SumEq(h, rows) => h = g0
    BY DEF Init, SumEq, g0
  <2> QED BY <2>1, <2>2 DEF SumUnique, Init
<1> QED BY <1>1, SamplerConstantsAssumption
        DEF Init, SInv, TypeOK, Tiled, PeriodMs, FirstSampleMs

\* Every step of the simulator (a packet reaching the sink, a
\* CalculateThroughput, the Stop event) preserves SInv.
LEMMA SInvStep == SInv /\ [Next]_vars => SInv'
<1> SUFFICES ASSUME SInv, [Next]_vars PROVE SInv'
  OBVIOUS
<1>0. /\ now \in Nat /\ next \in Nat
      /\ sinkRx \in 0 .. MaxPkts /\ totalRx \in 0 .. MaxPkts
      /\ rows \in Seq(RowT)
      /\ running \in BOOLEAN
  BY TypeIs DEF SInv
<1>1. CASE Receive
  <2>0. totalRx <= sinkRx
    BY DEF SInv
  <2>1. /\ sinkRx' \in 0 .. MaxPkts /\ totalRx <= sinkRx'
        /\ UNCHANGED <<now, next, totalRx, rows, running>>
    BY <1>0, <1>1, <2>0, SamplerConstantsAssumption DEF Receive
  <2>2. TypeOK'
    BY <1>0, <2>1, TypeIs
  <2>3. /\ next' = (Len(rows') + 1) * PeriodMs
        /\ Tiled(rows')
        /\ totalRx' <= sinkRx'
        /\ SumUnique(rows', totalRx')
    BY <2>1, Zenon DEF SInv
  <2> QED BY <2>2, <2>3, Zenon DEF SInv
<1>2. CASE CalculateThroughput
  <2> DEFINE rec == [from |-> next - PeriodMs, to |-> next,
                     pkts |-> IntervalPackets(sinkRx)]
  <2>1. rec \in RowT /\ rec.pkts = sinkRx - totalRx
    BY <1>0 DEF RowT, rec, IntervalPackets, PeriodMs
  <2>2. rows' = Append(rows, rec) /\ totalRx' = sinkRx
    BY <1>2 DEF CalculateThroughput, rec
  <2>3. rows' \in Seq(RowT)
    BY <1>0, <2>1, <2>2, AppendRow
  <2>4. TypeOK'
    BY <1>0, <1>2, <2>2, <2>3, TypeIs DEF CalculateThroughput, PeriodMs
  <2>5. next' = (Len(rows') + 1) * PeriodMs
    BY <1>0, <1>2, <2>2 DEF SInv, CalculateThroughput, PeriodMs
  <2>6. Tiled(rows')
    <3>1. \A i \in 1 .. Len(rows) : rows'[i] = rows[i]
      BY <1>0, <2>2
    <3>2. rows'[Len(rows) + 1] = rec /\ Len(rows') = Len(rows) + 1
      BY <1>0, <2>2
    <3>3. rec.from = Len(rows) * PeriodMs /\ rec.to = (Len(rows) + 1) * PeriodMs
      BY <1>0 DEF SInv, rec, PeriodMs
    <3> QED BY <1>0, <3>1, <3>2, <3>3 DEF SInv, Tiled
  <2>7. SumUnique(rows', totalRx')
    <3>1. SumUnique(Append(rows, rec), totalRx + rec.pkts)
      BY <1>0, <2>1, SumAppend DEF SInv
    <3> QED BY <1>0, <2>1, <2>2, <3>1
  <2>8. totalRx' <= sinkRx'
    BY <1>0, <1>2, <2>2 DEF CalculateThroughput
  <2> QED BY <2>4, <2>5, <2>6, <2>7, <2>8, Zenon DEF SInv
<1>3. CASE Stop
  <2>1. now' \in Nat
    BY <1>3, SamplerConstantsAssumption DEF Stop, StopTime
  <2>2. TypeOK'
    BY <1>0, <1>3, <2>1, TypeIs DEF Stop
  <2> QED BY <1>3, <2>2 DEF SInv, Stop
<1>4. CASE UNCHANGED vars
  <2>1. TypeOK'
    BY <1>0, <1>4, TypeIs DEF vars
  <2> QED BY <1>4, <2>1 DEF SInv, vars
<1> QED BY <1>1, <1>2, <1>3, <1>4 DEF Next

-----------------------------------------------------------------------------
(* The theorem.                                                            *)

LEMMA SInvImplies == SInv => SamplesPartitionReceived
<1> SUFFICES ASSUME SInv PROVE SamplesPartitionReceived
  OBVIOUS
<1>1. PICK g \in [0 .. Len(rows) -> Int] :
             /\ SumEq(g, rows)
             /\ g[Len(rows)] = totalRx
             /\ \A h : SumEq(h, rows) => h = g
  BY DEF SInv, SumUnique
<1>2. ReportedBy(rows) = totalRx
  BY <1>1, ReportedByIs
<1> QED BY <1>2 DEF SInv, Tiled, SamplesPartitionReceived

\* For every run length and packet bound: the rows CalculateThroughput
\* writes tile the run in 100 ms intervals from time 0, and their packet
\* counts add up to the sink's total at the last sample, which never
\* exceeds what the sink received. The totalRx bookkeeping of
\* CalculateSingleStreamThroughput counts each packet in exactly one row.
THEOREM SamplesPartition == Spec => []SamplesPartitionReceived
<1>1. Init => SInv
  BY SInvInit
<1>2. SInv /\ [Next]_vars => SInv'
  BY SInvStep
<1>3. SInv => SamplesPartitionReceived
  BY SInvImplies
<1> QED BY <1>1, <1>2, <1>3, PTL DEF Spec

=============================================================================
