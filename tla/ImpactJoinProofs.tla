-------------------------- MODULE ImpactJoinProofs --------------------------
(***************************************************************************)
(* What the joins of a session promise, for any events and estimates.      *)
(***************************************************************************)
EXTENDS ImpactJoin, FractionProofs

Stored(ev) == ev \in SUBSET Catalog /\ IsFiniteSet(ev)

-----------------------------------------------------------------------------
(* The remote half *)

LEMMA Subsets ==
  ASSUME NEW S, IsFiniteSet(S), NEW T \in SUBSET S
  PROVE  /\ IsFiniteSet(T) /\ Cardinality(T) \in Nat /\ Cardinality(S) \in Nat
         /\ Cardinality(T) = Cardinality(S) => T = S
         /\ Cardinality(T) = 0 <=> T = {}
BY FS_Subset, FS_CardinalityType, FS_EmptySet

\* The calls of a unit that report a criterion have an earliest one.
LEMMA EarliestExists ==
  ASSUME NEW C \in SUBSET Catalog, IsFiniteSet(C), C # {}
  PROVE  \E c \in C : \A x \in C : Earlier(c, x)
<1> DEFINE good == {s \in SUBSET C : s # {} => \E c \in s : \A x \in s : Earlier(c, x)}
<1>0. \A c \in C : c.ts \in Int /\ c.id \in Int
  BY CatalogAssumption
<1>1. ASSUME NEW s \in SUBSET C, \A x \in s : s \ {x} \in good PROVE s \in good
  <2> SUFFICES ASSUME s # {} PROVE \E c \in s : \A x \in s : Earlier(c, x)
    OBVIOUS
  <2>1. PICK x \in s : TRUE
    OBVIOUS
  <2>2. CASE s \ {x} = {}
    BY <1>0, <2>2 DEF Earlier
  <2>3. CASE s \ {x} # {}
    <3>1. PICK c \in s \ {x} : \A y \in s \ {x} : Earlier(c, y)
      BY <1>1, <2>3
    <3>2. CASE Earlier(c, x)
      BY <3>1, <3>2
    <3>3. CASE ~ Earlier(c, x)
      <4>1. Earlier(x, c) /\ Earlier(x, x)
        BY <1>0, <3>3 DEF Earlier
      <4>2. ASSUME NEW y \in s \ {x} PROVE Earlier(x, y)
        <5>1. Earlier(c, y)
          BY <3>1
        <5> QED BY <1>0, <4>1, <5>1 DEF Earlier
      <4> QED BY <4>1, <4>2
    <3> QED BY <3>2, <3>3
  <2> QED BY <2>2, <2>3
<1> HIDE DEF good
<1>2. \A s \in SUBSET C : s \in good
  BY <1>1, Shrinking
<1> QED BY <1>2 DEF good

\* Every call of the unit has an ok estimate that reports energy in kWh.
WholeCalls(es, calls) ==
  \A c \in calls : /\ IsSummable(es, c)
                   /\ "energy" \in DOMAIN es[c.id].impacts
                   /\ es[c.id].impacts["energy"].unit = "kWh"
EnergyRange(es, calls) ==
  [min |-> Total([c \in calls |-> Whole(es[c.id].impacts["energy"].min)]),
   max |-> Total([c \in calls |-> Whole(es[c.id].impacts["energy"].max)])]

LEMMA RemoteIsWhole ==
  ASSUME NEW es, NEW calls \in SUBSET Catalog, IsFiniteSet(calls),
         NEW remote, remote = RemoteEstimated(es, calls)
  PROVE  /\ remote.complete /\ RemoteIsKnown(remote, "energy", "kWh") <=> WholeCalls(es, calls)
         /\ WholeCalls(es, calls) => RemoteRange(remote, "energy") = EnergyRange(es, calls)
<1> DEFINE summable == {c \in calls : IsSummable(es, c)}
           reporting == Reporting("energy", es, summable)
           reported == [c \in reporting |-> es[c.id].impacts["energy"]]
           first == CHOOSE c \in reporting : \A x \in reporting : Earlier(c, x)
           added == {c \in reporting : reported[c].unit = reported[first].unit}
           known == {n \in Criteria : Reporting(n, es, summable) # {}}
           sums == [name \in known |-> SumCriterion(name, es, summable)]
           shown == {n \in known : sums[n].mismatches = 0}
           whole == {n \in shown : sums[n].contributors = Cardinality(summable)}
<1>1. /\ reporting \in SUBSET summable /\ added \in SUBSET reporting /\ summable \in SUBSET calls
  BY DEF Reporting
<1>2. IsFiniteSet(summable) /\ IsFiniteSet(reporting) /\ IsFiniteSet(added)
  <2> HIDE DEF summable, reporting, added
  <2> QED BY <1>1, Subsets
<1>3. "energy" \in known <=> reporting # {}
  BY DEF Criteria
<1>4. LET sum == SumCriterion("energy", es, summable)
      IN  /\ sum.unit = reported[first].unit
          /\ sum.min = Total([c \in added |-> Whole(reported[c].min)])
          /\ sum.max = Total([c \in added |-> Whole(reported[c].max)])
          /\ sum.contributors = Cardinality(added)
          /\ sum.mismatches = Cardinality(reporting \ added)
  BY DEF SumCriterion
<1>5. /\ remote.calls = Cardinality(calls)
      /\ remote.complete <=> summable = calls
      /\ DOMAIN remote.totals = whole
      /\ \A n \in whole : remote.totals[n] = sums[n]
  BY DEF RemoteEstimated, Restrict
<1> HIDE DEF known, sums, shown, whole, reported, first, added, reporting
<1>6. "energy" \in known => sums["energy"] = SumCriterion("energy", es, summable)
  BY DEF sums
<1>7. "energy" \in whole <=> /\ reporting # {} /\ Cardinality(reporting \ added) = 0
                             /\ Cardinality(added) = Cardinality(summable)
  <2>1. "energy" \in known =>
           /\ sums["energy"].mismatches = Cardinality(reporting \ added)
           /\ sums["energy"].contributors = Cardinality(added)
    BY <1>4, <1>6
  <2> HIDE DEF summable
  <2> QED BY <1>3, <2>1 DEF whole, shown
<1> HIDE DEF summable
<1>8. "energy" \in whole <=> reporting # {} /\ added = summable
  <2>1. Cardinality(reporting \ added) = 0 => added = reporting
    <3>1. reporting \ added \in SUBSET reporting
      OBVIOUS
    <3>2. Cardinality(reporting \ added) = 0 => reporting \ added = {}
      BY <1>2, <3>1, Subsets
    <3> QED BY <1>1, <3>2
  <2>2. Cardinality(added) = Cardinality(summable) <=> added = summable
    <3>1. added \in SUBSET summable
      BY <1>1
    <3> QED BY <1>2, <3>1, Subsets
  <2>3. added = summable => reporting \ added = {}
    BY <1>1
  <2> QED BY <1>2, <1>7, <2>1, <2>2, <2>3, FS_EmptySet
<1>9. "energy" \in whole => /\ remote.totals["energy"].unit = reported[first].unit
                            /\ remote.totals["energy"].min = Total([c \in added |-> Whole(reported[c].min)])
                            /\ remote.totals["energy"].max = Total([c \in added |-> Whole(reported[c].max)])
  BY <1>3, <1>4, <1>5, <1>6, <1>8
<1>10. \A c \in reporting : reported[c] = es[c.id].impacts["energy"]
  BY DEF reported
<1>11. ASSUME WholeCalls(es, calls)
       PROVE  /\ summable = calls /\ reporting = calls
              /\ calls # {} => added = calls /\ reported[first].unit = "kWh"
  <2>1. summable = calls /\ reporting = calls
    BY <1>11 DEF WholeCalls, reporting, Reporting, summable
  <2>2. ASSUME calls # {} PROVE first \in reporting
    <3>1. \E c \in reporting : \A x \in reporting : Earlier(c, x)
      BY <1>1, <1>2, <2>1, <2>2, EarliestExists
    <3> QED BY <3>1 DEF first
  <2>3. \A c \in reporting : reported[c].unit = "kWh"
    BY <1>10, <1>11, <2>1 DEF WholeCalls
  <2> QED BY <2>1, <2>2, <2>3 DEF added
<1>12. ASSUME remote.complete, RemoteIsKnown(remote, "energy", "kWh") PROVE WholeCalls(es, calls)
  <2>1. summable = calls
    BY <1>5, <1>12
  <2>2. CASE "energy" \in whole
    <3>1. added = calls /\ reported[first].unit = "kWh"
      BY <1>5, <1>8, <1>9, <1>12, <2>1, <2>2 DEF RemoteIsKnown
    <3>2. \A c \in calls : c \in reporting /\ reported[c].unit = "kWh"
      BY <1>1, <3>1 DEF added
    <3>3. \A c \in calls : IsSummable(es, c) /\ "energy" \in DOMAIN es[c.id].impacts
      BY <2>1, <3>2 DEF reporting, Reporting, summable
    <3> QED BY <1>10, <3>2, <3>3 DEF WholeCalls
  <2>3. CASE "energy" \notin whole
    <3>1. Cardinality(calls) = 0
      BY <1>5, <1>12, <2>3 DEF RemoteIsKnown
    <3> QED BY <3>1, FS_EmptySet DEF WholeCalls
  <2> QED BY <2>2, <2>3
<1>13. ASSUME WholeCalls(es, calls)
       PROVE  /\ remote.complete /\ RemoteIsKnown(remote, "energy", "kWh")
              /\ RemoteRange(remote, "energy") = EnergyRange(es, calls)
  <2>1. remote.complete
    BY <1>5, <1>11, <1>13
  <2>2. CASE calls = {}
    <3>1. "energy" \notin whole /\ Cardinality(calls) = 0
      BY <1>8, <1>11, <1>13, <2>2, FS_EmptySet
    <3>2. \A f : DOMAIN f = {} => Total(f) = Zero
      BY TotalEmpty DEF Total
    <3>3. EnergyRange(es, calls) = [min |-> Zero, max |-> Zero]
      BY <2>2, <3>2 DEF EnergyRange
    <3> QED BY <1>5, <2>1, <3>1, <3>3 DEF RemoteIsKnown, RemoteRange
  <2>3. CASE calls # {}
    <3>1. "energy" \in whole /\ added = calls /\ reported[first].unit = "kWh"
      BY <1>8, <1>11, <1>13, <2>3
    <3>2. /\ [c \in added |-> Whole(reported[c].min)] = [c \in calls |-> Whole(es[c.id].impacts["energy"].min)]
          /\ [c \in added |-> Whole(reported[c].max)] = [c \in calls |-> Whole(es[c.id].impacts["energy"].max)]
      BY <1>10, <1>11, <1>13, <3>1
    <3>3. RemoteRange(remote, "energy") = EnergyRange(es, calls)
      BY <1>5, <1>9, <3>1, <3>2 DEF RemoteRange, EnergyRange
    <3> QED BY <1>5, <1>9, <2>1, <3>1, <3>3 DEF RemoteIsKnown
  <2> QED BY <2>2, <2>3
<1> QED BY <1>12, <1>13

-----------------------------------------------------------------------------
(* What one sample has to divide *)

LEMMA MaxIs ==
  ASSUME NEW S \in SUBSET Int, NEW m \in S, \A x \in S : x <= m
  PROVE  Max(S) = m
<1>1. \A x \in S : (\A y \in S : x >= y) => x = m
  BY SMT
<1>2. m \in S /\ \A y \in S : m >= y
  BY SMT
<1> QED BY <1>1, <1>2, Zenon DEF Max

LEMMA MinIs ==
  ASSUME NEW S \in SUBSET Int, NEW m \in S, \A x \in S : m <= x
  PROVE  Min(S) = m
<1>1. \A x \in S : (\A y \in S : x <= y) => x = m
  BY SMT
<1>2. m \in S /\ \A y \in S : m <= y
  BY SMT
<1> QED BY <1>1, <1>2, Zenon DEF Min

LEMMA PairExtremes ==
  ASSUME NEW x \in Int, NEW y \in Int
  PROVE  /\ Max({x, y}) = IF y <= x THEN x ELSE y
         /\ Min({x, y}) = IF x <= y THEN x ELSE y
<1>1. {x, y} \in SUBSET Int
  OBVIOUS
<1>2. CASE x <= y
  <2>1. Min({x, y}) = x
    BY <1>1, <1>2, MinIs
  <2>2. Max({x, y}) = y
    BY <1>1, <1>2, MaxIs
  <2> QED BY <1>2, <2>1, <2>2
<1>3. CASE y <= x
  <2>1. Min({x, y}) = y
    BY <1>1, <1>3, MinIs
  <2>2. Max({x, y}) = x
    BY <1>1, <1>3, MaxIs
  <2> QED BY <1>3, <2>1, <2>2
<1> QED BY <1>2, <1>3

LEMMA FiniteMax ==
  ASSUME NEW S \in SUBSET Int, IsFiniteSet(S), S # {}
  PROVE  Max(S) \in S /\ \A x \in S : x <= Max(S)
<1> DEFINE good == {s \in SUBSET S : s # {} => \E m \in s : \A x \in s : x <= m}
<1>1. ASSUME NEW s \in SUBSET S, \A x \in s : s \ {x} \in good PROVE s \in good
  <2> SUFFICES ASSUME s # {} PROVE \E m \in s : \A x \in s : x <= m
    OBVIOUS
  <2>1. PICK x \in s : x \in Int
    OBVIOUS
  <2>2. CASE s \ {x} = {}
    BY <2>1, <2>2
  <2>3. CASE s \ {x} # {}
    <3>1. PICK m \in s \ {x} : \A y \in s \ {x} : y <= m
      BY <1>1, <2>3
    <3>2. CASE x <= m
      BY <3>1, <3>2
    <3>3. CASE ~ (x <= m)
      <4>1. \A y \in s : y <= x
        BY <2>1, <3>1, <3>3
      <4> QED BY <4>1
    <3> QED BY <3>2, <3>3
  <2> QED BY <2>2, <2>3
<1> HIDE DEF good
<1>2. \A s \in SUBSET S : s \in good
  BY <1>1, Shrinking
<1>3. PICK m \in S : \A x \in S : x <= m
  BY <1>2 DEF good
<1> QED BY <1>3, MaxIs

LEMMA OverlapIs ==
  ASSUME NEW a0 \in Int, NEW a1 \in Int, NEW b0 \in Int, NEW b1 \in Int
  PROVE  LET low == IF b0 <= a0 THEN a0 ELSE b0
             high == IF a1 <= b1 THEN a1 ELSE b1
         IN  /\ OverlapMs(a0, a1, b0, b1) = IF low <= high THEN high - low ELSE 0
             /\ OverlapMs(a0, a1, b0, b1) \in Nat
<1> DEFINE low == IF b0 <= a0 THEN a0 ELSE b0
           high == IF a1 <= b1 THEN a1 ELSE b1
<1>1. Max({a0, b0}) = low /\ Min({a1, b1}) = high /\ low \in Int /\ high \in Int
  BY PairExtremes
<1> HIDE DEF low, high
<1>2. high - low \in Int /\ 0 \in Int
  BY <1>1
<1>3. Max({0, high - low}) = IF high - low <= 0 THEN 0 ELSE high - low
  BY <1>2, PairExtremes
<1>4. OverlapMs(a0, a1, b0, b1) = Max({0, high - low})
  BY <1>1 DEF OverlapMs
<1>5. OverlapMs(a0, a1, b0, b1) = (IF low <= high THEN high - low ELSE 0)
      /\ OverlapMs(a0, a1, b0, b1) \in Nat
  BY <1>1, <1>3, <1>4
<1> QED BY <1>5 DEF low, high

\* The instants of what the attribution reads.
LEMMA Instants ==
  ASSUME NEW ev, Stored(ev)
  PROVE  /\ \A s \in Spans(ev) : s.t0 \in Int /\ s.t1 \in Int
         /\ \A e \in EnergySamples(ev) : e.t0 \in Int /\ e.t1 \in Int /\ e.parts \in Seq(STRING \X Nat)
         /\ \A w \in ProcWindows(ev) : /\ w.t0 \in Int /\ w.t1 \in Int /\ w.t1 > w.t0
                                       /\ IsFiniteSet(w.rows) /\ \A r \in w.rows : r.cpu \in Nat
BY CatalogAssumption DEF Stored, Spans, EnergySamples, ProcWindows, OfKind

LEMMA FiniteParts ==
  ASSUME NEW ev, Stored(ev), NEW smp
  PROVE  /\ IsFiniteSet(Spans(ev)) /\ IsFiniteSet(Attributable(ev)) /\ IsFiniteSet(RemoteSpans(ev))
         /\ IsFiniteSet(EnergySamples(ev)) /\ IsFiniteSet(Active(ev, smp))
         /\ IsFiniteSet(Covering(ev, smp)) /\ IsFiniteSet(WindowPids(ev, smp))
         /\ IsFiniteSet(Claims(ev, smp)) /\ IsFiniteSet(SpanIds(Active(ev, smp)))
         /\ IsFiniteSet(SpanIds(Attributable(ev)))
<1>1. IsFiniteSet(Spans(ev)) /\ IsFiniteSet(EnergySamples(ev)) /\ IsFiniteSet(ProcWindows(ev))
  <2>1. Spans(ev) \in SUBSET ev /\ EnergySamples(ev) \in SUBSET ev /\ ProcWindows(ev) \in SUBSET ev
    BY DEF Spans, EnergySamples, ProcWindows, OfKind
  <2> QED BY <2>1, FS_Subset DEF Stored
<1>2. IsFiniteSet(Attributable(ev)) /\ IsFiniteSet(RemoteSpans(ev))
  <2>1. Attributable(ev) \in SUBSET Spans(ev) /\ RemoteSpans(ev) \in SUBSET Spans(ev)
    BY DEF Attributable, RemoteSpans
  <2> QED BY <1>1, <2>1, FS_Subset
<1>3. IsFiniteSet(Active(ev, smp)) /\ IsFiniteSet(Covering(ev, smp))
  <2>1. Active(ev, smp) \in SUBSET Attributable(ev) /\ Covering(ev, smp) \in SUBSET ProcWindows(ev)
    BY DEF Active, Covering
  <2> QED BY <1>1, <1>2, <2>1, FS_Subset
<1>4. IsFiniteSet(SpanIds(Active(ev, smp))) /\ IsFiniteSet(SpanIds(Attributable(ev)))
  <2>1. \A S : IsFiniteSet(S) => IsFiniteSet(SpanIds(S))
    <3> TAKE S
    <3> HAVE IsFiniteSet(S)
    <3> DEFINE f == [s \in S |-> s.span]
    <3>1. \A y \in SpanIds(S) : \E s \in S : f[s] = y
      BY DEF SpanIds
    <3> HIDE DEF f
    <3> QED BY <3>1, FiniteImage
  <2> QED BY <1>2, <1>3, <2>1
<1>5. IsFiniteSet(WindowPids(ev, smp))
  <2> DEFINE Pairs(w) == {<<w, r.pid>> : r \in w.rows}
             all == {Pairs(w) : w \in Covering(ev, smp)}
  <2>1. \A w \in Covering(ev, smp) : IsFiniteSet(Pairs(w))
    <3> TAKE w \in Covering(ev, smp)
    <3>1. IsFiniteSet(w.rows)
      BY Instants DEF Covering
    <3> DEFINE f == [r \in w.rows |-> <<w, r.pid>>]
    <3>2. \A y \in Pairs(w) : \E r \in w.rows : f[r] = y
      OBVIOUS
    <3> HIDE DEF f, Pairs
    <3> QED BY <3>1, <3>2, FiniteImage
  <2> HIDE DEF Pairs
  <2>2. IsFiniteSet(all)
    <3> DEFINE f == [w \in Covering(ev, smp) |-> Pairs(w)]
    <3>1. \A y \in all : \E w \in Covering(ev, smp) : f[w] = y
      OBVIOUS
    <3> HIDE DEF f, all
    <3> QED BY <1>3, <3>1, FiniteImage
  <2>3. \A x \in all : IsFiniteSet(x)
    BY <2>1
  <2>4. IsFiniteSet(UNION all)
    BY <2>2, <2>3, FS_UNION
  <2> QED BY <2>4 DEF WindowPids, Pairs
<1>6. IsFiniteSet(Claims(ev, smp))
  <2>1. IsFiniteSet(WindowPids(ev, smp) \X Active(ev, smp))
    BY <1>3, <1>5, FS_Product
  <2>2. Claims(ev, smp) \in SUBSET (WindowPids(ev, smp) \X Active(ev, smp))
    BY DEF Claims
  <2> QED BY <2>1, <2>2, FS_Subset
<1> QED BY <1>1, <1>2, <1>3, <1>4, <1>5, <1>6

LEMMA SampleEnergyIs ==
  ASSUME NEW ev, Stored(ev), NEW smp \in EnergySamples(ev)
  PROVE  SampleEnergy(smp) \in Amounts
<1> DEFINE totals == {i \in DOMAIN smp.parts : smp.parts[i][1] = "total"}
           counted == IF totals = {} THEN DOMAIN smp.parts ELSE totals
           f == [i \in counted |-> Whole(smp.parts[i][2])]
<1>1. smp.parts \in Seq(STRING \X Nat)
  BY Instants
<1>2. DOMAIN smp.parts = 1..Len(smp.parts) /\ Len(smp.parts) \in Nat
  <2>1. \A S : \A p \in Seq(S) : DOMAIN p = 1..Len(p) /\ Len(p) \in Nat
    OBVIOUS
  <2> QED BY <1>1, <2>1
<1>3. IsFiniteSet(DOMAIN smp.parts)
  <2>1. \A a, b \in Int : IsFiniteSet(a..b)
    BY FS_Interval
  <2>2. 1 \in Int /\ Len(smp.parts) \in Int
    BY <1>2
  <2> QED BY <1>2, <2>1, <2>2
<1>4. counted \in SUBSET DOMAIN smp.parts
  OBVIOUS
<1>5. \A i \in counted : smp.parts[i][2] \in Nat
  BY <1>1, <1>4
<1> HIDE DEF counted
<1>6. IsFiniteSet(counted)
  BY <1>3, <1>4, FS_Subset
<1>7. \A i \in counted : f[i] \in Amounts
  BY <1>5, WholeIsAmount
<1>8. SampleEnergy(smp) = TotalOn(f, counted)
  BY DEF SampleEnergy, counted, Total
<1> QED BY <1>6, <1>7, <1>8, TotalIsAmount

LEMMA PidCpuIs ==
  ASSUME NEW ev, Stored(ev), NEW smp \in EnergySamples(ev), NEW w \in ProcWindows(ev), NEW pid
  PROVE  PidCpu(w, pid, smp) \in Amounts
<1> DEFINE cpus == {r.cpu : r \in PidRows(w, pid)}
           o == OverlapMs(w.t0, w.t1, smp.t0, smp.t1)
<1>1. /\ w.t0 \in Int /\ w.t1 \in Int /\ w.t1 > w.t0 /\ smp.t0 \in Int /\ smp.t1 \in Int
      /\ IsFiniteSet(w.rows) /\ \A r \in w.rows : r.cpu \in Nat
  BY Instants
<1>2. o \in Nat
  BY <1>1, OverlapIs
<1>3. cpus \in SUBSET Nat /\ IsFiniteSet(cpus)
  <2> DEFINE f == [r \in w.rows |-> r.cpu]
  <2>1. \A y \in cpus : \E r \in w.rows : f[r] = y
    BY DEF PidRows
  <2>2. cpus \in SUBSET Nat
    BY <1>1 DEF PidRows
  <2> HIDE DEF f, cpus
  <2>3. IsFiniteSet(cpus)
    BY <1>1, <2>1, FiniteImage
  <2> QED BY <2>2, <2>3
<1> HIDE DEF cpus, o
<1>4. Max({0} \cup cpus) \in Nat
  <2>1. IsFiniteSet({0} \cup cpus)
    BY <1>3, FS_Singleton, FS_Union
  <2>2. {0} \cup cpus \in SUBSET Int /\ {0} \cup cpus # {} /\ {0} \cup cpus \subseteq Nat
    BY <1>3
  <2> QED BY <2>1, <2>2, FiniteMax
<1>5. Max({0} \cup cpus) * o \in Nat /\ w.t1 - w.t0 \in Positive
  BY <1>1, <1>2, <1>4 DEF Positive
<1>6. PidCpu(w, pid, smp) = Frac(Max({0} \cup cpus) * o, w.t1 - w.t0)
  BY DEF PidCpu, cpus, o
<1> QED BY <1>5, <1>6, FracIsAmount

\* How many ways a pid's cpu time is split.
Splits(ev, w, pid, smp) ==
  Cardinality(Claimants(ev, pid, smp)) + IF ToOrphan(ev, w, pid, smp) THEN 1 ELSE 0

LEMMA SplitsIs ==
  ASSUME NEW ev, Stored(ev), NEW smp, NEW w, NEW pid
  PROVE  /\ IsFiniteSet(Claimants(ev, pid, smp)) /\ Cardinality(Claimants(ev, pid, smp)) \in Nat
         /\ Splits(ev, w, pid, smp) \in Nat /\ Splits(ev, w, pid, smp) # 0
<1>1. IsFiniteSet(Claimants(ev, pid, smp))
  <2>1. Claimants(ev, pid, smp) \in SUBSET Active(ev, smp)
    BY DEF Claimants
  <2> QED BY <2>1, FiniteParts, FS_Subset
<1>2. Cardinality(Claimants(ev, pid, smp)) \in Nat
  BY <1>1, FS_CardinalityType
<1>3. ~ ToOrphan(ev, w, pid, smp) => Cardinality(Claimants(ev, pid, smp)) # 0
  BY <1>1, FS_EmptySet DEF ToOrphan
<1> QED BY <1>1, <1>2, <1>3 DEF Splits

LEMMA PidShareIs ==
  ASSUME NEW ev, Stored(ev), NEW smp \in EnergySamples(ev), NEW w \in ProcWindows(ev), NEW pid
  PROVE  /\ PidShare(ev, w, pid, smp) \in Amounts
         /\ Times(Whole(Splits(ev, w, pid, smp)), PidShare(ev, w, pid, smp)) = PidCpu(w, pid, smp)
<1>1. PidShare(ev, w, pid, smp) = Over(PidCpu(w, pid, smp), Whole(Splits(ev, w, pid, smp)))
  BY DEF PidShare, Splits
<1>2. PidCpu(w, pid, smp) \in Amounts /\ Whole(Splits(ev, w, pid, smp)) \in Above
  BY PidCpuIs, SplitsIs, WholeIsAmount
<1>3. PidShare(ev, w, pid, smp) \in Amounts
  BY <1>1, <1>2, OverIsAmount
<1> QED BY <1>1, <1>2, <1>3, OverIs, TimesCommutes, SomeAmounts

LEMMA WindowPidsAre ==
  ASSUME NEW ev, NEW smp, NEW wp \in WindowPids(ev, smp)
  PROVE  /\ wp = <<wp[1], wp[2]>> /\ wp[1] \in Covering(ev, smp) /\ wp[1] \in ProcWindows(ev)
         /\ \E r \in wp[1].rows : r.pid = wp[2]
<1>1. PICK w \in Covering(ev, smp) : wp \in {<<w, r.pid>> : r \in w.rows}
  BY DEF WindowPids
<1> QED BY <1>1 DEF Covering

\* The cpu time of a sample's windows, pid by pid.
SampleCpu(ev, smp) == Total([wp \in WindowPids(ev, smp) |-> PidCpu(wp[1], wp[2], smp)])
ShareOf(ev, smp) == [wp \in WindowPids(ev, smp) |-> PidShare(ev, wp[1], wp[2], smp)]
ClaimShare(ev, smp) == [c \in Claims(ev, smp) |-> PidShare(ev, c[1][1], c[1][2], smp)]

LEMMA ClaimsAre ==
  ASSUME NEW ev, Stored(ev), NEW smp \in EnergySamples(ev), NEW c \in Claims(ev, smp)
  PROVE  /\ c = <<c[1], c[2]>> /\ c[1] \in WindowPids(ev, smp) /\ c[2] \in Active(ev, smp)
         /\ c[2].span \in SpanIds(Active(ev, smp))
         /\ c[2] \in Claimants(ev, c[1][2], smp)
         /\ ClaimShare(ev, smp)[c] = ShareOf(ev, smp)[c[1]]
         /\ ClaimShare(ev, smp)[c] \in Amounts
<1>1. /\ c = <<c[1], c[2]>> /\ c[1] \in WindowPids(ev, smp) /\ c[2] \in Active(ev, smp)
      /\ c[2] \in Claimants(ev, c[1][2], smp)
  BY DEF Claims
<1>2. PidShare(ev, c[1][1], c[1][2], smp) \in Amounts
  BY <1>1, WindowPidsAre, PidShareIs
<1> QED BY <1>1, <1>2 DEF SpanIds, ClaimShare, ShareOf

\* What the claimants of one pid get together.
LEMMA ClaimedOfPid ==
  ASSUME NEW ev, Stored(ev), NEW smp \in EnergySamples(ev), NEW wp \in WindowPids(ev, smp),
         NEW p, \A c \in Claims(ev, smp) : p[c] = c[1]
  PROVE  TotalOn(ClaimShare(ev, smp), Class(Claims(ev, smp), p, wp)) =
           Times(Whole(Cardinality(Claimants(ev, wp[2], smp))), ShareOf(ev, smp)[wp])
<1> DEFINE S == Class(Claims(ev, smp), p, wp)
           T == Claimants(ev, wp[2], smp)
           v == ShareOf(ev, smp)[wp]
           g == ClaimShare(ev, smp)
           f == [s \in T |-> v]
           m == [c \in S |-> c[2]]
<1>1. \A c \in S : c \in Claims(ev, smp) /\ c = <<wp, c[2]>> /\ c[1] = wp
  BY ClaimsAre DEF Class
<1>2. \A s \in T : <<wp, s>> \in S
  <2> TAKE s \in T
  <2>1. s \in Active(ev, smp)
    BY DEF Claimants
  <2>2. <<wp, s>> \in Claims(ev, smp)
    BY <2>1 DEF Claims
  <2> QED BY <2>2 DEF Class
<1>3. IsFiniteSet(S) /\ IsFiniteSet(T)
  <2>1. S \in SUBSET Claims(ev, smp)
    BY DEF Class
  <2> QED BY <2>1, FiniteParts, FS_Subset, SplitsIs
<1>4. v \in Fractions
  <2>1. PidShare(ev, wp[1], wp[2], smp) \in Amounts
    BY WindowPidsAre, PidShareIs
  <2> QED BY <2>1, SomeAmounts DEF ShareOf
<1>5. \A c \in S : m[c] \in T /\ g[c] = v
  BY <1>1, ClaimsAre
<1>6. \A c \in S : m[c] = c[2]
  OBVIOUS
<1> HIDE DEF S, T, v, g, m
<1>7. \A s \in T : f[s] = v
  OBVIOUS
<1> HIDE DEF f
<1>8. \A c \in S : m[c] \in T /\ g[c] = f[m[c]]
  BY <1>5, <1>7
<1>9. \A s \in T : f[s] \in Fractions /\ \E c \in S : m[c] = s
  <2> TAKE s \in T
  <2>1. m[<<wp, s>>] = s
    BY <1>2, <1>6
  <2> QED BY <1>2, <1>4, <1>7, <2>1
<1>10. \A c, d \in S : m[c] = m[d] => c = d
  BY <1>1, <1>6
<1>11. TotalOn(g, S) = TotalOn(f, T)
  BY <1>3, <1>8, <1>9, <1>10, TotalRenamed
<1>12. TotalOn(f, T) = Times(Whole(Cardinality(T)), v)
  BY <1>3, <1>4, <1>7, TotalConstant
<1> QED BY <1>11, <1>12 DEF S, T, v, g

LEMMA OneMore ==
  ASSUME NEW n \in Nat, NEW v \in Fractions
  PROVE  Plus(Times(Whole(n), v), v) = Times(Whole(n + 1), v)
<1>1. Whole(n) \in Fractions /\ One \in Fractions
  BY Wholes, Constants
<1>2. Whole(n + 1) = Plus(One, Whole(n))
  <2>1. n + 1 = 1 + n
    OBVIOUS
  <2> QED BY <2>1, WholeAdds
<1>3. Times(v, Plus(One, Whole(n))) = Plus(Times(v, One), Times(v, Whole(n)))
  BY <1>1, TimesPlus
<1>4. Plus(Times(Whole(n), v), v) = Plus(v, Times(Whole(n), v))
  BY <1>1, PlusCommutes, Operations
<1> QED BY <1>1, <1>2, <1>3, <1>4, TimesUnits, TimesCommutes, Operations

\* The weights of the spans and of the orphans are the cpu time of the sample,
\* each pid's taken once.
LEMMA WeightsAddUp ==
  ASSUME NEW ev, Stored(ev), NEW smp \in EnergySamples(ev),
         NEW weight, weight = [id \in SpanIds(Active(ev, smp)) |-> SpanWeight(ev, smp, id)]
  PROVE  /\ \A id \in SpanIds(Active(ev, smp)) : weight[id] \in Amounts
         /\ OrphanWeight(ev, smp) \in Amounts
         /\ SampleCpu(ev, smp) \in Amounts
         /\ Plus(Total(weight), OrphanWeight(ev, smp)) = SampleCpu(ev, smp)
<1> DEFINE ids == SpanIds(Active(ev, smp))
           S == Claims(ev, smp)
           P == WindowPids(ev, smp)
           f == ClaimShare(ev, smp)
           share == ShareOf(ev, smp)
           spanOf == [c \in S |-> c[2].span]
           pairOf == [c \in S |-> c[1]]
           claimed == [wp \in P |-> Times(Whole(Cardinality(Claimants(ev, wp[2], smp))), share[wp])]
           orphaned == {wp \in P : ToOrphan(ev, wp[1], wp[2], smp)}
           left == [wp \in P |-> IF wp \in orphaned THEN share[wp] ELSE Zero]
           cpu == [wp \in P |-> PidCpu(wp[1], wp[2], smp)]
<1>1. IsFiniteSet(ids) /\ IsFiniteSet(S) /\ IsFiniteSet(P) /\ IsFiniteSet(orphaned)
  <2>1. IsFiniteSet(ids) /\ IsFiniteSet(S) /\ IsFiniteSet(P)
    BY FiniteParts
  <2>2. orphaned \in SUBSET P
    OBVIOUS
  <2> QED BY <2>1, <2>2, FS_Subset
<1>2. \A c \in S : f[c] \in Amounts /\ f[c] \in Fractions /\ spanOf[c] \in ids /\ pairOf[c] \in P
  BY ClaimsAre, SomeAmounts
<1>3. \A id \in ids : weight[id] = TotalOn(f, Class(S, spanOf, id))
  <2> TAKE id \in ids
  <2> DEFINE X == {x \in S : x[2].span = id}
             h == [c \in X |-> PidShare(ev, c[1][1], c[1][2], smp)]
  <2>1. X = Class(S, spanOf, id)
    BY DEF Class
  <2>2. \A c \in X : h[c] = f[c]
    BY DEF ClaimShare
  <2>3. weight[id] = TotalOn(h, X)
    BY DEF SpanWeight, Total
  <2>4. IsFiniteSet(X)
    BY <1>1, FS_Subset
  <2> HIDE DEF X, h
  <2>5. TotalOn(h, X) = TotalOn(f, X)
    BY <2>2, <2>4, TotalSame
  <2> QED BY <2>1, <2>3, <2>5
<1>4. \A wp \in P : claimed[wp] = TotalOn(f, Class(S, pairOf, wp))
  <2> TAKE wp \in P
  <2>1. \A c \in S : pairOf[c] = c[1]
    OBVIOUS
  <2> HIDE DEF pairOf
  <2>2. TotalOn(f, Class(S, pairOf, wp)) =
          Times(Whole(Cardinality(Claimants(ev, wp[2], smp))), share[wp])
    BY <2>1, ClaimedOfPid
  <2> QED BY <2>2
<1>5. \A wp \in P : share[wp] \in Amounts /\ share[wp] \in Fractions /\ cpu[wp] \in Amounts
  <2> TAKE wp \in P
  <2>1. wp[1] \in ProcWindows(ev)
    BY WindowPidsAre
  <2>2. PidShare(ev, wp[1], wp[2], smp) \in Amounts /\ PidCpu(wp[1], wp[2], smp) \in Amounts
    BY <2>1, PidShareIs, PidCpuIs
  <2> QED BY <2>2, SomeAmounts DEF ShareOf
<1>6. \A wp \in P : /\ claimed[wp] \in Fractions /\ left[wp] \in Fractions
                    /\ cpu[wp] = Plus(claimed[wp], left[wp])
  <2> TAKE wp \in P
  <2> DEFINE n == Cardinality(Claimants(ev, wp[2], smp))
             v == share[wp]
  <2>1. wp[1] \in ProcWindows(ev)
    BY WindowPidsAre
  <2>2. n \in Nat
    BY SplitsIs
  <2>3. Times(Whole(Splits(ev, wp[1], wp[2], smp)), v) = cpu[wp] /\ v \in Fractions
    BY <1>5, <2>1, PidShareIs DEF ShareOf
  <2>4. claimed[wp] = Times(Whole(n), v)
    OBVIOUS
  <2>5. claimed[wp] \in Fractions
    BY <2>2, <2>3, <2>4, Wholes, Operations
  <2>6. CASE wp \in orphaned
    <3>1. left[wp] = v /\ Splits(ev, wp[1], wp[2], smp) = n + 1
      BY <2>6 DEF Splits
    <3> HIDE DEF n, v, left, claimed
    <3> QED BY <2>2, <2>3, <2>4, <2>5, <3>1, OneMore
  <2>7. CASE wp \notin orphaned
    <3>1. left[wp] = Zero /\ Splits(ev, wp[1], wp[2], smp) = n
      BY <2>2, <2>7 DEF Splits
    <3> HIDE DEF n, v, left, claimed
    <3> QED BY <2>3, <2>4, <2>5, <3>1, PlusZero, Constants
  <2> QED BY <2>6, <2>7
<1>7. OrphanWeight(ev, smp) = TotalOn(left, P) /\ OrphanWeight(ev, smp) \in Amounts
  <2> DEFINE h == [wp \in orphaned |-> PidShare(ev, wp[1], wp[2], smp)]
  <2>1. OrphanWeight(ev, smp) = TotalOn(h, orphaned)
    BY DEF OrphanWeight, Total
  <2>2. \A wp \in orphaned : h[wp] = share[wp]
    BY DEF ShareOf
  <2>3. orphaned \in SUBSET P /\ \A wp \in P \ orphaned : left[wp] = Zero
    OBVIOUS
  <2>4. \A wp \in orphaned : h[wp] \in Amounts /\ h[wp] \in Fractions /\ left[wp] = h[wp]
    BY <1>5, <2>2
  <2> HIDE DEF h, left, orphaned
  <2>5. TotalOn(left, P) = TotalOn(h, orphaned)
    BY <1>1, <2>3, <2>4, TotalPart
  <2>6. TotalOn(h, orphaned) \in Amounts
    BY <1>1, <2>4, TotalIsAmount
  <2> QED BY <2>1, <2>5, <2>6
<1>8. SampleCpu(ev, smp) = TotalOn(cpu, P) /\ Total(weight) = TotalOn(weight, ids)
  BY DEF SampleCpu, Total
<1> HIDE DEF cpu, claimed, left, share, orphaned, spanOf, pairOf
<1>9. TotalOn(weight, ids) = TotalOn(f, S)
  BY <1>1, <1>2, <1>3, TotalByClass
<1>10. TotalOn(claimed, P) = TotalOn(f, S)
  BY <1>1, <1>2, <1>4, TotalByClass
<1>11. TotalOn(cpu, P) = Plus(TotalOn(claimed, P), TotalOn(left, P))
  BY <1>1, <1>6, TotalPlus
<1>12. \A id \in ids : weight[id] \in Amounts
  <2> TAKE id \in ids
  <2>1. Class(S, spanOf, id) \in SUBSET S
    BY DEF Class
  <2> HIDE DEF f, S
  <2>2. IsFiniteSet(Class(S, spanOf, id)) /\ \A c \in Class(S, spanOf, id) : f[c] \in Amounts
    BY <1>1, <1>2, <2>1, FS_Subset
  <2> QED BY <1>3, <2>2, TotalIsAmount
<1>13. TotalOn(cpu, P) \in Amounts
  BY <1>1, <1>5, TotalIsAmount
<1> QED BY <1>7, <1>8, <1>9, <1>10, <1>11, <1>12, <1>13

-----------------------------------------------------------------------------
(* What it pays *)

\* A claim of W on a capacity C is paid in proportion, and never more than all of E.
LEMMA ScaledDown ==
  ASSUME NEW E \in Amounts, NEW W \in Amounts, NEW C \in Above,
         NEW d, d = IF AtMost(W, C) THEN C ELSE W
  PROVE  /\ d \in Above /\ Over(E, d) \in Amounts
         /\ AtMost(Times(Over(E, d), W), E)
         /\ Times(Over(E, d), W) = Times(E, Clamp(Over(W, C)))
<1> DEFINE f == Over(W, C)
<1>1. E \in Fractions /\ W \in Fractions /\ C \in Fractions /\ C \in Amounts
  BY SomeAmounts
<1>2. f \in Amounts /\ f \in Fractions /\ Times(f, C) = W /\ Times(C, f) = W
  BY <1>1, OverIsAmount, OverIs, TimesCommutes, SomeAmounts
<1>3. One \in Fractions /\ Zero \in Fractions /\ Times(C, One) = C /\ Times(One, C) = C
  BY <1>1, Constants, TimesUnits
<1>4. ~ AtMost(One, Zero)
  BY Signs, Constants DEF One
<1>5. AtMost(One, f) => AtMost(C, W)
  BY <1>1, <1>2, <1>3, TimesMonotone DEF Amounts
<1>6. AtMost(f, One) => AtMost(W, C)
  BY <1>1, <1>2, <1>3, TimesMonotone DEF Amounts
<1>7. AtMost(One, f) \/ AtMost(f, One)
  BY <1>2, <1>3, AtMostOrders
<1>8. AtMost(f, Zero) => f = Zero
  BY <1>2, <1>3, AtMostOrders DEF Amounts
<1> HIDE DEF f
<1>9. CASE AtMost(W, C)
  <2>1. d = C
    BY <1>9
  <2>2. Over(E, C) \in Amounts /\ Over(E, C) \in Fractions /\ Times(Over(E, C), C) = E
    BY <1>1, OverIsAmount, OverIs, SomeAmounts
  <2>3. AtMost(Times(Over(E, C), W), Times(Over(E, C), C))
    BY <1>1, <1>9, <2>2, TimesMonotone DEF Amounts
  <2>4. AtMost(One, f) => f = One
    <3> HAVE AtMost(One, f)
    <3>1. W = C
      BY <1>1, <1>5, <1>9, AtMostOrders
    <3>2. Times(f, C) = Times(One, C)
      BY <1>2, <1>3, <3>1
    <3> QED BY <1>2, <1>3, <3>2, TimesCancels
  <2>5. Clamp(f) = f
    BY <1>8, <2>4 DEF Clamp
  <2>6. Times(Over(E, C), W) = Times(E, f)
    <3>1. Times(Times(Over(E, C), W), C) = Times(Over(E, C), Times(C, W))
      BY <1>1, <2>2, TimesAssociates, TimesCommutes
    <3>2. Times(Over(E, C), Times(C, W)) = Times(E, W)
      BY <1>1, <2>2, TimesAssociates
    <3>3. Times(Times(E, f), C) = Times(E, W)
      BY <1>1, <1>2, TimesAssociates
    <3>4. Times(Over(E, C), W) \in Fractions /\ Times(E, f) \in Fractions
      BY <1>1, <1>2, <2>2, Operations
    <3> QED BY <3>1, <3>2, <3>3, <3>4, TimesCancels
  <2> QED BY <2>1, <2>2, <2>3, <2>5, <2>6 DEF f
<1>10. CASE ~ AtMost(W, C)
  <2>1. AtMost(C, W) /\ d = W
    BY <1>1, <1>10, AtMostOrders
  <2>2. W # Zero
    BY <1>1, <1>10 DEF Amounts
  <2>3. W \in Above
    BY <1>1, <2>2 DEF Above, Amounts
  <2>4. Over(E, W) \in Amounts /\ Times(Over(E, W), W) = E
    BY <1>1, <2>3, OverIsAmount, OverIs
  <2>5. AtMost(One, f)
    BY <1>6, <1>7, <1>10
  <2>6. ~ AtMost(f, Zero)
    BY <1>2, <1>3, <1>4, <2>5, AtMostChains
  <2>7. Clamp(f) = One /\ Times(E, One) = E
    BY <1>1, <2>5, <2>6, TimesUnits DEF Clamp
  <2> QED BY <1>1, <2>1, <2>3, <2>4, <2>7, AtMostOrders DEF f
<1> QED BY <1>9, <1>10

\* A sample of positive length.
Measures(ev, smp) == smp \in EnergySamples(ev) /\ ~ Degenerate(smp)

LEMMA Capacity ==
  ASSUME NEW ev, Stored(ev), NEW smp, Measures(ev, smp)
  PROVE  /\ smp \in EnergySamples(ev) /\ smp.t0 \in Int /\ smp.t1 \in Int /\ smp.t0 < smp.t1
         /\ smp.t1 - smp.t0 \in Positive /\ Whole(smp.t1 - smp.t0) \in Above
<1>1. smp \in EnergySamples(ev) /\ smp.t0 \in Int /\ smp.t1 \in Int /\ smp.t0 < smp.t1
  BY Instants DEF Measures, Degenerate
<1>2. smp.t1 - smp.t0 \in Nat /\ smp.t1 - smp.t0 # 0
  BY <1>1
<1> QED BY <1>1, <1>2, WholeIsAmount DEF Positive

\* What a payment must keep to.
FairPay(ev, smp, pay) ==
  /\ DOMAIN pay.spans \subseteq SpanIds(Active(ev, smp)) /\ IsFiniteSet(DOMAIN pay.spans)
  /\ \A id \in DOMAIN pay.spans : pay.spans[id] \in Amounts
  /\ pay.orphan \in Amounts
  /\ AtMost(Plus(Total(pay.spans), pay.orphan), SampleEnergy(smp))

LEMMA CpuTimePaid ==
  ASSUME NEW ev, Stored(ev), NEW smp, Measures(ev, smp), NEW pay, pay = CpuTimePay(ev, smp)
  PROVE  /\ FairPay(ev, smp, pay) /\ DOMAIN pay.spans = SpanIds(Active(ev, smp))
         /\ Plus(Total(pay.spans), pay.orphan) =
              Times(SampleEnergy(smp), Clamp(Over(SampleCpu(ev, smp), Whole(smp.t1 - smp.t0))))
         /\ CpuTimeScale(smp, SampleCpu(ev, smp)) \in Amounts
         /\ \A id \in DOMAIN pay.spans :
               pay.spans[id] = Times(CpuTimeScale(smp, SampleCpu(ev, smp)), SpanWeight(ev, smp, id))
         /\ pay.orphan = Times(CpuTimeScale(smp, SampleCpu(ev, smp)), OrphanWeight(ev, smp))
<1> DEFINE ids == SpanIds(Active(ev, smp))
           weight == [id \in ids |-> SpanWeight(ev, smp, id)]
           orphan == OrphanWeight(ev, smp)
           W == SampleCpu(ev, smp)
           C == Whole(smp.t1 - smp.t0)
           E == SampleEnergy(smp)
           scale == CpuTimeScale(smp, W)
           paid == [id \in ids |-> Times(scale, weight[id])]
<1>1. IsFiniteSet(ids)
  BY FiniteParts
<1>2. /\ \A id \in ids : weight[id] \in Amounts
      /\ orphan \in Amounts /\ W \in Amounts /\ Plus(Total(weight), orphan) = W
  <2> HIDE DEF weight
  <2>1. weight = [id \in ids |-> SpanWeight(ev, smp, id)]
    BY DEF weight
  <2> QED BY <2>1, Capacity, WeightsAddUp
<1>3. E \in Amounts /\ C \in Above
  BY Capacity, SampleEnergyIs
<1>4. pay = [spans |-> paid, orphan |-> Times(scale, orphan)]
  <2>1. pay = [spans |-> [id \in ids |-> Times(CpuTimeScale(smp, Plus(Total(weight), orphan)), weight[id])],
               orphan |-> Times(CpuTimeScale(smp, Plus(Total(weight), orphan)), orphan)]
    BY DEF CpuTimePay
  <2> QED BY <1>2, <2>1
<1>5. /\ scale \in Amounts /\ AtMost(Times(scale, W), E)
      /\ Times(scale, W) = Times(E, Clamp(Over(W, C)))
  <2> DEFINE d == IF AtMost(W, C) THEN C ELSE W
  <2>1. /\ Over(E, d) \in Amounts /\ AtMost(Times(Over(E, d), W), E)
        /\ Times(Over(E, d), W) = Times(E, Clamp(Over(W, C)))
    BY <1>2, <1>3, ScaledDown
  <2>2. CASE AtMost(W, Zero)
    <3>1. W = Zero
      BY <1>2, <2>2, AtMostOrders, Constants DEF Amounts
    <3>2. scale = Zero
      BY <2>2 DEF CpuTimeScale
    <3>3. Times(Over(E, d), W) = Times(scale, W)
      BY <2>1, <3>1, <3>2, TimesUnits, SomeAmounts
    <3> QED BY <2>1, <3>2, <3>3, SomeAmounts
  <2>3. CASE ~ AtMost(W, Zero)
    <3>1. scale = Over(E, d)
      BY <2>3 DEF CpuTimeScale
    <3> QED BY <2>1, <3>1
  <2> QED BY <2>2, <2>3
<1>6. Total(weight) = TotalOn(weight, ids) /\ Total(paid) = TotalOn(paid, ids)
  BY DEF Total
<1>7. \A id \in ids : /\ paid[id] = Times(scale, weight[id])
                       /\ paid[id] = Times(scale, SpanWeight(ev, smp, id))
  OBVIOUS
<1> HIDE DEF weight, paid, scale, W, E, C, orphan
<1>8. \A id \in ids : weight[id] \in Fractions /\ paid[id] = Times(scale, weight[id])
  BY <1>2, <1>7, SomeAmounts
<1>9. scale \in Fractions /\ orphan \in Fractions
  BY <1>2, <1>5, SomeAmounts
<1>10. TotalOn(paid, ids) = Times(scale, TotalOn(weight, ids))
  BY <1>1, <1>8, <1>9, TotalTimes
<1>11. TotalOn(weight, ids) \in Fractions
  BY <1>1, <1>8, TotalType
<1>12. Plus(Total(paid), Times(scale, orphan)) = Times(scale, W)
  BY <1>2, <1>6, <1>9, <1>10, <1>11, TimesPlus
<1>13. pay.spans = paid /\ pay.orphan = Times(scale, orphan) /\ DOMAIN paid = ids
  BY <1>4 DEF paid
<1>14. \A id \in ids : paid[id] \in Amounts
  BY <1>2, <1>5, <1>7, AmountsClosed
<1>15. Times(scale, orphan) \in Amounts
  BY <1>2, <1>5, AmountsClosed
<1>16. AtMost(Plus(Total(paid), Times(scale, orphan)), E)
  BY <1>5, <1>12
<1>17. FairPay(ev, smp, pay)
  BY <1>1, <1>13, <1>14, <1>15, <1>16 DEF FairPay, E
<1> QED BY <1>5, <1>7, <1>12, <1>13, <1>17 DEF W, E, C, scale, orphan

\* The shares of the window the active events claim.
SharesOf(S, smp) == [s \in S |-> WallClockShare(s, smp)]
SpanShare(S, smp, id) == TotalOn(SharesOf(S, smp), {s \in S : s.span = id})

LEMMA ShareIs ==
  ASSUME NEW ev, Stored(ev), NEW smp, Measures(ev, smp), NEW s \in Attributable(ev)
  PROVE  WallClockShare(s, smp) \in Amounts
<1>1. s.t0 \in Int /\ s.t1 \in Int
  BY Instants DEF Attributable
<1>2. /\ smp.t0 \in Int /\ smp.t1 \in Int /\ smp.t1 - smp.t0 \in Positive
  BY Capacity
<1>3. OverlapMs(s.t0, s.t1, smp.t0, smp.t1) \in Nat
  BY <1>1, <1>2, OverlapIs
<1> QED BY <1>2, <1>3, FracIsAmount DEF WallClockShare

LEMMA WallClockPaid ==
  ASSUME NEW ev, Stored(ev), NEW smp, Measures(ev, smp), NEW pay, pay = WallClockPay(ev, smp)
  PROVE  /\ FairPay(ev, smp, pay) /\ DOMAIN pay.spans = SpanIds(Active(ev, smp))
         /\ pay.orphan = Zero /\ WallClockScale(smp, Active(ev, smp)) \in Amounts
         /\ Total(SharesOf(Active(ev, smp), smp)) \in Amounts
         /\ \A id \in DOMAIN pay.spans :
               pay.spans[id] = Times(WallClockScale(smp, Active(ev, smp)),
                                     SpanShare(Active(ev, smp), smp, id))
         /\ Total(pay.spans) =
              Times(SampleEnergy(smp), Clamp(Over(Total(SharesOf(Active(ev, smp), smp)), One)))
<1> DEFINE A == Active(ev, smp)
           ids == SpanIds(A)
           f == SharesOf(A, smp)
           W == Total(f)
           E == SampleEnergy(smp)
           scale == WallClockScale(smp, A)
           spanOf == [s \in A |-> s.span]
           weight == [id \in ids |-> TotalOn(f, Class(A, spanOf, id))]
           paid == [id \in ids |-> Times(scale, weight[id])]
<1>1. IsFiniteSet(ids) /\ IsFiniteSet(A)
  BY FiniteParts
<1>2. \A s \in A : f[s] \in Amounts /\ f[s] \in Fractions /\ spanOf[s] \in ids
  BY ShareIs, SomeAmounts DEF SharesOf, SpanIds, Active
<1>3. E \in Amounts /\ One \in Above /\ Zero \in Amounts
  BY Capacity, SampleEnergyIs, SomeAmounts
<1>4. W = TotalOn(f, A)
  BY DEF Total, SharesOf
<1>5. scale = Over(E, IF AtMost(W, One) THEN One ELSE W)
  BY DEF WallClockScale, SharesOf
<1>6. pay.spans = paid /\ pay.orphan = Zero
  <2>1. \A id \in ids : Total([s \in {x \in A : x.span = id} |-> WallClockShare(s, smp)]) = weight[id]
    <3> TAKE id \in ids
    <3> DEFINE X == {x \in A : x.span = id}
               h == [s \in X |-> WallClockShare(s, smp)]
    <3>1. X = Class(A, spanOf, id)
      BY DEF Class
    <3>2. \A s \in X : h[s] = f[s]
      BY DEF SharesOf
    <3>3. IsFiniteSet(X)
      BY <1>1, FS_Subset
    <3>4. Total(h) = TotalOn(h, X)
      BY DEF Total
    <3> HIDE DEF X, h
    <3>5. TotalOn(h, X) = TotalOn(f, X)
      BY <3>2, <3>3, TotalSame
    <3>6. Total(h) = weight[id]
      BY <3>1, <3>4, <3>5
    <3> QED BY <3>6 DEF h, X
  <2>2. pay.spans = [id \in ids |->
            Times(scale, Total([s \in {x \in A : x.span = id} |-> WallClockShare(s, smp)]))]
        /\ pay.orphan = Zero
    BY DEF WallClockPay
  <2> HIDE DEF weight, scale, A, ids
  <2> QED BY <2>1, <2>2
<1>7. \A id \in ids : weight[id] = TotalOn(f, Class(A, spanOf, id)) /\ paid[id] = Times(scale, weight[id])
  OBVIOUS
<1>8. DOMAIN paid = ids /\ Total(paid) = TotalOn(paid, ids)
  BY DEF Total
<1>9. \A id \in ids : Class(A, spanOf, id) = {s \in A : s.span = id}
  BY DEF Class
<1> HIDE DEF A, ids, f, W, E, scale, weight, paid, spanOf
<1>10. \A id \in ids : weight[id] \in Amounts /\ weight[id] \in Fractions
  <2> TAKE id \in ids
  <2>1. Class(A, spanOf, id) \in SUBSET A
    BY DEF Class
  <2>2. TotalOn(f, Class(A, spanOf, id)) \in Amounts
    BY <1>1, <1>2, <2>1, FS_Subset, TotalIsAmount
  <2> QED BY <1>7, <2>2, SomeAmounts
<1>11. W \in Amounts
  BY <1>1, <1>2, <1>4, TotalIsAmount
<1>12. scale \in Amounts /\ AtMost(Times(scale, W), E) /\ Times(scale, W) = Times(E, Clamp(Over(W, One)))
  BY <1>3, <1>5, <1>11, ScaledDown
<1>13. TotalOn(weight, ids) = TotalOn(f, A)
  BY <1>1, <1>2, <1>7, TotalByClass
<1>14. TotalOn(paid, ids) = Times(scale, TotalOn(weight, ids))
  BY <1>1, <1>7, <1>10, <1>12, SomeAmounts, TotalTimes
<1>15. Total(paid) = Times(scale, W)
  BY <1>4, <1>8, <1>13, <1>14
<1>16. \A id \in ids : paid[id] \in Amounts
  BY <1>7, <1>10, <1>12, AmountsClosed
<1>17. Plus(Total(paid), Zero) = Total(paid)
  <2>1. Total(paid) \in Amounts
    BY <1>11, <1>12, <1>15, AmountsClosed
  <2> QED BY <2>1, PlusZero, SomeAmounts
<1>18. FairPay(ev, smp, pay)
  BY <1>1, <1>3, <1>6, <1>8, <1>12, <1>15, <1>16, <1>17 DEF FairPay, E, ids, A
<1>19. \A id \in ids : paid[id] = Times(scale, SpanShare(A, smp, id))
  BY <1>7, <1>9 DEF SpanShare, f
<1> QED BY <1>6, <1>8, <1>11, <1>12, <1>15, <1>18, <1>19 DEF W, E, A, ids, f, scale

LEMMA PoliciesAreNotNone == "l2_cpu_time" # None /\ "l1_wall_clock" # None
BY NoneAssumption

\* Nothing is divided over a degenerate sample.
LEMMA PolicyIs ==
  ASSUME NEW ev, NEW smp
  PROVE  /\ PolicyOf(ev, smp) \in {None, "l2_cpu_time", "l1_wall_clock"}
         /\ Degenerate(smp) => PolicyOf(ev, smp) = None
         /\ PolicyOf(ev, smp) = "l2_cpu_time" => Covering(ev, smp) # {}
         /\ PolicyOf(ev, smp) = "l1_wall_clock" => Covering(ev, smp) = {}
<1>1. CASE Degenerate(smp)
  <2>1. PolicyOf(ev, smp) = None
    BY <1>1 DEF PolicyOf
  <2> QED BY <2>1, PoliciesAreNotNone
<1>2. CASE ~ Degenerate(smp) /\ Covering(ev, smp) # {}
  <2>1. PolicyOf(ev, smp) \in {None, "l2_cpu_time"}
    BY <1>2 DEF PolicyOf
  <2> QED BY <1>2, <2>1, PoliciesAreNotNone
<1>3. CASE ~ Degenerate(smp) /\ Covering(ev, smp) = {}
  <2>1. PolicyOf(ev, smp) \in {None, "l1_wall_clock"}
    BY <1>3 DEF PolicyOf
  <2> QED BY <1>3, <2>1, PoliciesAreNotNone
<1> QED BY <1>1, <1>2, <1>3

\* What is paid under each policy.
LEMMA PayIs ==
  ASSUME NEW ev, NEW smp, NEW pay, pay = Pay(ev, smp)
  PROVE  /\ pay.policy = PolicyOf(ev, smp)
         /\ pay.policy = "l2_cpu_time" => /\ pay.spans = CpuTimePay(ev, smp).spans
                                          /\ pay.orphan = CpuTimePay(ev, smp).orphan
         /\ pay.policy = "l1_wall_clock" => /\ pay.spans = WallClockPay(ev, smp).spans
                                            /\ pay.orphan = WallClockPay(ev, smp).orphan
         /\ pay.policy = None => pay.spans = [id \in {} |-> Zero] /\ pay.orphan = Zero
<1>1. pay.policy = PolicyOf(ev, smp)
  BY DEF Pay
<1>2. ASSUME pay.policy = "l2_cpu_time"
      PROVE  pay.spans = CpuTimePay(ev, smp).spans /\ pay.orphan = CpuTimePay(ev, smp).orphan
  BY <1>1, <1>2 DEF Pay
<1>3. ASSUME pay.policy = "l1_wall_clock"
      PROVE  pay.spans = WallClockPay(ev, smp).spans /\ pay.orphan = WallClockPay(ev, smp).orphan
  BY <1>1, <1>3 DEF Pay
<1>4. ASSUME pay.policy = None
      PROVE  pay.spans = [id \in {} |-> Zero] /\ pay.orphan = Zero
  BY <1>1, <1>4, PoliciesAreNotNone DEF Pay
<1> QED BY <1>1, <1>2, <1>3, <1>4

\* Whatever the policy, no sample pays more than it holds, or less than nothing.
LEMMA PayIsFair ==
  ASSUME NEW ev, Stored(ev), NEW smp \in EnergySamples(ev), NEW pay, pay = Pay(ev, smp)
  PROVE  /\ FairPay(ev, smp, pay)
         /\ pay.policy = None => Total(pay.spans) = Zero /\ pay.orphan = Zero
         /\ pay.policy # None => DOMAIN pay.spans = SpanIds(Active(ev, smp))
<1>1. /\ pay.policy \in {None, "l2_cpu_time", "l1_wall_clock"}
      /\ pay.policy # None => Measures(ev, smp)
  BY PayIs, PolicyIs DEF Measures
<1>2. CASE pay.policy = "l2_cpu_time"
  <2>1. pay.spans = CpuTimePay(ev, smp).spans /\ pay.orphan = CpuTimePay(ev, smp).orphan
    BY <1>2, PayIs
  <2>2. /\ FairPay(ev, smp, CpuTimePay(ev, smp))
        /\ DOMAIN CpuTimePay(ev, smp).spans = SpanIds(Active(ev, smp))
    BY <1>1, <1>2, PoliciesAreNotNone, CpuTimePaid
  <2> QED BY <1>2, <2>1, <2>2, PoliciesAreNotNone DEF FairPay
<1>3. CASE pay.policy = "l1_wall_clock"
  <2>1. pay.spans = WallClockPay(ev, smp).spans /\ pay.orphan = WallClockPay(ev, smp).orphan
    BY <1>3, PayIs
  <2>2. /\ FairPay(ev, smp, WallClockPay(ev, smp))
        /\ DOMAIN WallClockPay(ev, smp).spans = SpanIds(Active(ev, smp))
    BY <1>1, <1>3, PoliciesAreNotNone, WallClockPaid
  <2> QED BY <1>3, <2>1, <2>2, PoliciesAreNotNone DEF FairPay
<1>4. CASE pay.policy = None
  <2>1. pay.spans = [id \in {} |-> Zero] /\ pay.orphan = Zero
    BY <1>4, PayIs
  <2>2. DOMAIN pay.spans = {} /\ Total(pay.spans) = Zero
    BY <2>1, TotalEmpty DEF Total
  <2>3. Plus(Zero, Zero) = Zero /\ Zero \in Amounts /\ AtMost(Zero, SampleEnergy(smp))
    BY PlusZero, SomeAmounts, SampleEnergyIs DEF Amounts
  <2> QED BY <1>4, <2>1, <2>2, <2>3, FS_EmptySet DEF FairPay
<1> QED BY <1>1, <1>2, <1>3, <1>4

-----------------------------------------------------------------------------
(* The trace of a sample *)

\* Nobody is paid more than the sample holds.
LEMMA PaidToIs ==
  ASSUME NEW ev, Stored(ev), NEW smp \in EnergySamples(ev), NEW pay, FairPay(ev, smp, pay)
  PROVE  /\ \A id : PaidTo(pay, id) \in Amounts /\ AtMost(PaidTo(pay, id), SampleEnergy(smp))
         /\ Total(pay.spans) \in Amounts
         /\ AtMost(Total(pay.spans), SampleEnergy(smp))
<1> DEFINE D == DOMAIN pay.spans
           spans == pay.spans
           E == SampleEnergy(smp)
<1>1. /\ IsFiniteSet(D) /\ pay.orphan \in Amounts /\ E \in Amounts /\ Zero \in Amounts
      /\ \A id \in D : spans[id] \in Amounts
      /\ AtMost(Plus(Total(spans), pay.orphan), E)
  BY SampleEnergyIs, SomeAmounts DEF FairPay
<1>2. \A id \in D : spans[id] \in Fractions /\ AtMost(Zero, spans[id])
  BY <1>1 DEF Amounts
<1>3. Total(spans) = TotalOn(spans, D)
  BY DEF Total
<1> HIDE DEF E
<1>4. Total(spans) \in Amounts
  <2> HIDE DEF D, spans
  <2> QED BY <1>1, <1>3, TotalIsAmount
<1>5. AtMost(Total(spans), E)
  <2>1. AtMost(Total(spans), Plus(Total(spans), pay.orphan))
    BY <1>1, <1>4, PlusGrows DEF Amounts
  <2>2. Plus(Total(spans), pay.orphan) \in Fractions
    BY <1>1, <1>4, Operations DEF Amounts
  <2> QED BY <1>1, <1>4, <2>1, <2>2, AtMostChains DEF Amounts
<1>6. ASSUME NEW id PROVE PaidTo(pay, id) \in Amounts /\ AtMost(PaidTo(pay, id), E)
  <2>1. CASE id \in D
    <3>1. PaidTo(pay, id) = spans[id]
      BY <2>1 DEF PaidTo
    <3>2. {id} \in SUBSET D /\ TotalOn(spans, {id}) = spans[id]
      BY <1>2, <2>1, TotalOne
    <3> HIDE DEF D, spans
    <3>3. AtMost(TotalOn(spans, {id}), TotalOn(spans, D))
      BY <1>1, <1>2, <3>2, TotalWithin
    <3> QED BY <1>1, <1>3, <1>4, <1>5, <2>1, <3>1, <3>2, <3>3, AtMostChains DEF Amounts
  <2>2. CASE id \notin D
    <3>1. PaidTo(pay, id) = Zero
      BY <2>2 DEF PaidTo
    <3> QED BY <1>1, <3>1 DEF Amounts
  <2> QED BY <2>1, <2>2
<1> QED BY <1>4, <1>5, <1>6 DEF E

\* The parts of a trace that do not depend on its rows.
LEMMA TraceIs ==
  ASSUME NEW ev, Stored(ev), NEW smp \in EnergySamples(ev), NEW pay, pay = Pay(ev, smp),
         NEW t, t = Trace(ev, smp, pay)
  PROVE  /\ t.policy = pay.policy /\ t.total = SampleEnergy(smp) /\ t.orphaned = pay.orphan
         /\ t.orphaned \in Amounts /\ t.baseline \in Amounts
         /\ Plus(Total(pay.spans), Plus(t.orphaned, t.baseline)) = t.total
         /\ Minus(t.total, t.baseline) = Plus(Total(pay.spans), pay.orphan)
<1> DEFINE E == SampleEnergy(smp)
           paid == Plus(Total(pay.spans), pay.orphan)
<1>1. FairPay(ev, smp, pay)
  BY PayIsFair
<1>2. E \in Fractions /\ Total(pay.spans) \in Fractions /\ pay.orphan \in Amounts
      /\ pay.orphan \in Fractions /\ AtMost(paid, E)
  BY <1>1, PaidToIs, SampleEnergyIs, SomeAmounts DEF FairPay
<1>3. paid \in Fractions
  BY <1>2, Operations
<1>4. /\ t.policy = pay.policy /\ t.total = E /\ t.orphaned = pay.orphan
      /\ t.baseline = Minus(E, paid)
  BY DEF Trace
<1> HIDE DEF E
<1>5. /\ t.baseline \in Amounts /\ t.baseline \in Fractions /\ Plus(paid, t.baseline) = E
      /\ Minus(E, t.baseline) = paid
  <2> HIDE DEF paid
  <2> QED BY <1>2, <1>3, <1>4, MinusIs, MinusIsRest
<1>6. Plus(Total(pay.spans), Plus(pay.orphan, t.baseline)) = Plus(paid, t.baseline)
  BY <1>2, <1>5, PlusAssociates
<1> QED BY <1>2, <1>4, <1>5, <1>6 DEF E

\* No row of a trace is paid less than nothing or more than the sample, and
\* the rows of distinct spans add up to what the sample pays.
LEMMA RowsAre ==
  ASSUME NEW ev, Stored(ev), NEW smp \in EnergySamples(ev), NEW pay, pay = Pay(ev, smp),
         NEW t, t = Trace(ev, smp, pay)
  PROVE  /\ \A r \in t.rows : r.joules \in Amounts /\ AtMost(r.joules, t.total)
         /\ OneEventPerSpan(Active(ev, smp)) => RowJoules(t) = Total(pay.spans)
<1> DEFINE A == Active(ev, smp)
           E == SampleEnergy(smp)
           seen == IF Degenerate(smp) THEN {} ELSE {s \in RemoteSpans(ev) : Overlaps(s, smp.t0, smp.t1)}
           active == IF pay.policy = None THEN {} ELSE A
           ex == {[event |-> s.id, joules |-> Zero, excluded |-> TRUE] : s \in seen}
           own == {[event |-> s.id, joules |-> PaidTo(pay, s.span), excluded |-> FALSE] : s \in active}
           f == [r \in t.rows |-> r.joules]
           row == [s \in active |-> [event |-> s.id, joules |-> PaidTo(pay, s.span), excluded |-> FALSE]]
           g == [s \in active |-> PaidTo(pay, s.span)]
           spanOf == [s \in active |-> s.span]
           exRow == [s \in seen |-> [event |-> s.id, joules |-> Zero, excluded |-> TRUE]]
<1>1. t.rows = ex \cup own /\ t.total = E
  BY DEF Trace
<1>2. /\ \A id : PaidTo(pay, id) \in Amounts /\ AtMost(PaidTo(pay, id), E)
      /\ E \in Amounts /\ Zero \in Amounts /\ AtMost(Zero, E)
  BY PayIsFair, PaidToIs, SampleEnergyIs, SomeAmounts DEF Amounts
<1>3. \A r \in ex : r.joules = Zero
  OBVIOUS
<1>4. \A r \in own : r.joules \in Amounts /\ AtMost(r.joules, E)
  <2> HIDE DEF E, active
  <2> QED BY <1>2
<1>5. \A r \in t.rows : r.joules \in Amounts /\ AtMost(r.joules, t.total)
  <2> HIDE DEF ex, own, E
  <2> QED BY <1>1, <1>2, <1>3, <1>4
<1>6. ASSUME OneEventPerSpan(A) PROVE RowJoules(t) = Total(pay.spans)
  <2>1. IsFiniteSet(seen) /\ IsFiniteSet(active)
    <3>1. seen \in SUBSET RemoteSpans(ev) /\ active \in SUBSET A
      OBVIOUS
    <3>2. IsFiniteSet(RemoteSpans(ev)) /\ IsFiniteSet(A)
      BY FiniteParts
    <3> HIDE DEF seen, active, A
    <3> QED BY <3>1, <3>2, FS_Subset
  <2>2. IsFiniteSet(ex) /\ IsFiniteSet(own)
    <3>1. \A r \in ex : \E s \in seen : exRow[s] = r
      OBVIOUS
    <3>2. \A r \in own : \E s \in active : row[s] = r
      OBVIOUS
    <3> HIDE DEF seen, active, exRow, row, ex, own
    <3> QED BY <2>1, <3>1, <3>2, FiniteImage
  <2>3. IsFiniteSet(t.rows)
    <3> HIDE DEF ex, own
    <3> QED BY <1>1, <2>2, FS_Union
  <2>4. RowJoules(t) = TotalOn(f, t.rows)
    BY DEF RowJoules, Total
  <2>5. TotalOn(f, t.rows) = TotalOn(f, own)
    <3>1. own \in SUBSET t.rows
      BY <1>1
    <3>2. \A r \in own : f[r] \in Fractions /\ f[r] = f[r]
      BY <1>4, <3>1, SomeAmounts
    <3>3. \A r \in t.rows \ own : f[r] = Zero
      BY <1>1, <1>3
    <3> HIDE DEF f, own
    <3> QED BY <2>3, <3>1, <3>2, <3>3, TotalPart
  <2>6. TotalOn(g, active) = TotalOn(f, own)
    <3>1. \A s \in active : row[s] \in own /\ g[s] = f[row[s]]
      BY <1>1
    <3>2. \A r \in own : \E s \in active : row[s] = r
      OBVIOUS
    <3>3. \A s, x \in active : row[s] = row[x] => s = x
      <4>1. \A s \in active : s \in Catalog /\ row[s].event = s.id
        BY DEF Stored, Active, Attributable, Spans, OfKind
      <4> HIDE DEF active, row
      <4> QED BY <4>1, CatalogAssumption
    <3>4. \A r \in own : f[r] \in Fractions
      BY <1>1, <1>4, SomeAmounts
    <3> HIDE DEF f, g, row, own, active, ex, seen
    <3>5. \A r \in own : f[r] \in Fractions /\ \E s \in active : row[s] = r
      BY <3>2, <3>4
    <3>6. IsFiniteSet(own) /\ IsFiniteSet(active)
      BY <2>1, <2>2
    <3> QED BY <3>1, <3>3, <3>5, <3>6, TotalRenamed
  <2>7. TotalOn(g, active) = Total(pay.spans)
    <3>1. CASE pay.policy = None
      <4>1. active = {} /\ Total(pay.spans) = Zero
        BY <3>1, PayIsFair
      <4> HIDE DEF g, active
      <4> QED BY <4>1, TotalEmpty
    <3>2. CASE pay.policy # None
      <4> DEFINE ids == DOMAIN pay.spans
                 paid == pay.spans
      <4>1. active = A /\ ids = SpanIds(A)
        BY <3>2, PayIsFair
      <4>2. \A s \in active : spanOf[s] \in ids /\ g[s] = paid[spanOf[s]]
        BY <4>1 DEF SpanIds, PaidTo
      <4>3. \A id \in ids : \E s \in active : spanOf[s] = id
        BY <4>1 DEF SpanIds
      <4>4. \A s, x \in active : spanOf[s] = spanOf[x] => s = x
        BY <1>6, <4>1 DEF OneEventPerSpan
      <4>5. \A id \in ids : paid[id] \in Fractions
        BY PayIsFair, SomeAmounts DEF FairPay
      <4>6. IsFiniteSet(ids) /\ Total(pay.spans) = TotalOn(paid, ids)
        BY PayIsFair DEF FairPay, Total
      <4> HIDE DEF active, g, spanOf, ids, paid
      <4>7. \A id \in ids : paid[id] \in Fractions /\ \E s \in active : spanOf[s] = id
        BY <4>3, <4>5
      <4> QED BY <2>1, <4>2, <4>4, <4>6, <4>7, TotalRenamed
    <3> QED BY <3>1, <3>2
  <2> QED BY <2>4, <2>5, <2>6, <2>7
<1> QED BY <1>5, <1>6 DEF A

-----------------------------------------------------------------------------
(* The apportionment of a session *)

PaidOver(ev, id) == [smp \in EnergySamples(ev) |-> PaidTo(Pay(ev, smp), id)]
TraceOf(ev, smp) == Trace(ev, smp, Pay(ev, smp))

LEMMA ApportionIs ==
  ASSUME NEW ev, Stored(ev), NEW shares, shares = Apportion(ev)
  PROVE  /\ \A smp \in EnergySamples(ev) : shares.traces[smp.id] = TraceOf(ev, smp)
         /\ shares.orphaned =
              TotalOn([smp \in EnergySamples(ev) |-> Pay(ev, smp).orphan], EnergySamples(ev))
         /\ shares.baseline_idle =
              TotalOn([smp \in EnergySamples(ev) |-> TraceOf(ev, smp).baseline], EnergySamples(ev))
         /\ \A id : SpanJ(shares, id) = TotalOn(PaidOver(ev, id), EnergySamples(ev))
<1> DEFINE S == EnergySamples(ev)
           pay == [smp \in S |-> Pay(ev, smp)]
           trace == [smp \in S |-> Trace(ev, smp, pay[smp])]
           ids == UNION {DOMAIN pay[smp].spans : smp \in S}
<1>1. /\ shares.traces = [id \in {smp.id : smp \in S} |-> trace[CHOOSE smp \in S : smp.id = id]]
      /\ shares.per_span = [id \in ids |-> Total([smp \in S |-> PaidTo(pay[smp], id)])]
      /\ shares.orphaned = Total([smp \in S |-> pay[smp].orphan])
      /\ shares.baseline_idle = Total([smp \in S |-> trace[smp].baseline])
  <2> HIDE DEF S
  <2> QED BY DEF Apportion, S
<1>2. \A smp \in S : pay[smp] = Pay(ev, smp) /\ trace[smp] = TraceOf(ev, smp)
  BY DEF TraceOf
<1>3. IsFiniteSet(S)
  BY FiniteParts
<1>4. \A smp \in S : smp \in Catalog
  BY DEF Stored, EnergySamples, OfKind
<1> HIDE DEF S, pay, trace
<1>5. ASSUME NEW smp \in S PROVE shares.traces[smp.id] = TraceOf(ev, smp)
  <2>1. (CHOOSE x \in S : x.id = smp.id) = smp
    BY <1>4, CatalogAssumption
  <2> DEFINE i == smp.id
             byId == {x.id : x \in S}
             first == [id \in byId |-> trace[CHOOSE x \in S : x.id = id]]
  <2>2. i \in byId /\ shares.traces = first
    BY <1>1
  <2>3. shares.traces[i] = trace[CHOOSE x \in S : x.id = i]
    <3> HIDE DEF byId, i
    <3> QED BY <2>2
  <2> QED BY <1>2, <2>1, <2>3
<1>6. shares.orphaned = TotalOn([smp \in S |-> Pay(ev, smp).orphan], S)
  <2>1. [smp \in S |-> pay[smp].orphan] = [smp \in S |-> Pay(ev, smp).orphan]
    BY <1>2
  <2> QED BY <1>1, <2>1 DEF Total
<1>7. shares.baseline_idle = TotalOn([smp \in S |-> TraceOf(ev, smp).baseline], S)
  <2>1. [smp \in S |-> trace[smp].baseline] = [smp \in S |-> TraceOf(ev, smp).baseline]
    BY <1>2
  <2> QED BY <1>1, <2>1 DEF Total
<1>8. ASSUME NEW id PROVE SpanJ(shares, id) = TotalOn(PaidOver(ev, id), S)
  <2> DEFINE p == [smp \in S |-> PaidTo(pay[smp], id)]
  <2>1. p = PaidOver(ev, id) /\ Total(p) = TotalOn(p, S)
    BY <1>2 DEF PaidOver, S, Total
  <2>2. CASE id \in ids
    <3>1. SpanJ(shares, id) = Total(p)
      BY <1>1, <2>2 DEF SpanJ
    <3> QED BY <2>1, <3>1
  <2>3. CASE id \notin ids
    <3>1. SpanJ(shares, id) = Zero
      BY <1>1, <2>3 DEF SpanJ
    <3>2. \A smp \in S : p[smp] = Zero
      BY <2>3 DEF PaidTo
    <3> HIDE DEF p
    <3> QED BY <1>3, <2>1, <3>1, <3>2, TotalZero
  <2> QED BY <2>2, <2>3
<1> QED BY <1>5, <1>6, <1>7, <1>8 DEF S

\* What is paid, orphaned and left over is the energy of the samples.
SessionJ(ev) == Total([smp \in EnergySamples(ev) |-> SampleEnergy(smp)])
Attributed(ev, shares) ==
  TotalOn([id \in SpanIds(Attributable(ev)) |-> SpanJ(shares, id)], SpanIds(Attributable(ev)))
LEMMA SharesAddUp ==
  ASSUME NEW ev, Stored(ev), NEW shares, shares = Apportion(ev)
  PROVE  /\ \A id : SpanJ(shares, id) \in Amounts
         /\ Attributed(ev, shares) \in Fractions
         /\ Plus(Attributed(ev, shares), Plus(shares.orphaned, shares.baseline_idle))
              = SessionJ(ev)
<1> DEFINE S == EnergySamples(ev)
           ids == SpanIds(Attributable(ev))
           F == [smp \in S |-> [id \in ids |-> PaidTo(Pay(ev, smp), id)]]
           G == [id \in ids |-> PaidOver(ev, id)]
           r == [smp \in S |-> Total(Pay(ev, smp).spans)]
           c == [id \in ids |-> SpanJ(shares, id)]
           o == [smp \in S |-> Pay(ev, smp).orphan]
           b == [smp \in S |-> TraceOf(ev, smp).baseline]
           ob == [smp \in S |-> Plus(o[smp], b[smp])]
           e == [smp \in S |-> SampleEnergy(smp)]
<1>1. IsFiniteSet(S) /\ IsFiniteSet(ids)
  BY FiniteParts
<1>2. \A smp \in S : /\ FairPay(ev, smp, Pay(ev, smp))
                     /\ \A id : PaidTo(Pay(ev, smp), id) \in Amounts
                     /\ r[smp] \in Fractions
  BY PayIsFair, PaidToIs, SomeAmounts
<1>3. \A smp \in S : /\ o[smp] \in Fractions /\ b[smp] \in Fractions /\ ob[smp] = Plus(o[smp], b[smp])
                     /\ e[smp] = Plus(r[smp], ob[smp])
  <2> TAKE smp \in S
  <2>1. TraceOf(ev, smp).orphaned = o[smp] /\ TraceOf(ev, smp).baseline = b[smp]
        /\ TraceOf(ev, smp).total = e[smp]
    BY TraceIs DEF TraceOf
  <2>2. o[smp] \in Amounts /\ b[smp] \in Amounts /\ Plus(r[smp], Plus(o[smp], b[smp])) = e[smp]
    <3>1. \A t : t = TraceOf(ev, smp) =>
              /\ t.orphaned \in Amounts /\ t.baseline \in Amounts
              /\ Plus(r[smp], Plus(t.orphaned, t.baseline)) = t.total
      BY TraceIs DEF TraceOf
    <3> HIDE DEF o, b, e, r
    <3> QED BY <2>1, <3>1
  <2> QED BY <2>2, SomeAmounts
<1>4. \A smp \in S, id \in ids : F[smp][id] \in Fractions /\ G[id][smp] = F[smp][id]
  <2> TAKE smp \in S, id \in ids
  <2>1. F[smp][id] = PaidTo(Pay(ev, smp), id) /\ G[id][smp] = PaidTo(Pay(ev, smp), id)
    BY DEF PaidOver
  <2> QED BY <1>2, <2>1, SomeAmounts
<1>5. \A smp \in S : r[smp] = TotalOn(F[smp], ids)
  <2> TAKE smp \in S
  <2> DEFINE paid == Pay(ev, smp).spans
             D == DOMAIN paid
             all == F[smp]
  <2>1. D \subseteq SpanIds(Active(ev, smp)) /\ \A id \in D : paid[id] \in Fractions
    BY <1>2, SomeAmounts DEF FairPay
  <2>2. D \in SUBSET ids
    BY <2>1 DEF SpanIds, Active
  <2>3. \A id \in D : paid[id] \in Fractions /\ all[id] = paid[id]
    BY <2>1, <2>2 DEF PaidTo
  <2>4. \A id \in ids \ D : all[id] = Zero
    BY DEF PaidTo
  <2>5. r[smp] = TotalOn(paid, D)
    BY DEF Total
  <2> HIDE DEF paid, D, all, r, ids
  <2>6. TotalOn(all, ids) = TotalOn(paid, D)
    BY <1>1, <2>2, <2>3, <2>4, TotalPart
  <2> QED BY <2>5, <2>6 DEF all
<1>6. \A id : SpanJ(shares, id) = TotalOn(PaidOver(ev, id), S) /\ SpanJ(shares, id) \in Amounts
  <2> TAKE id
  <2> DEFINE p == PaidOver(ev, id)
  <2>1. \A smp \in S : p[smp] \in Amounts
    BY <1>2 DEF PaidOver
  <2>2. SpanJ(shares, id) = TotalOn(p, S)
    BY ApportionIs
  <2> HIDE DEF p
  <2>3. TotalOn(p, S) \in Amounts
    BY <1>1, <2>1, TotalIsAmount
  <2> QED BY <2>2, <2>3 DEF p
<1>7. \A id \in ids : c[id] = TotalOn(G[id], S) /\ c[id] \in Fractions
  BY <1>6, SomeAmounts
<1>8. /\ shares.orphaned = TotalOn(o, S) /\ shares.baseline_idle = TotalOn(b, S)
      /\ Attributed(ev, shares) = TotalOn(c, ids)
      /\ SessionJ(ev) = TotalOn(e, S)
  BY ApportionIs DEF Attributed, SessionJ, Total
<1> HIDE DEF S, ids, F, G, r, c, o, b, ob, e
<1>9. TotalOn(r, S) = TotalOn(c, ids)
  <2>1. \A id \in ids : c[id] = TotalOn(G[id], S)
    BY <1>7
  <2> QED BY <1>1, <1>4, <1>5, <2>1, TotalExchange
<1>10. TotalOn(ob, S) = Plus(TotalOn(o, S), TotalOn(b, S))
  BY <1>1, <1>3, TotalPlus
<1>11. \A smp \in S : ob[smp] \in Fractions
  BY <1>3, Operations
<1>12. TotalOn(e, S) = Plus(TotalOn(r, S), TotalOn(ob, S))
  BY <1>1, <1>2, <1>3, <1>11, TotalPlus
<1>13. TotalOn(c, ids) \in Fractions
  BY <1>1, <1>7, TotalType
<1> QED BY <1>6, <1>8, <1>9, <1>10, <1>12, <1>13

-----------------------------------------------------------------------------
(* The joins *)

LEMMA LocalIs ==
  ASSUME NEW joules, NEW coverage
  PROVE  /\ LocalMeasured(joules, coverage).energy = joules
         /\ LocalMeasured(joules, coverage).coverage = Clamp(coverage)
BY DEF LocalMeasured

LEMMA RecordIs ==
  ASSUME NEW ev, NEW t0, NEW t1, NEW local, NEW remote, NEW shares,
         NEW unit, unit = JoinRecord(ev, t0, t1, local, remote, shares)
  PROVE  /\ unit.t0 = t0 /\ unit.t1 = t1 /\ unit.local = local
         /\ unit.combined = CombinedTotal(local, remote, ~ EnergyMeasured(ev))
BY DEF JoinRecord

SpansJ(shares, spans) == TotalOn([id \in SpanIds(spans) |-> SpanJ(shares, id)], SpanIds(spans))
CallsJ(calls) == Total([id \in DOMAIN calls |-> calls[id].local.energy])
UnitStart(spans) == Min({s.t0 : s \in spans})
UnitEnd(spans) == Max({s.t1 : s \in spans})
ToolCalls(ev, es, shares) ==
  [id \in SpanIds(Attributable(ev)) |-> ToolCallJoin(ev, es, shares, id)]
Tasks(ev, es, shares) == [t \in TaskIds(ev) |-> TaskJoin(ev, es, shares, t)]

LEMMA JoinsAre ==
  ASSUME NEW ev, NEW es, NEW shares, NEW t0, NEW t1, NEW js, js = BuildJoins(ev, es, shares, t0, t1)
  PROVE  /\ js.session = SessionJoin(ev, es, shares, t0, t1)
         /\ js.breakdown.orphaned = shares.orphaned
         /\ js.breakdown.baseline_idle = shares.baseline_idle
         /\ js.tool_call = ToolCalls(ev, es, shares)
         /\ js.task = Tasks(ev, es, shares)
<1>1. js.breakdown = [orphaned |-> shares.orphaned, baseline_idle |-> shares.baseline_idle]
  BY DEF BuildJoins
<1> QED BY <1>1 DEF BuildJoins, ToolCalls, Tasks

\* The local half of a tool call or a task, and of the session.
LEMMA GroupIs ==
  ASSUME NEW ev, Stored(ev), NEW es, NEW shares, shares = Apportion(ev),
         NEW spans \in SUBSET Attributable(ev), NEW calls,
         NEW unit, unit = SpanGroupJoin(ev, es, shares, spans, calls)
  PROVE  /\ unit.t0 = UnitStart(spans) /\ unit.t1 = UnitEnd(spans)
         /\ unit.combined = CombinedTotal(unit.local, RemoteEstimated(es, calls), ~ EnergyMeasured(ev))
         /\ EnergyMeasured(ev) =>
               /\ unit.local.energy = SpansJ(shares, spans)
               /\ unit.local.energy \in Amounts
               /\ unit.local.coverage = Clamp(CoverageFraction(CoverageWindows(ev), unit.t0, unit.t1))
         /\ ~ EnergyMeasured(ev) => unit.local.coverage = Clamp(Zero)
<1> DEFINE t0 == Min({s.t0 : s \in spans})
           t1 == Max({s.t1 : s \in spans})
           ids == SpanIds(spans)
           f == [id \in ids |-> SpanJ(shares, id)]
           cover == CoverageFraction(CoverageWindows(ev), t0, t1)
           local == IF EnergyMeasured(ev) THEN LocalMeasured(Total(f), cover)
                    ELSE LocalMeasured(None, Zero)
           remote == RemoteEstimated(es, calls)
<1>1. unit = JoinRecord(ev, t0, t1, local, remote, shares)
  BY DEF SpanGroupJoin
<1>2. Total(f) = TotalOn(f, ids)
  BY DEF Total
<1>3. TotalOn(f, ids) \in Amounts
  <2>1. \A id \in ids : f[id] \in Amounts
    BY SharesAddUp
  <2>2. ids \in SUBSET SpanIds(Attributable(ev))
    BY DEF SpanIds
  <2>3. IsFiniteSet(ids)
    <3> HIDE DEF ids
    <3> QED BY <2>2, FiniteParts, FS_Subset
  <2> HIDE DEF f, ids
  <2> QED BY <2>1, <2>3, TotalIsAmount
<1> HIDE DEF t0, t1, ids, f, remote
<1>4. EnergyMeasured(ev) => local = LocalMeasured(Total(f), cover)
  OBVIOUS
<1>5. ~ EnergyMeasured(ev) => local = LocalMeasured(None, Zero)
  OBVIOUS
<1> HIDE DEF local, cover
<1>6. /\ unit.t0 = t0 /\ unit.t1 = t1 /\ unit.local = local
      /\ unit.combined = CombinedTotal(local, remote, ~ EnergyMeasured(ev))
  BY <1>1, RecordIs
<1>7. EnergyMeasured(ev) => local.energy = Total(f) /\ local.coverage = Clamp(cover)
  BY <1>4, LocalIs
<1>8. ~ EnergyMeasured(ev) => local.coverage = Clamp(Zero)
  BY <1>5, LocalIs
<1>9. EnergyMeasured(ev) => unit.local.energy = TotalOn(f, ids) /\ unit.local.energy \in Amounts
  BY <1>2, <1>3, <1>6, <1>7
<1>10. cover = CoverageFraction(CoverageWindows(ev), unit.t0, unit.t1)
  BY <1>6 DEF cover
<1> QED BY <1>6, <1>7, <1>8, <1>9, <1>10 DEF t0, t1, remote, f, ids, SpansJ, UnitStart, UnitEnd

LEMMA SessionIs ==
  ASSUME NEW ev, Stored(ev), NEW es, NEW shares, shares = Apportion(ev), NEW t0, NEW t1,
         NEW unit, unit = SessionJoin(ev, es, shares, t0, t1)
  PROVE  /\ unit.t0 = t0 /\ unit.t1 = t1
         /\ unit.combined =
              CombinedTotal(unit.local, RemoteEstimated(es, LlmCalls(ev)), ~ EnergyMeasured(ev))
         /\ EnergyMeasured(ev) =>
               /\ unit.local.energy = SessionJ(ev)
               /\ unit.local.energy \in Fractions
               /\ unit.local.coverage = Clamp(CoverageFraction(CoverageWindows(ev), t0, t1))
         /\ ~ EnergyMeasured(ev) => unit.local.coverage = Clamp(Zero)
<1> DEFINE ids == SpanIds(Attributable(ev))
           f == [id \in ids |-> SpanJ(shares, id)]
           rest == Plus(shares.orphaned, shares.baseline_idle)
           joules == Plus(Total(f), rest)
           cover == CoverageFraction(CoverageWindows(ev), t0, t1)
           local == IF EnergyMeasured(ev) THEN LocalMeasured(joules, cover)
                    ELSE LocalMeasured(None, Zero)
           remote == RemoteEstimated(es, LlmCalls(ev))
<1>1. unit = JoinRecord(ev, t0, t1, local, remote, shares)
  BY DEF SessionJoin
<1>2. joules = SessionJ(ev)
  <2>1. Total(f) = Attributed(ev, shares)
    BY DEF Attributed, Total
  <2> QED BY <2>1, SharesAddUp
<1>3. joules \in Fractions
  <2> DEFINE S == EnergySamples(ev)
             e == [smp \in S |-> SampleEnergy(smp)]
  <2>1. \A smp \in S : e[smp] \in Fractions
    BY SampleEnergyIs, SomeAmounts
  <2>2. Total(e) = TotalOn(e, S) /\ IsFiniteSet(S) /\ joules = Total(e)
    BY <1>2, FiniteParts DEF Total, SessionJ
  <2> HIDE DEF S, e, joules
  <2> QED BY <2>1, <2>2, TotalType
<1> HIDE DEF remote, joules
<1>4. EnergyMeasured(ev) => local = LocalMeasured(joules, cover)
  OBVIOUS
<1>5. ~ EnergyMeasured(ev) => local = LocalMeasured(None, Zero)
  OBVIOUS
<1> HIDE DEF local, cover
<1>6. /\ unit.t0 = t0 /\ unit.t1 = t1 /\ unit.local = local
      /\ unit.combined = CombinedTotal(local, remote, ~ EnergyMeasured(ev))
  BY <1>1, RecordIs
<1>7. EnergyMeasured(ev) => local.energy = joules /\ local.coverage = Clamp(cover)
  BY <1>4, LocalIs
<1>8. ~ EnergyMeasured(ev) => local.coverage = Clamp(Zero)
  BY <1>5, LocalIs
<1> QED BY <1>2, <1>3, <1>6, <1>7, <1>8 DEF remote, cover

\* The energy of the tool calls is what was paid to attributable spans.
LEMMA ToolCallsAddUp ==
  ASSUME NEW ev, Stored(ev), EnergyMeasured(ev), NEW es, NEW shares, shares = Apportion(ev),
         NEW calls, calls = ToolCalls(ev, es, shares)
  PROVE  CallsJ(calls) = Attributed(ev, shares)
<1> DEFINE ids == SpanIds(Attributable(ev))
           f == [id \in ids |-> SpanJ(shares, id)]
           g == [id \in DOMAIN calls |-> calls[id].local.energy]
<1>1. \A id \in ids : g[id] = f[id]
  <2> TAKE id \in ids
  <2> DEFINE spans == SpanEventsOf(ev, id)
             one == [i \in {id} |-> SpanJ(shares, i)]
  <2>1. spans \in SUBSET Attributable(ev) /\ SpanIds(spans) = {id}
    BY DEF SpanIds, SpanEventsOf
  <2>2. \E C : calls[id] = SpanGroupJoin(ev, es, shares, spans, C)
    BY DEF ToolCallJoin, ToolCalls
  <2>3. g[id] = SpansJ(shares, spans)
    <3> DEFINE unit == calls[id]
    <3>1. g[id] = unit.local.energy
      BY DEF ToolCalls
    <3>2. PICK C : unit = SpanGroupJoin(ev, es, shares, spans, C)
      BY <2>2
    <3> HIDE DEF spans, unit, g
    <3>3. unit.local.energy = SpansJ(shares, spans)
      BY <2>1, <3>2, GroupIs
    <3> QED BY <3>1, <3>3
  <2>4. g[id] = TotalOn(one, {id})
    BY <2>1, <2>3 DEF SpansJ
  <2>5. one[id] \in Fractions /\ one[id] = f[id]
    BY SharesAddUp, SomeAmounts
  <2> HIDE DEF one, f, g, ids
  <2> QED BY <2>4, <2>5, TotalOne
<1>2. /\ CallsJ(calls) = TotalOn(g, ids) /\ Attributed(ev, shares) = TotalOn(f, ids)
      /\ IsFiniteSet(ids)
  BY FiniteParts DEF Total, Attributed, CallsJ, ToolCalls
<1> HIDE DEF f, g, ids
<1>3. TotalOn(g, ids) = TotalOn(f, ids)
  BY <1>1, <1>2, TotalSame
<1> QED BY <1>2, <1>3

\* The combined energy of a unit, from its own local half and its own calls.
LEMMA CombinedOf ==
  ASSUME NEW ev, NEW es, NEW calls \in SUBSET Catalog, IsFiniteSet(calls),
         NEW local, EnergyMeasured(ev) => local.energy \in Fractions
  PROVE  CombinedTotal(local, RemoteEstimated(es, calls), ~ EnergyMeasured(ev)).energy =
            IF EnergyMeasured(ev) /\ WholeCalls(es, calls)
            THEN AddRanges(local.energy, local.energy, EnergyRange(es, calls)) ELSE None
<1> DEFINE remote == RemoteEstimated(es, calls)
           measured == EnergyMeasured(ev)
<1>1. CombinedTotal(local, remote, ~ measured).energy =
        IF /\ ~ ~ measured /\ remote.complete
           /\ local.energy # None /\ RemoteIsKnown(remote, "energy", "kWh")
        THEN AddRanges(local.energy, local.energy, RemoteRange(remote, "energy"))
        ELSE None
  BY DEF CombinedTotal
<1>2. \A q \in Fractions : q # None
  BY Parts, NoneAssumption
<1>3. measured => local.energy # None
  BY <1>2
<1>4. remote.complete /\ RemoteIsKnown(remote, "energy", "kWh") <=> WholeCalls(es, calls)
  BY RemoteIsWhole
<1>5. WholeCalls(es, calls) => RemoteRange(remote, "energy") = EnergyRange(es, calls)
  BY RemoteIsWhole
<1> QED BY <1>1, <1>3, <1>4, <1>5

-----------------------------------------------------------------------------
(* The invariant: the joins are those of the events and estimates stored now *)

JoinInv ==
  /\ Stored(events)
  /\ app = Apportion(events)
  /\ events # {} => joins = BuildJoins(events, estimates, app, SessionStart(events), SessionEnd(events))

LEMMA JoinInitially == ASSUME JoinInit PROVE JoinInv
BY FS_EmptySet DEF JoinInit, JoinInv, Stored

LEMMA JoinKept == ASSUME JoinInv, [JoinNext]_joinVars PROVE JoinInv'
<1>1. ASSUME Rebuild(events', estimates')
      PROVE  /\ app' = Apportion(events')
             /\ joins' = BuildJoins(events', estimates', app', SessionStart(events'), SessionEnd(events'))
  BY <1>1 DEF Rebuild
<1>2. ASSUME NEW e \in Catalog, AppendEvent(e), Rebuild(events', estimates') PROVE JoinInv'
  <2>1. events' \in SUBSET Catalog
    BY <1>2 DEF AppendEvent, JoinInv, Stored
  <2>2. IsFiniteSet(events')
    BY <1>2, FS_AddElement DEF AppendEvent, JoinInv, Stored
  <2> QED BY <1>1, <1>2, <2>1, <2>2 DEF JoinInv, Stored
<1>3. ASSUME NEW c \in events, NEW a \in Answers, StoreEstimate(c, a), Rebuild(events', estimates')
      PROVE  JoinInv'
  BY <1>1, <1>3 DEF JoinInv, Stored, StoreEstimate
<1>4. ASSUME UNCHANGED joinVars PROVE JoinInv'
  BY <1>4 DEF JoinInv, Stored, joinVars
<1> QED BY <1>2, <1>3, <1>4 DEF JoinNext

\* app and joins are what a rebuild from the stored events and estimates
\* gives: no answer or event leaves them stale.
THEOREM JoinsAreCurrent == JoinSpec => []JoinInv
BY JoinInitially, JoinKept, PTL DEF JoinSpec

-----------------------------------------------------------------------------
(* The energy of a session is conserved *)

LEMMA Conserved == ASSUME JoinInv PROVE EnergyIsConserved
<1>1. Stored(events) /\ app = Apportion(events)
  BY DEF JoinInv
<1>2. ASSUME NEW smp \in EnergySamples(events), NEW t, t = app.traces[smp.id]
      PROVE  /\ AtMost(Zero, t.baseline) /\ AtMost(Zero, t.orphaned)
             /\ \A r \in t.rows : AtMost(Zero, r.joules) /\ AtMost(r.joules, t.total)
             /\ OneEventPerSpan(Active(events, smp)) =>
                   Plus(RowJoules(t), Plus(t.orphaned, t.baseline)) = t.total
  <2> DEFINE pay == Pay(events, smp)
  <2>1. t = Trace(events, smp, pay)
    BY <1>1, <1>2, ApportionIs DEF TraceOf
  <2> HIDE DEF pay
  <2>2. /\ t.orphaned \in Amounts /\ t.baseline \in Amounts
        /\ Plus(Total(pay.spans), Plus(t.orphaned, t.baseline)) = t.total
    BY <1>1, <2>1, TraceIs DEF pay
  <2>3. /\ \A r \in t.rows : r.joules \in Amounts /\ AtMost(r.joules, t.total)
        /\ OneEventPerSpan(Active(events, smp)) => RowJoules(t) = Total(pay.spans)
    BY <1>1, <2>1, RowsAre DEF pay
  <2> QED BY <2>2, <2>3 DEF Amounts
<1>3. ASSUME EnergyMeasured(events)
      PROVE  LET units == Total([id \in DOMAIN joins.tool_call |-> joins.tool_call[id].local.energy])
                 left  == Plus(joins.breakdown.orphaned, joins.breakdown.baseline_idle)
             IN  /\ joins.session.local.energy =
                       Total([smp \in EnergySamples(events) |-> SampleEnergy(smp)])
                 /\ Plus(units, left) = joins.session.local.energy
  <2> DEFINE t0 == SessionStart(events)
             t1 == SessionEnd(events)
             calls == joins.tool_call
  <2>1. joins = BuildJoins(events, estimates, app, t0, t1)
    BY <1>3 DEF JoinInv, EnergyMeasured, EnergySamples, OfKind
  <2>2. /\ joins.session = SessionJoin(events, estimates, app, t0, t1)
        /\ joins.breakdown.orphaned = app.orphaned
        /\ joins.breakdown.baseline_idle = app.baseline_idle
        /\ calls = ToolCalls(events, estimates, app)
    <3> HIDE DEF t0, t1
    <3> QED BY <2>1, JoinsAre
  <2>3. joins.session.local.energy = SessionJ(events)
    <3> DEFINE unit == joins.session
    <3>1. unit = SessionJoin(events, estimates, app, t0, t1)
      BY <2>2
    <3> HIDE DEF unit, t0, t1
    <3>2. unit.local.energy = SessionJ(events)
      BY <1>1, <1>3, <3>1, SessionIs
    <3> QED BY <3>2 DEF unit
  <2>4. CallsJ(calls) = Attributed(events, app)
    <3> HIDE DEF calls
    <3> QED BY <1>1, <1>3, <2>2, ToolCallsAddUp
  <2>5. Plus(Attributed(events, app), Plus(app.orphaned, app.baseline_idle)) = SessionJ(events)
    BY <1>1, SharesAddUp
  <2> QED BY <2>2, <2>3, <2>4, <2>5 DEF SessionJ, CallsJ
<1> QED BY <1>2, <1>3 DEF EnergyIsConserved

\* No joule is lost, invented or paid twice, whatever the events and in
\* whatever order they come (run, build_joins).
THEOREM EnergyConserved == JoinSpec => []EnergyIsConserved
BY JoinsAreCurrent, Conserved, PTL

-----------------------------------------------------------------------------
(* The cpu time of a pid is paid for once *)

LEMMA PhysicalIs ==
  ASSUME Stored(events), NEW smp \in EnergySamples(events)
  PROVE  PhysicalCpu(smp) = SampleCpu(events, smp)
<1> DEFINE f(wp) == Frac(Max({r.cpu : r \in PidRows(wp[1], wp[2])})
                           * OverlapMs(wp[1].t0, wp[1].t1, smp.t0, smp.t1), wp[1].t1 - wp[1].t0)
           P == WindowPids(events, smp)
<1>1. ASSUME NEW wp \in P PROVE f(wp) = PidCpu(wp[1], wp[2], smp)
  <2> DEFINE own == {r.cpu : r \in PidRows(wp[1], wp[2])}
             all == {0} \cup own
             top == Max(own)
  <2>1. wp[1] \in ProcWindows(events) /\ \E r \in wp[1].rows : r.pid = wp[2]
    BY WindowPidsAre
  <2>2. IsFiniteSet(wp[1].rows) /\ \A r \in wp[1].rows : r.cpu \in Nat
    BY <2>1, Instants
  <2>3. own # {} /\ own \in SUBSET Nat
    BY <2>1, <2>2 DEF PidRows
  <2>4. IsFiniteSet(own)
    <3> DEFINE rows == PidRows(wp[1], wp[2])
               cpu == [r \in rows |-> r.cpu]
    <3>1. rows \in SUBSET wp[1].rows /\ \A y \in own : \E r \in rows : cpu[r] = y
      BY DEF PidRows
    <3>2. IsFiniteSet(rows)
      <4> HIDE DEF rows
      <4> QED BY <2>2, <3>1, FS_Subset
    <3> HIDE DEF rows, cpu, own
    <3> QED BY <3>1, <3>2, FiniteImage
  <2>5. PidCpu(wp[1], wp[2], smp) =
          Frac(Max(all) * OverlapMs(wp[1].t0, wp[1].t1, smp.t0, smp.t1), wp[1].t1 - wp[1].t0)
    BY DEF PidCpu
  <2>6. f(wp) = Frac(top * OverlapMs(wp[1].t0, wp[1].t1, smp.t0, smp.t1), wp[1].t1 - wp[1].t0)
    OBVIOUS
  <2> HIDE DEF own, f
  <2>7. top \in own /\ \A x \in own : x <= top
    BY <2>3, <2>4, FiniteMax
  <2>8. top \in all /\ all \in SUBSET Int /\ \A x \in all : x <= top
    <3>1. top \in Nat
      BY <2>3, <2>7
    <3> HIDE DEF top
    <3> QED BY <2>3, <2>7, <3>1
  <2>9. Max(all) = top
    <3> HIDE DEF all, top
    <3> QED BY <2>8, MaxIs
  <2> QED BY <2>5, <2>6, <2>9
<1>2. PhysicalCpu(smp) = Total([wp \in P |-> f(wp)])
  BY DEF PhysicalCpu
<1>3. SampleCpu(events, smp) = Total([wp \in P |-> PidCpu(wp[1], wp[2], smp)])
  BY DEF SampleCpu
<1>4. [wp \in P |-> f(wp)] = [wp \in P |-> PidCpu(wp[1], wp[2], smp)]
  <2> HIDE DEF f, P
  <2> QED BY <1>1
<1> QED BY <1>2, <1>3, <1>4

LEMMA PaidOnce == ASSUME JoinInv PROVE CpuCountedOnce
<1> SUFFICES ASSUME NEW smp \in EnergySamples(events), NEW t, t = app.traces[smp.id],
                    t.policy = "l2_cpu_time"
             PROVE  Minus(t.total, t.baseline)
                      = Times(SampleEnergy(smp),
                              Clamp(Over(PhysicalCpu(smp), Whole(smp.t1 - smp.t0))))
  BY DEF CpuCountedOnce
<1> DEFINE pay == Pay(events, smp)
           cpu == CpuTimePay(events, smp)
<1>1. Stored(events) /\ app = Apportion(events)
  BY DEF JoinInv
<1>2. t = Trace(events, smp, pay)
  BY <1>1, ApportionIs DEF TraceOf
<1>3. t.policy = pay.policy /\ Minus(t.total, t.baseline) = Plus(Total(pay.spans), pay.orphan)
  BY <1>1, <1>2, TraceIs
<1>4. pay.spans = cpu.spans /\ pay.orphan = cpu.orphan /\ PolicyOf(events, smp) = "l2_cpu_time"
  BY <1>3, PayIs
<1>5. Measures(events, smp)
  BY <1>4, PolicyIs, PoliciesAreNotNone DEF Measures
<1> HIDE DEF pay, cpu
<1>6. Plus(Total(cpu.spans), cpu.orphan) =
        Times(SampleEnergy(smp), Clamp(Over(SampleCpu(events, smp), Whole(smp.t1 - smp.t0))))
  BY <1>1, <1>5, CpuTimePaid DEF cpu
<1> QED BY <1>1, <1>3, <1>4, <1>6, PhysicalIs

\* However many rows report a pid and however many spans and orphan tails
\* share it, a sample pays E * min(1, W / C) for it once (cpu_weights).
THEOREM CpuPaidOnce == JoinSpec => []CpuCountedOnce
BY JoinsAreCurrent, PaidOnce, PTL

-----------------------------------------------------------------------------
(* A combined total is a whole one *)

LEMMA UnitIsWhole ==
  ASSUME NEW calls \in SUBSET Catalog, IsFiniteSet(calls), NEW unit,
         unit.combined = CombinedTotal(unit.local, RemoteEstimated(estimates, calls), ~ EnergyMeasured(events)),
         EnergyMeasured(events) => unit.local.energy \in Fractions
  PROVE  WholeEnergy(unit, calls)
<1>1. unit.combined.energy =
         IF EnergyMeasured(events) /\ WholeCalls(estimates, calls)
         THEN AddRanges(unit.local.energy, unit.local.energy, EnergyRange(estimates, calls)) ELSE None
  BY CombinedOf
<1> QED BY <1>1 DEF WholeEnergy, WholeCalls, EnergyRange

LEMMA CombinedWhole == ASSUME JoinInv PROVE CombinedIsWhole
<1> SUFFICES ASSUME events # {} PROVE CombinedIsWhole
  BY DEF CombinedIsWhole
<1> DEFINE calls == OfKind(events, "llm")
           t0 == SessionStart(events)
           t1 == SessionEnd(events)
<1>1. Stored(events) /\ app = Apportion(events) /\ joins = BuildJoins(events, estimates, app, t0, t1)
  BY DEF JoinInv
<1>2. \A C \in SUBSET calls : C \in SUBSET Catalog /\ IsFiniteSet(C)
  BY <1>1, FS_Subset DEF Stored, OfKind
<1>3. /\ joins.session = SessionJoin(events, estimates, app, t0, t1)
      /\ joins.tool_call = ToolCalls(events, estimates, app)
      /\ joins.task = Tasks(events, estimates, app)
  <2> HIDE DEF t0, t1
  <2> QED BY <1>1, JoinsAre
<1>4. WholeEnergy(joins.session, calls)
  <2> DEFINE unit == joins.session
  <2>1. unit = SessionJoin(events, estimates, app, t0, t1) /\ calls = LlmCalls(events)
        /\ calls \in SUBSET Catalog /\ IsFiniteSet(calls)
    BY <1>2, <1>3 DEF LlmCalls
  <2> HIDE DEF unit, t0, t1, calls
  <2>2. /\ unit.combined = CombinedTotal(unit.local, RemoteEstimated(estimates, LlmCalls(events)), ~ EnergyMeasured(events))
        /\ EnergyMeasured(events) => unit.local.energy \in Fractions
    BY <1>1, <2>1, SessionIs
  <2>3. WholeEnergy(unit, calls)
    BY <2>1, <2>2, UnitIsWhole
  <2> QED BY <2>3 DEF unit
<1>5. ASSUME NEW spans \in SUBSET Attributable(events), NEW C \in SUBSET calls,
             NEW unit, unit = SpanGroupJoin(events, estimates, app, spans, C)
      PROVE  WholeEnergy(unit, C)
  <2> HIDE DEF calls, t0, t1
  <2>1. /\ unit.combined = CombinedTotal(unit.local, RemoteEstimated(estimates, C), ~ EnergyMeasured(events))
        /\ EnergyMeasured(events) => unit.local.energy \in Amounts
    BY <1>1, <1>5, GroupIs
  <2> QED BY <1>2, <2>1, SomeAmounts, UnitIsWhole
<1>6. ASSUME NEW t \in DOMAIN joins.task
      PROVE  WholeEnergy(joins.task[t], {c \in calls : c.task = t})
  <2>1. joins.task[t] = SpanGroupJoin(events, estimates, app, {s \in Attributable(events) : s.task = t},
                                      {c \in calls : c.task = t})
    BY <1>3, <1>6 DEF TaskJoin, Tasks, LlmCalls
  <2> HIDE DEF calls
  <2> QED BY <1>5, <2>1
<1>7. ASSUME NEW id \in DOMAIN joins.tool_call, NEW call, call = ToolCallId(SpanEventsOf(events, id))
      PROVE  WholeEnergy(joins.tool_call[id], {c \in calls : c.call = call /\ call # None})
  <2>1. joins.tool_call[id] = SpanGroupJoin(events, estimates, app, SpanEventsOf(events, id),
                                            {c \in calls : call # None /\ c.call = call})
    BY <1>3, <1>7 DEF ToolCallJoin, ToolCalls, LlmCalls
  <2>2. SpanEventsOf(events, id) \in SUBSET Attributable(events)
    BY DEF SpanEventsOf
  <2>3. {c \in calls : call # None /\ c.call = call} = {c \in calls : c.call = call /\ call # None}
    OBVIOUS
  <2> HIDE DEF calls
  <2> QED BY <1>5, <2>1, <2>2, <2>3
<1> QED BY <1>4, <1>6, <1>7 DEF CombinedIsWhole

\* A combined total is published for a unit exactly when the machine was
\* measured and every call of it is estimated in the criterion's unit, and it
\* is then the sum of all of them (combined_total, remote_estimated).
THEOREM CombinedTotalsAreWhole == JoinSpec => []CombinedIsWhole
BY JoinsAreCurrent, CombinedWhole, PTL

-----------------------------------------------------------------------------
(* What a span that is reported late changes *)

\* Dividing by more gives less, and clamping keeps the order.
LEMMA OverShrinks ==
  ASSUME NEW a \in Amounts, NEW b \in Above, NEW c \in Above, AtMost(b, c)
  PROVE  AtMost(Over(a, c), Over(a, b))
<1> DEFINE q == Over(a, c)
           r == Over(a, b)
<1>1. /\ q \in Amounts /\ r \in Amounts /\ q \in Fractions /\ r \in Fractions
      /\ a \in Fractions /\ b \in Fractions /\ c \in Fractions
  BY OverIsAmount, SomeAmounts
<1>2. Times(q, c) = a /\ Times(r, b) = a /\ Times(c, q) = a
  BY <1>1, OverIs, TimesCommutes
<1> HIDE DEF q, r
<1>3. Times(r, c) \in Fractions /\ Times(c, r) = Times(r, c)
  BY <1>1, Operations, TimesCommutes
<1>4. AtMost(a, Times(r, c))
  BY <1>1, <1>2, TimesMonotone DEF Amounts
<1>5. ASSUME AtMost(r, q) PROVE AtMost(q, r)
  <2>1. AtMost(Times(c, r), Times(c, q))
    BY <1>1, <1>5, TimesMonotone DEF Above
  <2>2. Times(r, c) = Times(q, c)
    BY <1>1, <1>2, <1>3, <1>4, <2>1, AtMostOrders
  <2>3. q = r
    BY <1>1, <2>2, TimesCancels
  <2> QED BY <1>1, <2>3, AtMostOrders
<1>6. AtMost(q, r)
  BY <1>1, <1>5, AtMostOrders
<1> QED BY <1>6 DEF q, r

LEMMA ClampIs ==
  ASSUME NEW a \in Amounts
  PROVE  /\ Clamp(a) = IF AtMost(One, a) THEN One ELSE a
         /\ Clamp(a) \in Amounts
<1>1. a \in Fractions /\ One \in Fractions /\ Zero \in Fractions /\ One \in Amounts /\ AtMost(Zero, a)
  BY SomeAmounts DEF Amounts
<1>2. AtMost(a, Zero) => a = Zero
  BY <1>1, AtMostOrders
<1>3. ~ AtMost(One, Zero)
  BY Signs, Constants DEF One
<1>4. Clamp(a) = IF AtMost(One, a) THEN One ELSE a
  BY <1>2, <1>3 DEF Clamp
<1> QED BY <1>1, <1>4

LEMMA ClampMonotone ==
  ASSUME NEW a \in Amounts, NEW b \in Amounts, AtMost(a, b)
  PROVE  AtMost(Clamp(a), Clamp(b))
<1>1. a \in Fractions /\ b \in Fractions /\ One \in Fractions
  BY SomeAmounts
<1>2. AtMost(One, a) => AtMost(One, b)
  BY <1>1, AtMostChains
<1>3. AtMost(a, One) \/ AtMost(One, a)
  BY <1>1, AtMostOrders
<1> QED BY <1>1, <1>2, <1>3, ClampIs, AtMostOrders

\* What a late span leaves as it is, and whom it joins.
LEMMA LateSpanIs ==
  ASSUME NEW ev, Stored(ev), NEW e \in Catalog, IsLateSpan(e), NEW ev2, ev2 = ev \cup {e}, NEW smp
  PROVE  /\ Stored(ev2)
         /\ EnergySamples(ev2) = EnergySamples(ev) /\ RootPids(ev2) = RootPids(ev)
         /\ Covering(ev2, smp) = Covering(ev, smp) /\ WindowPids(ev2, smp) = WindowPids(ev, smp)
         /\ SampleCpu(ev2, smp) = SampleCpu(ev, smp)
         /\ Active(ev, smp) \subseteq Active(ev2, smp)
         /\ Active(ev2, smp) \subseteq Active(ev, smp) \cup {e}
<1>1. Stored(ev2)
  BY FS_AddElement DEF Stored
<1>2. EnergySamples(ev2) = EnergySamples(ev) /\ ProcWindows(ev2) = ProcWindows(ev)
  BY DEF EnergySamples, ProcWindows, OfKind, IsLateSpan
<1>3. Spans(ev2) = Spans(ev) \cup {e} /\ ~ e.boot
  BY DEF Spans, OfKind, IsLateSpan
<1>4. RootPids(ev2) = RootPids(ev)
  <2>1. {x \in Spans(ev2) : x.boot} = {x \in Spans(ev) : x.boot}
    BY <1>3
  <2> QED BY <2>1 DEF RootPids
<1>5. Covering(ev2, smp) = Covering(ev, smp)
  BY <1>2 DEF Covering
<1>6. WindowPids(ev2, smp) = WindowPids(ev, smp)
  BY <1>5 DEF WindowPids
<1>7. SampleCpu(ev2, smp) = SampleCpu(ev, smp)
  BY <1>6 DEF SampleCpu
<1>8. /\ Active(ev, smp) \subseteq Active(ev2, smp)
      /\ Active(ev2, smp) \subseteq Active(ev, smp) \cup {e}
  BY <1>3 DEF Active, Attributable
<1> QED BY <1>1, <1>2, <1>4, <1>5, <1>6, <1>7, <1>8

\* One more claimant only makes the share of a pid smaller.
LEMMA SharesShrink ==
  ASSUME NEW ev, Stored(ev), NEW e \in Catalog, IsLateSpan(e), NEW ev2, ev2 = ev \cup {e},
         NEW smp \in EnergySamples(ev), NEW w \in ProcWindows(ev), NEW pid
  PROVE  /\ AtMost(PidShare(ev2, w, pid, smp), PidShare(ev, w, pid, smp))
         /\ PidShare(ev2, w, pid, smp) \in Amounts /\ PidShare(ev, w, pid, smp) \in Amounts
         /\ ToOrphan(ev2, w, pid, smp) => ToOrphan(ev, w, pid, smp)
         /\ Claimants(ev, pid, smp) \subseteq Claimants(ev2, pid, smp)
         /\ Claimants(ev2, pid, smp) \subseteq Claimants(ev, pid, smp) \cup {e}
<1> DEFINE K == Claimants(ev, pid, smp)
           K2 == Claimants(ev2, pid, smp)
           n == Splits(ev, w, pid, smp)
           n2 == Splits(ev2, w, pid, smp)
<1>1. Stored(ev2) /\ smp \in EnergySamples(ev2) /\ w \in ProcWindows(ev2)
  <2>1. ProcWindows(ev2) = ProcWindows(ev)
    BY DEF ProcWindows, OfKind, IsLateSpan
  <2> QED BY <2>1, LateSpanIs
<1>2. K \subseteq K2 /\ K2 \subseteq K \cup {e}
  BY LateSpanIs DEF Claimants
<1>3. ToOrphan(ev2, w, pid, smp) => ToOrphan(ev, w, pid, smp)
  BY <1>2 DEF ToOrphan
<1>4. ToOrphan(ev, w, pid, smp) /\ ~ ToOrphan(ev2, w, pid, smp) => K = {} /\ K2 # {}
  BY DEF ToOrphan
<1>5. /\ IsFiniteSet(K2) /\ Cardinality(K2) \in Nat /\ Cardinality(K) \in Nat
      /\ n \in Nat /\ n2 \in Nat /\ n # 0 /\ n2 # 0
  BY <1>1, SplitsIs
<1>6. Cardinality(K) <= Cardinality(K2)
  BY <1>2, <1>5, FS_Subset
<1>7. K = {} => Cardinality(K) = 0
  BY FS_EmptySet
<1>8. K2 # {} => Cardinality(K2) # 0
  BY <1>5, FS_EmptySet
<1>9. n <= n2
  <2> HIDE DEF K, K2
  <2> QED BY <1>3, <1>4, <1>5, <1>6, <1>7, <1>8 DEF Splits, K, K2
<1>10. Whole(n) \in Above /\ Whole(n2) \in Above /\ AtMost(Whole(n), Whole(n2))
  <2> HIDE DEF n, n2
  <2> QED BY <1>5, <1>9, WholeIsAmount DEF AtMost, Whole
<1>11. PidCpu(w, pid, smp) \in Amounts
  BY PidCpuIs
<1>12. /\ PidShare(ev, w, pid, smp) = Over(PidCpu(w, pid, smp), Whole(n))
       /\ PidShare(ev2, w, pid, smp) = Over(PidCpu(w, pid, smp), Whole(n2))
  BY DEF PidShare, Splits
<1> HIDE DEF n, n2
<1>13. AtMost(Over(PidCpu(w, pid, smp), Whole(n2)), Over(PidCpu(w, pid, smp), Whole(n)))
  BY <1>10, <1>11, OverShrinks
<1> QED BY <1>1, <1>2, <1>3, <1>12, <1>13, PidShareIs

\* What a sample pays is, whether or not anything is divided, what its rule gives.
PaysLike(pay, rule) ==
  /\ \A id : PaidTo(pay, id) = PaidTo(rule, id)
  /\ pay.orphan = rule.orphan /\ Total(pay.spans) = Total(rule.spans)
PaysNothing(pay) == (\A id : PaidTo(pay, id) = Zero) /\ pay.orphan = Zero /\ Total(pay.spans) = Zero

LEMMA EmptyPays ==
  ASSUME NEW pay, DOMAIN pay.spans = {}, pay.orphan = Zero
  PROVE  PaysNothing(pay)
BY TotalEmpty DEF PaysNothing, PaidTo, Total

LEMMA PayRules ==
  ASSUME NEW ev, Stored(ev), NEW smp \in EnergySamples(ev), NEW pay, pay = Pay(ev, smp)
  PROVE  /\ Degenerate(smp) => PaysNothing(pay)
         /\ ~ Degenerate(smp) /\ Covering(ev, smp) # {} => PaysLike(pay, CpuTimePay(ev, smp))
         /\ ~ Degenerate(smp) /\ Covering(ev, smp) = {} => PaysLike(pay, WallClockPay(ev, smp))
<1>1. pay.policy = None => PaysNothing(pay)
  <2> HAVE pay.policy = None
  <2>1. pay.spans = [id \in {} |-> Zero] /\ pay.orphan = Zero
    BY PayIs
  <2> QED BY <2>1, EmptyPays
<1>2. pay.policy = PolicyOf(ev, smp)
  BY PayIs
<1>3. Degenerate(smp) => PaysNothing(pay)
  BY <1>1, <1>2, PolicyIs
<1>4. CASE ~ Degenerate(smp) /\ Covering(ev, smp) # {}
  <2> DEFINE rule == CpuTimePay(ev, smp)
  <2>1. CASE pay.policy = "l2_cpu_time"
    <3>1. pay.spans = rule.spans /\ pay.orphan = rule.orphan
      BY <2>1, PayIs
    <3> HIDE DEF rule
    <3>2. PaysLike(pay, rule)
      BY <3>1 DEF PaysLike, PaidTo
    <3> QED BY <1>3, <1>4, <3>2 DEF rule
  <2>2. CASE pay.policy = None
    <3>1. Active(ev, smp) = {} /\ AtMost(OrphanWeight(ev, smp), Zero)
      BY <1>2, <1>4, <2>2, PoliciesAreNotNone DEF PolicyOf
    <3>2. /\ DOMAIN rule.spans = SpanIds(Active(ev, smp))
          /\ rule.orphan = Times(CpuTimeScale(smp, SampleCpu(ev, smp)), OrphanWeight(ev, smp))
          /\ CpuTimeScale(smp, SampleCpu(ev, smp)) \in Amounts
      BY <1>4, CpuTimePaid DEF Measures
    <3>3. OrphanWeight(ev, smp) \in Amounts
      BY WeightsAddUp
    <3>4. OrphanWeight(ev, smp) = Zero
      BY <3>1, <3>3, AtMostOrders, SomeAmounts DEF Amounts
    <3>5. rule.orphan = Zero
      BY <3>2, <3>4, TimesUnits, SomeAmounts
    <3>6. DOMAIN rule.spans = {}
      BY <3>1, <3>2 DEF SpanIds
    <3> HIDE DEF rule
    <3>7. PaysNothing(rule)
      BY <3>5, <3>6, EmptyPays
    <3>8. PaysLike(pay, rule)
      BY <1>1, <2>2, <3>7 DEF PaysNothing, PaysLike
    <3> QED BY <1>3, <1>4, <3>8 DEF rule
  <2>3. pay.policy \in {None, "l2_cpu_time"}
    BY <1>2, <1>4, PolicyIs
  <2> QED BY <2>1, <2>2, <2>3
<1>5. CASE ~ Degenerate(smp) /\ Covering(ev, smp) = {}
  <2> DEFINE rule == WallClockPay(ev, smp)
  <2>1. CASE pay.policy = "l1_wall_clock"
    <3>1. pay.spans = rule.spans /\ pay.orphan = rule.orphan
      BY <2>1, PayIs
    <3> HIDE DEF rule
    <3>2. PaysLike(pay, rule)
      BY <3>1 DEF PaysLike, PaidTo
    <3> QED BY <1>3, <1>5, <3>2 DEF rule
  <2>2. CASE pay.policy = None
    <3>1. Active(ev, smp) = {}
      BY <1>2, <1>5, <2>2, PoliciesAreNotNone DEF PolicyOf
    <3>2. DOMAIN rule.spans = SpanIds(Active(ev, smp)) /\ rule.orphan = Zero
      BY <1>5, WallClockPaid DEF Measures
    <3>3. DOMAIN rule.spans = {}
      BY <3>1, <3>2 DEF SpanIds
    <3> HIDE DEF rule
    <3>4. PaysNothing(rule)
      BY <3>2, <3>3, EmptyPays
    <3>5. PaysLike(pay, rule)
      BY <1>1, <2>2, <3>4 DEF PaysNothing, PaysLike
    <3> QED BY <1>3, <1>5, <3>5 DEF rule
  <2>3. pay.policy \in {None, "l1_wall_clock"}
    BY <1>2, <1>5, PolicyIs
  <2> QED BY <2>1, <2>2, <2>3
<1> QED BY <1>3, <1>4, <1>5

\* Nobody else gains by what is paid in place of what was.
Takes(before, after, id) ==
  /\ AtMost(after.orphan, before.orphan)
  /\ \A other : other # id => AtMost(PaidTo(after, other), PaidTo(before, other))
  /\ AtMost(Plus(Total(before.spans), before.orphan), Plus(Total(after.spans), after.orphan))

LEMMA TakesLike ==
  ASSUME NEW a, NEW b, NEW c, NEW d, NEW id, PaysLike(a, c), PaysLike(b, d), Takes(c, d, id)
  PROVE  Takes(a, b, id)
<1>1. AtMost(b.orphan, a.orphan)
  BY DEF PaysLike, Takes
<1>2. \A other : other # id => AtMost(PaidTo(b, other), PaidTo(a, other))
  BY DEF PaysLike, Takes
<1>3. AtMost(Plus(Total(a.spans), a.orphan), Plus(Total(b.spans), b.orphan))
  BY DEF PaysLike, Takes
<1> QED BY <1>1, <1>2, <1>3 DEF Takes

\* Under L2 the weights of the others shrink, and their sum and the scale stay.
LEMMA WeightsShrink ==
  ASSUME NEW ev, Stored(ev), NEW e \in Catalog, IsLateSpan(e), NEW ev2, ev2 = ev \cup {e},
         NEW smp \in EnergySamples(ev)
  PROVE  /\ AtMost(OrphanWeight(ev2, smp), OrphanWeight(ev, smp))
         /\ OrphanWeight(ev, smp) \in Amounts /\ OrphanWeight(ev2, smp) \in Amounts
         /\ \A id : SpanWeight(ev, smp, id) \in Amounts /\ SpanWeight(ev2, smp, id) \in Amounts
         /\ \A id : id # e.span => AtMost(SpanWeight(ev2, smp, id), SpanWeight(ev, smp, id))
<1> DEFINE P == WindowPids(ev, smp)
           share(x) == [wp \in x |-> PidShare(ev, wp[1], wp[2], smp)]
           share2(x) == [wp \in x |-> PidShare(ev2, wp[1], wp[2], smp)]
<1>1. Stored(ev2) /\ smp \in EnergySamples(ev2) /\ WindowPids(ev2, smp) = P
  BY LateSpanIs
<1>2. \A wp \in P : /\ AtMost(PidShare(ev2, wp[1], wp[2], smp), PidShare(ev, wp[1], wp[2], smp))
                    /\ PidShare(ev, wp[1], wp[2], smp) \in Amounts
                    /\ PidShare(ev2, wp[1], wp[2], smp) \in Amounts
                    /\ ToOrphan(ev2, wp[1], wp[2], smp) => ToOrphan(ev, wp[1], wp[2], smp)
  <2> TAKE wp \in P
  <2>1. wp[1] \in ProcWindows(ev)
    BY WindowPidsAre
  <2> QED BY <2>1, SharesShrink
<1>3. /\ AtMost(OrphanWeight(ev2, smp), OrphanWeight(ev, smp))
      /\ OrphanWeight(ev, smp) \in Amounts /\ OrphanWeight(ev2, smp) \in Amounts
  <2> DEFINE X == {x \in P : ToOrphan(ev, x[1], x[2], smp)}
             Y == {x \in P : ToOrphan(ev2, x[1], x[2], smp)}
             f == share(X)
             g == share2(Y)
  <2>1. X \in SUBSET P /\ Y \in SUBSET P /\ Y \in SUBSET X
    BY <1>2
  <2>2. IsFiniteSet(X) /\ IsFiniteSet(Y)
    <3> HIDE DEF X, Y, P
    <3> QED BY <2>1, FiniteParts, FS_Subset DEF P
  <2>3. \A x \in X : f[x] \in Amounts /\ f[x] \in Fractions /\ AtMost(Zero, f[x])
    BY <1>2, <2>1, SomeAmounts DEF Amounts
  <2>4. \A x \in Y : g[x] \in Fractions /\ f[x] \in Fractions /\ AtMost(g[x], f[x]) /\ g[x] \in Amounts
    BY <1>2, <2>1, SomeAmounts
  <2>5. OrphanWeight(ev, smp) = TotalOn(f, X) /\ OrphanWeight(ev2, smp) = TotalOn(g, Y)
    BY <1>1 DEF OrphanWeight, Total
  <2> HIDE DEF f, g, X, Y
  <2>6. AtMost(TotalOn(g, Y), TotalOn(f, Y))
    BY <2>2, <2>4, TotalAtMost
  <2>7. AtMost(TotalOn(f, Y), TotalOn(f, X))
    BY <2>1, <2>2, <2>3, TotalWithin
  <2>8. /\ TotalOn(g, Y) \in Amounts /\ TotalOn(f, X) \in Amounts /\ TotalOn(f, Y) \in Fractions
    BY <2>2, <2>3, <2>4, TotalIsAmount, TotalType
  <2> QED BY <2>5, <2>6, <2>7, <2>8, SomeAmounts, AtMostChains
<1>4. ASSUME NEW id
      PROVE  /\ SpanWeight(ev, smp, id) \in Amounts /\ SpanWeight(ev2, smp, id) \in Amounts
             /\ id # e.span => AtMost(SpanWeight(ev2, smp, id), SpanWeight(ev, smp, id))
  <2> DEFINE X == {x \in Claims(ev, smp) : x[2].span = id}
             Y == {x \in Claims(ev2, smp) : x[2].span = id}
             f == [c \in X |-> PidShare(ev, c[1][1], c[1][2], smp)]
             g == [c \in Y |-> PidShare(ev2, c[1][1], c[1][2], smp)]
  <2>1. IsFiniteSet(X) /\ IsFiniteSet(Y)
    BY <1>1, FiniteParts, FS_Subset
  <2>2. (\A x \in X : x[1] \in P) /\ (\A x \in Y : x[1] \in P)
    BY <1>1, ClaimsAre
  <2>3. (\A x \in X : f[x] \in Amounts) /\ (\A x \in Y : g[x] \in Amounts)
    BY <1>2, <2>2
  <2>4. SpanWeight(ev, smp, id) = TotalOn(f, X) /\ SpanWeight(ev2, smp, id) = TotalOn(g, Y)
    BY DEF SpanWeight, Total
  <2>5. ASSUME id # e.span PROVE X = Y
    <3>1. ASSUME NEW x \in WindowPids(ev, smp), NEW s, s # e
          PROVE  s \in Claimants(ev, x[2], smp) <=> s \in Claimants(ev2, x[2], smp)
      BY <3>1, WindowPidsAre, SharesShrink
    <3>2. ASSUME NEW s, s # e PROVE s \in Active(ev, smp) <=> s \in Active(ev2, smp)
      BY <3>2, LateSpanIs
    <3> QED BY <1>1, <2>5, <3>1, <3>2 DEF Claims
  <2>6. ASSUME id # e.span PROVE \A x \in X : g[x] \in Amounts /\ AtMost(g[x], f[x])
    BY <1>2, <2>2, <2>5, <2>6
  <2> HIDE DEF f, g, X, Y
  <2>7. ASSUME id # e.span PROVE AtMost(TotalOn(g, Y), TotalOn(f, X))
    <3>1. \A x \in X : g[x] \in Fractions /\ f[x] \in Fractions /\ AtMost(g[x], f[x])
      BY <2>3, <2>6, <2>7, SomeAmounts
    <3>2. AtMost(TotalOn(g, X), TotalOn(f, X))
      BY <2>1, <3>1, TotalAtMost
    <3> QED BY <2>5, <2>7, <3>2
  <2> QED BY <2>1, <2>3, <2>4, <2>7, TotalIsAmount
<1> QED BY <1>3, <1>4

LEMMA CpuTimeTakes ==
  ASSUME NEW ev, Stored(ev), NEW e \in Catalog, IsLateSpan(e), NEW ev2, ev2 = ev \cup {e},
         NEW smp, Measures(ev, smp), NEW before, before = CpuTimePay(ev, smp),
         NEW after, after = CpuTimePay(ev2, smp)
  PROVE  Takes(before, after, e.span)
<1> DEFINE scale == CpuTimeScale(smp, SampleCpu(ev, smp))
<1>1. /\ Stored(ev2) /\ Measures(ev2, smp) /\ SampleCpu(ev2, smp) = SampleCpu(ev, smp)
      /\ smp \in EnergySamples(ev)
  BY LateSpanIs DEF Measures
<1>2. /\ scale \in Amounts /\ before.orphan = Times(scale, OrphanWeight(ev, smp))
      /\ DOMAIN before.spans = SpanIds(Active(ev, smp))
      /\ \A id \in DOMAIN before.spans : before.spans[id] = Times(scale, SpanWeight(ev, smp, id))
  BY <1>1, CpuTimePaid
<1>3. /\ after.orphan = Times(scale, OrphanWeight(ev2, smp))
      /\ DOMAIN after.spans = SpanIds(Active(ev2, smp))
      /\ \A id \in DOMAIN after.spans : after.spans[id] = Times(scale, SpanWeight(ev2, smp, id))
  BY <1>1, CpuTimePaid, SMTT(30)
<1>4. Plus(Total(before.spans), before.orphan) = Plus(Total(after.spans), after.orphan)
  <2> DEFINE E == SampleEnergy(smp)
             f == Clamp(Over(SampleCpu(ev, smp), Whole(smp.t1 - smp.t0)))
  <2>1. Plus(Total(before.spans), before.orphan) = Times(E, f)
    BY CpuTimePaid
  <2>2. Plus(Total(after.spans), after.orphan) =
           Times(E, Clamp(Over(SampleCpu(ev2, smp), Whole(smp.t1 - smp.t0))))
    BY <1>1, CpuTimePaid
  <2> QED BY <1>1, <2>1, <2>2
<1>5. AtMost(Plus(Total(before.spans), before.orphan), Plus(Total(after.spans), after.orphan))
  <2>1. FairPay(ev, smp, before)
    BY CpuTimePaid
  <2>2. Total(before.spans) \in Amounts /\ before.orphan \in Amounts
    BY <1>1, <2>1, PaidToIs DEF FairPay
  <2>3. Plus(Total(before.spans), before.orphan) \in Fractions
    BY <2>2, AmountsClosed, SomeAmounts
  <2> QED BY <1>4, <2>3, AtMostOrders
<1>6. /\ AtMost(OrphanWeight(ev2, smp), OrphanWeight(ev, smp))
      /\ OrphanWeight(ev, smp) \in Amounts /\ OrphanWeight(ev2, smp) \in Amounts
      /\ \A id : SpanWeight(ev, smp, id) \in Amounts /\ SpanWeight(ev2, smp, id) \in Amounts
      /\ \A id : id # e.span => AtMost(SpanWeight(ev2, smp, id), SpanWeight(ev, smp, id))
  BY <1>1, WeightsShrink
<1> HIDE DEF scale
<1>7. ASSUME NEW a \in Amounts, NEW b \in Amounts, AtMost(a, b)
      PROVE  AtMost(Times(scale, a), Times(scale, b))
  BY <1>2, <1>7, TimesMonotone, SomeAmounts DEF Amounts
<1>8. AtMost(after.orphan, before.orphan)
  BY <1>2, <1>3, <1>6, <1>7
<1>9. ASSUME NEW id, id # e.span PROVE AtMost(PaidTo(after, id), PaidTo(before, id))
  <2>1. AtMost(Times(scale, SpanWeight(ev2, smp, id)), Times(scale, SpanWeight(ev, smp, id)))
    BY <1>6, <1>7, <1>9
  <2>2. id \in DOMAIN after.spans <=> id \in DOMAIN before.spans
    <3>1. /\ Active(ev, smp) \subseteq Active(ev2, smp)
          /\ Active(ev2, smp) \subseteq Active(ev, smp) \cup {e}
      BY LateSpanIs
    <3>2. id \in SpanIds(Active(ev2, smp)) <=> id \in SpanIds(Active(ev, smp))
      BY <1>9, <3>1 DEF SpanIds
    <3> QED BY <1>2, <1>3, <3>2
  <2>3. CASE id \in DOMAIN before.spans
    BY <1>2, <1>3, <2>1, <2>2, <2>3 DEF PaidTo
  <2>4. CASE id \notin DOMAIN before.spans
    <3>1. PaidTo(after, id) = Zero /\ PaidTo(before, id) = Zero
      BY <2>2, <2>4 DEF PaidTo
    <3> QED BY <3>1, SomeAmounts DEF Amounts
  <2> QED BY <2>3, <2>4
<1> QED BY <1>5, <1>8, <1>9 DEF Takes

\* Under L1 the shares of the others stay, and more claimed can only lower the scale.
LEMMA WallClockTakes ==
  ASSUME NEW ev, Stored(ev), NEW e \in Catalog, IsLateSpan(e), NEW ev2, ev2 = ev \cup {e},
         NEW smp, Measures(ev, smp), NEW before, before = WallClockPay(ev, smp),
         NEW after, after = WallClockPay(ev2, smp)
  PROVE  Takes(before, after, e.span)
<1> DEFINE A == Active(ev, smp)
           B == Active(ev2, smp)
           E == SampleEnergy(smp)
           f == SharesOf(A, smp)
           g == SharesOf(B, smp)
           V == Total(f)
           W == Total(g)
           scale == WallClockScale(smp, A)
           scale2 == WallClockScale(smp, B)
           own(id) == {s \in A : s.span = id}
           own2(id) == {s \in B : s.span = id}
<1>1. /\ Stored(ev2) /\ Measures(ev2, smp) /\ smp \in EnergySamples(ev)
      /\ A \subseteq B /\ B \subseteq A \cup {e}
  BY LateSpanIs DEF Measures
<1>2. E \in Amounts /\ IsFiniteSet(A) /\ IsFiniteSet(B)
  BY <1>1, SampleEnergyIs, FiniteParts
<1>3. /\ FairPay(ev, smp, before) /\ DOMAIN before.spans = SpanIds(A) /\ before.orphan = Zero
      /\ scale \in Amounts /\ V \in Amounts /\ Total(before.spans) = Times(E, Clamp(Over(V, One)))
      /\ \A id \in DOMAIN before.spans : before.spans[id] = Times(scale, SpanShare(A, smp, id))
  BY WallClockPaid
<1>4. /\ FairPay(ev2, smp, after) /\ DOMAIN after.spans = SpanIds(B) /\ after.orphan = Zero
      /\ scale2 \in Amounts /\ W \in Amounts /\ Total(after.spans) = Times(E, Clamp(Over(W, One)))
      /\ \A id \in DOMAIN after.spans : after.spans[id] = Times(scale2, SpanShare(B, smp, id))
  BY <1>1, WallClockPaid
<1>5. /\ \A s \in A : f[s] \in Amounts /\ f[s] \in Fractions /\ f[s] = g[s]
      /\ \A s \in B : g[s] \in Amounts /\ g[s] \in Fractions /\ AtMost(Zero, g[s])
  BY <1>1, ShareIs, SomeAmounts DEF SharesOf, Active, Amounts
<1>6. V = TotalOn(f, A) /\ W = TotalOn(g, B)
  BY DEF Total, SharesOf
<1>7. /\ scale = Over(E, IF AtMost(V, One) THEN One ELSE V)
      /\ scale2 = Over(E, IF AtMost(W, One) THEN One ELSE W)
  BY DEF WallClockScale, SharesOf
<1>8. \A id : id # e.span => own(id) = own2(id) /\ (id \in SpanIds(A) <=> id \in SpanIds(B))
  BY <1>1 DEF SpanIds
<1>9. \A id : /\ own(id) \in SUBSET A
              /\ SpanShare(A, smp, id) = TotalOn(f, own(id))
              /\ SpanShare(B, smp, id) = TotalOn(g, own2(id))
  BY DEF SpanShare
<1> HIDE DEF A, B, E, f, g, V, W, scale, scale2, own, own2
<1>10. AtMost(V, W)
  <2>1. TotalOn(f, A) = TotalOn(g, A)
    BY <1>2, <1>5, TotalSame
  <2> QED BY <1>1, <1>2, <1>5, <1>6, <2>1, TotalWithin
<1>11. V \in Fractions /\ W \in Fractions /\ One \in Fractions /\ Zero \in Fractions
       /\ One \in Above /\ E \in Fractions
  BY <1>2, <1>3, <1>4, SomeAmounts
<1>12. AtMost(scale2, scale)
  <2> DEFINE c == IF AtMost(V, One) THEN One ELSE V
             d == IF AtMost(W, One) THEN One ELSE W
  <2>1. c \in Above /\ d \in Above
    BY <1>2, <1>3, <1>4, <1>11, ScaledDown
  <2>2. AtMost(c, d)
    <3>1. AtMost(W, One) => AtMost(V, One)
      BY <1>10, <1>11, AtMostChains
    <3>2. AtMost(One, W) \/ AtMost(W, One)
      BY <1>11, AtMostOrders
    <3>3. AtMost(One, One)
      BY <1>11, AtMostOrders
    <3> QED BY <1>10, <3>1, <3>2, <3>3
  <2> HIDE DEF c, d
  <2>3. AtMost(Over(E, d), Over(E, c))
    BY <1>2, <2>1, <2>2, OverShrinks
  <2> QED BY <1>7, <2>3 DEF c, d
<1>13. AtMost(Total(before.spans), Total(after.spans))
  <2>1. Over(V, One) = V /\ Over(W, One) = W
    BY <1>11, OverIs, TimesUnits
  <2>2. AtMost(Clamp(V), Clamp(W)) /\ Clamp(V) \in Amounts /\ Clamp(W) \in Amounts
    BY <1>3, <1>4, <1>10, ClampMonotone, ClampIs
  <2>3. AtMost(Times(E, Clamp(V)), Times(E, Clamp(W)))
    BY <1>2, <1>11, <2>2, TimesMonotone, SomeAmounts DEF Amounts
  <2> QED BY <1>3, <1>4, <2>1, <2>3
<1>14. AtMost(Plus(Total(before.spans), before.orphan), Plus(Total(after.spans), after.orphan))
  <2>1. Total(before.spans) \in Fractions /\ Total(after.spans) \in Fractions
    BY <1>1, <1>3, <1>4, PaidToIs, SomeAmounts DEF Measures
  <2>2. /\ Plus(Total(before.spans), before.orphan) = Total(before.spans)
        /\ Plus(Total(after.spans), after.orphan) = Total(after.spans)
    BY <1>3, <1>4, <2>1, PlusZero
  <2> QED BY <1>13, <2>2
<1>15. AtMost(after.orphan, before.orphan)
  BY <1>3, <1>4, <1>11, AtMostOrders
<1>16. ASSUME NEW id, id # e.span PROVE AtMost(PaidTo(after, id), PaidTo(before, id))
  <2> DEFINE w == TotalOn(f, own(id))
  <2>1. CASE id \in SpanIds(A)
    <3>1. IsFiniteSet(own(id)) /\ \A s \in own(id) : f[s] \in Amounts /\ f[s] = g[s]
      BY <1>2, <1>5, <1>9, FS_Subset
    <3>2. w \in Amounts /\ TotalOn(g, own(id)) = w
      BY <3>1, TotalIsAmount, TotalSame
    <3>3. PaidTo(before, id) = Times(scale, w)
      BY <1>3, <1>9, <2>1 DEF PaidTo
    <3>4. PaidTo(after, id) = Times(scale2, w)
      BY <1>4, <1>8, <1>9, <1>16, <2>1, <3>2 DEF PaidTo
    <3> HIDE DEF w
    <3>5. scale \in Fractions /\ scale2 \in Fractions /\ w \in Fractions /\ AtMost(Zero, w)
      BY <1>3, <1>4, <3>2, SomeAmounts DEF Amounts
    <3>6. AtMost(Times(w, scale2), Times(w, scale))
      BY <1>12, <3>5, TimesMonotone
    <3> QED BY <3>3, <3>4, <3>5, <3>6, TimesCommutes
  <2>2. CASE id \notin SpanIds(A)
    <3>1. PaidTo(after, id) = Zero /\ PaidTo(before, id) = Zero
      BY <1>3, <1>4, <1>8, <1>16, <2>2 DEF PaidTo
    <3> QED BY <1>11, <3>1, AtMostOrders
  <2> QED BY <2>1, <2>2
<1> QED BY <1>14, <1>15, <1>16 DEF Takes

LEMMA SampleTakes ==
  ASSUME NEW ev, Stored(ev), NEW e \in Catalog, IsLateSpan(e), NEW ev2, ev2 = ev \cup {e},
         NEW smp \in EnergySamples(ev), NEW before, before = Pay(ev, smp),
         NEW after, after = Pay(ev2, smp)
  PROVE  Takes(before, after, e.span)
<1>1. Stored(ev2) /\ smp \in EnergySamples(ev2) /\ Covering(ev2, smp) = Covering(ev, smp)
  BY LateSpanIs
<1>2. CASE Degenerate(smp)
  <2>1. PaysNothing(before) /\ PaysNothing(after)
    BY <1>1, <1>2, PayRules
  <2>2. AtMost(Zero, Zero) /\ Plus(Zero, Zero) = Zero
    BY PlusZero, SomeAmounts DEF Amounts
  <2> QED BY <2>1, <2>2 DEF PaysNothing, Takes
<1>3. CASE ~ Degenerate(smp) /\ Covering(ev, smp) # {}
  <2>1. PaysLike(before, CpuTimePay(ev, smp)) /\ PaysLike(after, CpuTimePay(ev2, smp))
    BY <1>1, <1>3, PayRules
  <2>2. Takes(CpuTimePay(ev, smp), CpuTimePay(ev2, smp), e.span)
    BY <1>3, CpuTimeTakes DEF Measures
  <2> QED BY <2>1, <2>2, TakesLike
<1>4. CASE ~ Degenerate(smp) /\ Covering(ev, smp) = {}
  <2>1. PaysLike(before, WallClockPay(ev, smp)) /\ PaysLike(after, WallClockPay(ev2, smp))
    BY <1>1, <1>4, PayRules
  <2>2. Takes(WallClockPay(ev, smp), WallClockPay(ev2, smp), e.span)
    BY <1>4, WallClockTakes DEF Measures
  <2> QED BY <2>1, <2>2, TakesLike
<1> QED BY <1>2, <1>3, <1>4

LEMMA BaselineTakes ==
  ASSUME NEW ev, Stored(ev), NEW e \in Catalog, IsLateSpan(e), NEW ev2, ev2 = ev \cup {e},
         NEW smp \in EnergySamples(ev)
  PROVE  /\ TraceOf(ev, smp).baseline \in Fractions /\ TraceOf(ev2, smp).baseline \in Fractions
         /\ AtMost(TraceOf(ev2, smp).baseline, TraceOf(ev, smp).baseline)
<1> DEFINE before == Pay(ev, smp)
           after == Pay(ev2, smp)
           E == SampleEnergy(smp)
           a == Plus(Total(before.spans), before.orphan)
           b == Plus(Total(after.spans), after.orphan)
           x == TraceOf(ev, smp).baseline
           y == TraceOf(ev2, smp).baseline
<1>1. Stored(ev2) /\ smp \in EnergySamples(ev2) /\ E \in Fractions
  BY LateSpanIs, SampleEnergyIs, SomeAmounts
<1>2. ASSUME NEW u, Stored(u), smp \in EnergySamples(u), NEW t, t = TraceOf(u, smp),
             NEW pay, pay = Pay(u, smp)
      PROVE  /\ t.baseline \in Fractions /\ Plus(Total(pay.spans), pay.orphan) \in Fractions
             /\ Plus(Plus(Total(pay.spans), pay.orphan), t.baseline) = E
  <2>1. /\ t.orphaned = pay.orphan /\ t.orphaned \in Amounts /\ t.baseline \in Amounts
        /\ Plus(Total(pay.spans), Plus(t.orphaned, t.baseline)) = E
    BY <1>2, TraceIs DEF TraceOf
  <2>2. Total(pay.spans) \in Amounts
    BY <1>2, PayIsFair, PaidToIs
  <2> DEFINE p == Total(pay.spans)
             q == pay.orphan
             r == t.baseline
  <2>3. p \in Fractions /\ q \in Fractions /\ r \in Fractions /\ Plus(p, Plus(q, r)) = E
    BY <2>1, <2>2, SomeAmounts
  <2> HIDE DEF E, p, q, r
  <2>4. Plus(p, q) \in Fractions /\ Plus(Plus(p, q), r) = E
    BY <2>3, Operations, PlusAssociates
  <2> QED BY <2>3, <2>4 DEF p, q, r
<1>3. x \in Fractions /\ a \in Fractions /\ Plus(a, x) = E
  BY <1>2
<1>4. y \in Fractions /\ b \in Fractions /\ Plus(b, y) = E
  BY <1>1, <1>2
<1>5. AtMost(a, b)
  BY SampleTakes DEF Takes
<1> HIDE DEF x, y, a, b, E
<1>6. AtMost(Plus(a, x), Plus(b, x))
  BY <1>3, <1>4, <1>5, PlusMonotone
<1>7. Plus(b, y) = Plus(y, b) /\ Plus(b, x) = Plus(x, b)
  BY <1>3, <1>4, PlusCommutes
<1>8. AtMost(Plus(y, b), Plus(x, b))
  BY <1>3, <1>4, <1>6, <1>7
<1>9. AtMost(y, x)
  BY <1>3, <1>4, <1>8, PlusMonotone
<1> QED BY <1>3, <1>4, <1>9 DEF x, y

LEMMA LateSpanTakes ==
  ASSUME NEW ev, Stored(ev), NEW e \in Catalog, IsLateSpan(e), NEW ev2, ev2 = ev \cup {e},
         NEW before, before = Apportion(ev), NEW after, after = Apportion(ev2)
  PROVE  OnlyTakes(before, after, e.span)
<1> DEFINE S == EnergySamples(ev)
           o == [smp \in S |-> Pay(ev, smp).orphan]
           o2 == [smp \in S |-> Pay(ev2, smp).orphan]
           b == [smp \in S |-> TraceOf(ev, smp).baseline]
           b2 == [smp \in S |-> TraceOf(ev2, smp).baseline]
<1>1. Stored(ev2) /\ EnergySamples(ev2) = S /\ IsFiniteSet(S)
  BY LateSpanIs, FiniteParts
<1>2. /\ before.orphaned = TotalOn(o, S) /\ before.baseline_idle = TotalOn(b, S)
      /\ \A id : SpanJ(before, id) = TotalOn(PaidOver(ev, id), S)
  BY ApportionIs
<1>3. /\ after.orphaned = TotalOn(o2, S) /\ after.baseline_idle = TotalOn(b2, S)
      /\ \A id : SpanJ(after, id) = TotalOn(PaidOver(ev2, id), S)
  <2>1. /\ after.orphaned = TotalOn([smp \in EnergySamples(ev2) |-> Pay(ev2, smp).orphan], EnergySamples(ev2))
        /\ after.baseline_idle = TotalOn([smp \in EnergySamples(ev2) |-> TraceOf(ev2, smp).baseline], EnergySamples(ev2))
        /\ \A id : SpanJ(after, id) = TotalOn(PaidOver(ev2, id), EnergySamples(ev2))
    BY <1>1, ApportionIs
  <2> QED BY <1>1, <2>1
<1>4. \A smp \in S : Takes(Pay(ev, smp), Pay(ev2, smp), e.span)
  BY SampleTakes
<1>5. \A smp \in S : /\ FairPay(ev, smp, Pay(ev, smp)) /\ FairPay(ev2, smp, Pay(ev2, smp))
                     /\ \A id : /\ PaidTo(Pay(ev, smp), id) \in Amounts
                                /\ PaidTo(Pay(ev2, smp), id) \in Amounts
  BY <1>1, PayIsFair, PaidToIs
<1>6. \A smp \in S : o[smp] \in Fractions /\ o2[smp] \in Fractions /\ AtMost(o2[smp], o[smp])
  BY <1>4, <1>5, SomeAmounts DEF FairPay, Takes
<1>7. \A smp \in S : b[smp] \in Fractions /\ b2[smp] \in Fractions /\ AtMost(b2[smp], b[smp])
  BY BaselineTakes
<1>8. ASSUME NEW other, other # e.span PROVE AtMost(SpanJ(after, other), SpanJ(before, other))
  <2> DEFINE p == PaidOver(ev, other)
             q == PaidOver(ev2, other)
  <2>1. \A smp \in S : p[smp] = PaidTo(Pay(ev, smp), other) /\ q[smp] = PaidTo(Pay(ev2, smp), other)
    BY <1>1 DEF PaidOver
  <2>2. \A smp \in S : q[smp] \in Fractions /\ p[smp] \in Fractions /\ AtMost(q[smp], p[smp])
    <3> HIDE DEF p, q, S
    <3> QED BY <1>4, <1>5, <1>8, <2>1, SomeAmounts DEF Takes
  <2>3. SpanJ(after, other) = TotalOn(q, S) /\ SpanJ(before, other) = TotalOn(p, S)
    BY <1>2, <1>3
  <2> HIDE DEF p, q, S
  <2>4. AtMost(TotalOn(q, S), TotalOn(p, S))
    BY <1>1, <2>2, TotalAtMost
  <2> QED BY <2>3, <2>4
<1> HIDE DEF S, o, o2, b, b2
<1>9. AtMost(TotalOn(o2, S), TotalOn(o, S)) /\ AtMost(TotalOn(b2, S), TotalOn(b, S))
  BY <1>1, <1>6, <1>7, TotalAtMost
<1> QED BY <1>2, <1>3, <1>8, <1>9 DEF OnlyTakes

LEMMA LateStep ==
  ASSUME JoinInv, JoinInv', [JoinNext]_joinVars
  PROVE  [\A e \in events' \ events : IsLateSpan(e) => OnlyTakes(app, app', e.span)]_joinVars
<1>1. Stored(events) /\ app = Apportion(events) /\ app' = Apportion(events')
  BY DEF JoinInv
<1>2. ASSUME NEW e \in Catalog, AppendEvent(e), NEW x \in events' \ events, IsLateSpan(x)
      PROVE  OnlyTakes(app, app', x.span)
  <2>1. x = e /\ events' = events \cup {e}
    BY <1>2 DEF AppendEvent
  <2> QED BY <1>1, <1>2, <2>1, LateSpanTakes
<1>3. ASSUME NEW c \in events, NEW a \in Answers, StoreEstimate(c, a) PROVE events' = events
  BY <1>3 DEF StoreEstimate
<1> QED BY <1>2, <1>3 DEF JoinNext

\* A span that is reported late only takes: no other span, no
\* orphan bucket and no baseline of the session gains by it (run, cpu_weights).
THEOREM LateSpansOnlyTake == JoinSpec => NewSpanOnlyTakes
BY JoinsAreCurrent, LateStep, PTL DEF JoinSpec, NewSpanOnlyTakes

-----------------------------------------------------------------------------
(* Coverage: what merging the windows leaves *)

Window(w) == w \in Int \X Int /\ w[1] < w[2]
Within(w, t) == w[1] <= t /\ t < w[2]

LEMMA LastIs ==
  ASSUME NEW S, \A w \in S : Window(w), NEW last \in S, \A x \in S : WindowBefore(x, last)
  PROVE  LastWindow(S) = last
<1>1. \A w \in S : (\A x \in S : WindowBefore(x, w)) => w = last
  <2> TAKE w \in S
  <2> HAVE \A x \in S : WindowBefore(x, w)
  <2>1. WindowBefore(w, last) /\ WindowBefore(last, w)
    OBVIOUS
  <2>2. /\ w = <<w[1], w[2]>> /\ w[1] \in Int /\ w[2] \in Int
        /\ last = <<last[1], last[2]>> /\ last[1] \in Int /\ last[2] \in Int
    BY DEF Window
  <2>3. w[1] = last[1] /\ w[2] = last[2]
    BY <2>1, <2>2 DEF WindowBefore
  <2> QED BY <2>2, <2>3
<1> QED BY <1>1 DEF LastWindow

LEMMA LastExists ==
  ASSUME NEW S, IsFiniteSet(S), \A w \in S : Window(w), S # {}
  PROVE  LastWindow(S) \in S /\ \A x \in S : WindowBefore(x, LastWindow(S))
<1> DEFINE good == {s \in SUBSET S : s # {} => \E l \in s : \A x \in s : WindowBefore(x, l)}
<1>0. \A w \in S : w[1] \in Int /\ w[2] \in Int
  BY DEF Window
<1>1. ASSUME NEW s \in SUBSET S, \A x \in s : s \ {x} \in good PROVE s \in good
  <2> SUFFICES ASSUME s # {} PROVE \E l \in s : \A x \in s : WindowBefore(x, l)
    OBVIOUS
  <2>1. PICK x \in s : TRUE
    OBVIOUS
  <2>2. CASE s \ {x} = {}
    BY <1>0, <2>2 DEF WindowBefore
  <2>3. CASE s \ {x} # {}
    <3>1. PICK l \in s \ {x} : \A y \in s \ {x} : WindowBefore(y, l)
      BY <1>1, <2>3
    <3>2. CASE WindowBefore(x, l)
      BY <3>1, <3>2
    <3>3. CASE ~ WindowBefore(x, l)
      <4>1. WindowBefore(l, x) /\ WindowBefore(x, x)
        BY <1>0, <3>3 DEF WindowBefore
      <4>2. ASSUME NEW y \in s \ {x} PROVE WindowBefore(y, x)
        <5>1. WindowBefore(y, l)
          BY <3>1
        <5> QED BY <1>0, <4>1, <5>1 DEF WindowBefore
      <4> QED BY <4>1, <4>2
    <3> QED BY <3>2, <3>3
  <2> QED BY <2>2, <2>3
<1> HIDE DEF good
<1>2. \A s \in SUBSET S : s \in good
  BY <1>1, Shrinking
<1>3. \E l \in S : \A x \in S : WindowBefore(x, l)
  BY <1>2 DEF good
<1> QED BY <1>3 DEF LastWindow

MergesUp(g, W) ==
  g = [s \in SUBSET W |->
         IF s = {} THEN {} ELSE MergeWindow(LastWindow(s), g[s \ {LastWindow(s)}])]

LEMMA MergedIs ==
  ASSUME NEW ev, NEW W, W = SampleWindows(ev)
  PROVE  CoverageWindows(ev) = (CHOOSE g : MergesUp(g, W))[W]
BY DEF CoverageWindows, MapThenFoldSet, MergesUp

\* The windows that hold the last one are merged by those that do not.
LEMMA MergeExists ==
  ASSUME NEW W, IsFiniteSet(W), \A w \in W : Window(w)
  PROVE  \E g : MergesUp(g, W)
<1> DEFINE good == {s \in SUBSET W : \E g : MergesUp(g, s)}
<1>1. ASSUME NEW s \in SUBSET W, \A x \in s : s \ {x} \in good PROVE s \in good
  <2>1. CASE s = {}
    <3> DEFINE g == [z \in SUBSET s |-> {}]
    <3>1. MergesUp(g, s)
      BY <2>1 DEF MergesUp
    <3> QED BY <3>1
  <2>2. CASE s # {}
    <3> DEFINE last == LastWindow(s)
               t == s \ {last}
    <3>1. last \in s /\ \A x \in s : WindowBefore(x, last)
      <4>1. IsFiniteSet(s) /\ \A w \in s : Window(w)
        BY FS_Subset
      <4> QED BY <2>2, <4>1, LastExists
    <3> HIDE DEF last
    <3>2. PICK h : MergesUp(h, t)
      BY <1>1, <3>1
    <3>3. \A z \in SUBSET t : h[z] = IF z = {} THEN {}
                                     ELSE MergeWindow(LastWindow(z), h[z \ {LastWindow(z)}])
      BY <3>2 DEF MergesUp
    <3> DEFINE g == [z \in SUBSET s |-> IF last \in z THEN MergeWindow(last, h[z \ {last}]) ELSE h[z]]
               Step(z) == IF z = {} THEN {} ELSE MergeWindow(LastWindow(z), g[z \ {LastWindow(z)}])
    <3>4. \A z \in SUBSET t : g[z] = h[z]
      OBVIOUS
    <3>5. ASSUME NEW z \in SUBSET s, last \in z PROVE g[z] = Step(z)
      <4>1. LastWindow(z) = last
        BY <3>1, <3>5, LastIs
      <4>2. z \ {last} \in SUBSET t
        OBVIOUS
      <4>3. g[z \ {last}] = h[z \ {last}]
        BY <3>4, <4>2
      <4> QED BY <3>5, <4>1, <4>3
    <3>6. ASSUME NEW z \in SUBSET s, last \notin z PROVE g[z] = Step(z)
      <4>1. z \in SUBSET t /\ z \ {LastWindow(z)} \in SUBSET t
        BY <3>6
      <4>2. g[z] = h[z] /\ g[z \ {LastWindow(z)}] = h[z \ {LastWindow(z)}]
        BY <3>4, <4>1
      <4> HIDE DEF g
      <4> QED BY <3>3, <4>1, <4>2
    <3>7. \A z \in SUBSET s : g[z] = Step(z)
      BY <3>5, <3>6
    <3>8. g = [z \in SUBSET s |-> g[z]]
      OBVIOUS
    <3> HIDE DEF g
    <3>9. MergesUp(g, s)
      BY <3>7, <3>8 DEF MergesUp
    <3> QED BY <3>9
  <2> QED BY <2>1, <2>2
<1> HIDE DEF good
<1>2. \A s \in SUBSET W : s \in good
  BY <1>1, Shrinking
<1> QED BY <1>2 DEF good

\* M has the instants of the windows of s, in windows that do not touch, and
\* starts where windows of s start.
MergedFrom(M, s) ==
  /\ IsFiniteSet(M)
  /\ \A m \in M : Window(m) /\ \E w \in s : m[1] = w[1]
  /\ \A a, b \in M : a = b \/ a[2] < b[1] \/ b[2] < a[1]
  /\ \A t \in Int : (\E m \in M : Within(m, t)) <=> (\E w \in s : Within(w, t))

\* Pushing the next window, or widening the last one pushed.
LEMMA MergeKeeps ==
  ASSUME NEW s, NEW w \in s, \A x \in s : Window(x) /\ WindowBefore(x, w),
         NEW M, MergedFrom(M, s \ {w})
  PROVE  MergedFrom(MergeWindow(w, M), s)
<1> DEFINE last == LastWindow(M)
           top == Max({last[2], w[2]})
           wide == <<last[1], top>>
           N == MergeWindow(w, M)
<1>1. /\ w[1] \in Int /\ w[2] \in Int /\ w[1] < w[2]
      /\ \A m \in M : m[1] \in Int /\ m[2] \in Int /\ m[1] < m[2]
  BY DEF Window, MergedFrom
<1>2. \A m \in M : m[1] <= w[1]
  <2> TAKE m \in M
  <2>1. PICK x \in s \ {w} : m[1] = x[1]
    BY DEF MergedFrom
  <2>2. WindowBefore(x, w)
    OBVIOUS
  <2> QED BY <1>1, <2>1, <2>2 DEF WindowBefore
<1>3. \A t \in Int : (\E x \in s : Within(x, t)) <=> ((\E m \in M : Within(m, t)) \/ Within(w, t))
  BY DEF MergedFrom
<1>4. IsFiniteSet(M)
  BY DEF MergedFrom
<1>5. ASSUME M # {} PROVE /\ last \in M
                          /\ \A m \in M : m = last \/ m[2] < last[1]
  <2>1. last \in M /\ \A m \in M : WindowBefore(m, last)
    BY <1>4, <1>5, LastExists DEF MergedFrom
  <2> HIDE DEF last
  <2>2. ASSUME NEW m \in M, m # last PROVE m[2] < last[1]
    <3>1. m[2] < last[1] \/ last[2] < m[1]
      BY <2>1, <2>2 DEF MergedFrom
    <3>2. WindowBefore(m, last)
      BY <2>1
    <3> QED BY <1>1, <2>1, <3>1, <3>2 DEF WindowBefore
  <2> QED BY <2>1, <2>2
<1>6. CASE M # {} /\ w[1] <= last[2]
  <2>1. N = (M \ {last}) \cup {wide}
    BY <1>6 DEF MergeWindow
  <2>2. /\ last \in M /\ last[1] \in Int /\ last[2] \in Int /\ last[1] < last[2]
        /\ last[1] <= w[1]
        /\ \A m \in M : m = last \/ m[2] < last[1]
    <3> HIDE DEF last
    <3> QED BY <1>1, <1>2, <1>5, <1>6
  <2>3. top = IF w[2] <= last[2] THEN last[2] ELSE w[2]
    <3> HIDE DEF last
    <3> QED BY <1>1, <2>2, PairExtremes
  <2>4. wide[1] = last[1] /\ wide[2] = top
    OBVIOUS
  <2>5. Window(wide)
    <3> HIDE DEF last, top
    <3> QED BY <1>1, <2>2, <2>3 DEF Window
  <2> HIDE DEF last, top, wide, N
  <2>6. IsFiniteSet(N)
    <3>1. IsFiniteSet(M \ {last})
      BY <1>4, FS_Subset
    <3> QED BY <2>1, <3>1, FS_AddElement
  <2>7. \A m \in N : Window(m) /\ \E x \in s : m[1] = x[1]
    <3>1. \A m \in M : Window(m) /\ \E x \in s : m[1] = x[1]
      BY DEF MergedFrom
    <3> QED BY <2>1, <2>2, <2>4, <2>5, <3>1
  <2>8. \A a, b \in N : a = b \/ a[2] < b[1] \/ b[2] < a[1]
    <3>1. \A a, b \in M : a = b \/ a[2] < b[1] \/ b[2] < a[1]
      BY DEF MergedFrom
    <3>2. \A m \in M \ {last} : m[2] < wide[1]
      BY <2>2, <2>4
    <3> QED BY <2>1, <3>1, <3>2
  <2>9. \A t \in Int : Within(wide, t) <=> Within(last, t) \/ Within(w, t)
    BY <1>1, <1>6, <2>2, <2>3, <2>4 DEF Within
  <2>10. \A t \in Int : (\E m \in N : Within(m, t)) <=> (\E x \in s : Within(x, t))
    <3> TAKE t \in Int
    <3>1. (\E m \in N : Within(m, t)) <=> ((\E m \in M : Within(m, t)) \/ Within(w, t))
      BY <2>1, <2>2, <2>9
    <3> QED BY <1>3, <3>1
  <2>11. MergedFrom(N, s)
    BY <2>6, <2>7, <2>8, <2>10 DEF MergedFrom
  <2> QED BY <2>11 DEF N
<1>7. CASE ~ (M # {} /\ w[1] <= last[2])
  <2>1. N = M \cup {w}
    BY <1>7 DEF MergeWindow
  <2>2. \A m \in M : m[2] < w[1]
    <3> TAKE m \in M
    <3>1. last \in M /\ (m = last \/ m[2] < last[1]) /\ ~ (w[1] <= last[2])
      BY <1>5, <1>7
    <3> HIDE DEF last
    <3>2. last[1] <= w[1] /\ last[1] \in Int /\ last[2] \in Int /\ m[2] \in Int
      BY <1>1, <1>2, <3>1
    <3> QED BY <1>1, <3>1, <3>2
  <2> HIDE DEF last, N
  <2>3. IsFiniteSet(N)
    BY <1>4, <2>1, FS_AddElement
  <2>4. \A m \in N : Window(m) /\ \E x \in s : m[1] = x[1]
    <3>1. \A m \in M : Window(m) /\ \E x \in s : m[1] = x[1]
      BY DEF MergedFrom
    <3> QED BY <2>1, <3>1
  <2>5. \A a, b \in N : a = b \/ a[2] < b[1] \/ b[2] < a[1]
    <3>1. \A a, b \in M : a = b \/ a[2] < b[1] \/ b[2] < a[1]
      BY DEF MergedFrom
    <3> QED BY <2>1, <2>2, <3>1
  <2>6. \A t \in Int : (\E m \in N : Within(m, t)) <=> (\E x \in s : Within(x, t))
    BY <1>3, <2>1
  <2>7. MergedFrom(N, s)
    BY <2>3, <2>4, <2>5, <2>6 DEF MergedFrom
  <2> QED BY <2>7 DEF N
<1> QED BY <1>6, <1>7

LEMMA MergedWindows ==
  ASSUME NEW ev, Stored(ev)
  PROVE  MergedFrom(CoverageWindows(ev), SampleWindows(ev))
<1> DEFINE W == SampleWindows(ev)
           g == CHOOSE g : MergesUp(g, W)
           good == {s \in SUBSET W : MergedFrom(g[s], s)}
<1>1. IsFiniteSet(W) /\ \A w \in W : Window(w)
  <2> DEFINE S == {x \in EnergySamples(ev) : ~ Degenerate(x)}
             f == [e \in S |-> <<e.t0, e.t1>>]
  <2>1. \A w \in W : \E e \in S : f[e] = w
    BY DEF SampleWindows
  <2>2. IsFiniteSet(S)
    BY FiniteParts, FS_Subset
  <2>3. \A e \in S : Window(<<e.t0, e.t1>>)
    BY Instants DEF Window, Degenerate
  <2>4. \A w \in W : Window(w)
    BY <2>3 DEF SampleWindows
  <2> HIDE DEF W, f, S
  <2> QED BY <2>1, <2>2, <2>4, FiniteImage
<1> HIDE DEF W
<1>2. MergesUp(g, W)
  BY <1>1, MergeExists
<1> HIDE DEF g
<1>3. ASSUME NEW s \in SUBSET W, \A x \in s : s \ {x} \in good PROVE s \in good
  <2>1. g[s] = IF s = {} THEN {} ELSE MergeWindow(LastWindow(s), g[s \ {LastWindow(s)}])
    BY <1>2 DEF MergesUp
  <2>2. CASE s = {}
    <3>1. MergedFrom({}, {})
      BY FS_EmptySet DEF MergedFrom
    <3> QED BY <2>1, <2>2, <3>1
  <2>3. CASE s # {}
    <3> DEFINE w == LastWindow(s)
    <3>1. IsFiniteSet(s) /\ \A x \in s : Window(x)
      BY <1>1, FS_Subset
    <3>2. w \in s /\ \A x \in s : WindowBefore(x, w)
      BY <2>3, <3>1, LastExists
    <3> HIDE DEF w
    <3>3. MergedFrom(g[s \ {w}], s \ {w})
      BY <1>3, <3>2
    <3>4. MergedFrom(MergeWindow(w, g[s \ {w}]), s)
      BY <3>1, <3>2, <3>3, MergeKeeps
    <3>5. g[s] = MergeWindow(w, g[s \ {w}])
      BY <2>1, <2>3 DEF w
    <3> QED BY <3>4, <3>5
  <2> QED BY <2>2, <2>3
<1> HIDE DEF good
<1>4. IsFiniteSet(W)
  BY <1>1
<1>5. \A s \in SUBSET W : s \in good
  BY <1>3, <1>4, Shrinking
<1>6. W \in good
  BY ONLY <1>5
<1>7. CoverageWindows(ev) = g[W]
  BY MergedIs DEF g, W
<1> QED BY <1>6, <1>7 DEF good, W

\* The share of t0 .. t1 - 1 that lies in some window of s.
SharedBy(s, t0, t1) == {t \in t0 .. (t1 - 1) : \E w \in s : Within(w, t)}

\* What windows that do not touch overlap adds up to the instants in them.
LEMMA CoveredIs ==
  ASSUME NEW M, NEW s, MergedFrom(M, s), NEW t0 \in Int, NEW t1 \in Int,
         NEW f, \A m \in M : f[m] = Whole(OverlapMs(m[1], m[2], t0, t1))
  PROVE  /\ TotalOn(f, M) = Whole(Cardinality(SharedBy(s, t0, t1)))
         /\ IsFiniteSet(SharedBy(s, t0, t1))
<1> DEFINE T == SharedBy(s, t0, t1)
           one == [t \in T |-> One]
           windowOf == [t \in T |-> CHOOSE m \in M : Within(m, t)]
<1>1. IsFiniteSet(T)
  <2>1. IsFiniteSet(t0 .. (t1 - 1))
    BY FS_Interval
  <2> QED BY <2>1, FS_Subset DEF SharedBy
<1>2. /\ IsFiniteSet(M) /\ \A m \in M : Window(m)
      /\ \A a, b \in M : a = b \/ a[2] < b[1] \/ b[2] < a[1]
      /\ \A t \in Int : (\E m \in M : Within(m, t)) <=> (\E w \in s : Within(w, t))
  BY DEF MergedFrom
<1>3. \A t \in T : t \in Int /\ t0 <= t /\ t < t1
  BY DEF SharedBy
<1>4. \A t \in T : one[t] \in Fractions /\ one[t] = One
  BY Constants
<1>5. \A t \in T : windowOf[t] \in M /\ Within(windowOf[t], t)
  <2> TAKE t \in T
  <2>1. \E m \in M : Within(m, t)
    BY <1>2, <1>3 DEF SharedBy
  <2> QED BY <2>1
<1>6. \A t \in T, m \in M : Within(m, t) => windowOf[t] = m
  <2> TAKE t \in T, m \in M
  <2> HAVE Within(m, t)
  <2> DEFINE n == windowOf[t]
  <2>1. n \in M /\ Within(n, t) /\ t \in Int
    BY <1>3, <1>5
  <2> HIDE DEF n
  <2>2. m[1] \in Int /\ m[2] \in Int /\ n[1] \in Int /\ n[2] \in Int
    BY <1>2, <2>1 DEF Window
  <2>3. ~ (n[2] < m[1]) /\ ~ (m[2] < n[1])
    BY <2>1, <2>2 DEF Within
  <2>4. n = m
    BY <1>2, <2>1, <2>3
  <2> QED BY <2>4 DEF n
<1>7. \A m \in M : f[m] = TotalOn(one, Class(T, windowOf, m))
  <2> TAKE m \in M
  <2> DEFINE low == IF t0 <= m[1] THEN m[1] ELSE t0
             high == IF m[2] <= t1 THEN m[2] ELSE t1
             C == Class(T, windowOf, m)
  <2>1. m[1] \in Int /\ m[2] \in Int
    BY <1>2 DEF Window
  <2>2. /\ low \in Int /\ high \in Int
        /\ \A t \in Int : low <= t /\ t < high <=> t0 <= t /\ t < t1 /\ Within(m, t)
    BY <2>1 DEF Within
  <2>3. OverlapMs(m[1], m[2], t0, t1) = (IF low <= high THEN high - low ELSE 0)
    BY <2>1, OverlapIs
  <2> HIDE DEF low, high, one, windowOf, T
  <2>4. C = low .. (high - 1)
    <3>1. ASSUME NEW t \in C PROVE t \in low .. (high - 1)
      <4>1. t \in T /\ Within(m, t)
        BY <1>5, <3>1 DEF Class
      <4> QED BY <1>3, <2>2, <4>1
    <3>2. ASSUME NEW t \in low .. (high - 1) PROVE t \in C
      <4>1. t \in Int /\ low <= t /\ t < high
        BY <2>2
      <4>2. t0 <= t /\ t < t1 /\ Within(m, t)
        BY <2>2, <4>1
      <4>3. \E w \in s : Within(w, t)
        BY <1>2, <4>1, <4>2
      <4>4. t \in T
        BY <4>1, <4>2, <4>3 DEF SharedBy, T
      <4> QED BY <1>6, <4>2, <4>4 DEF Class
    <3> QED BY <3>1, <3>2
  <2>5. IsFiniteSet(C) /\ Cardinality(C) = OverlapMs(m[1], m[2], t0, t1)
    <3> DEFINE top == high - 1
    <3>1. top \in Int
      BY <2>2
    <3>2. IsFiniteSet(low .. top) /\ Cardinality(low .. top) = IF low > top THEN 0 ELSE top - low + 1
      BY <2>2, <3>1, FS_Interval
    <3> HIDE DEF C
    <3>3. (IF low > top THEN 0 ELSE top - low + 1) = (IF low <= high THEN high - low ELSE 0)
      BY <2>2
    <3> QED BY <2>3, <2>4, <3>2, <3>3
  <2>6. \A t \in C : one[t] = One
    BY <1>4 DEF Class
  <2> HIDE DEF C
  <2>7. TotalOn(one, C) = Times(Whole(Cardinality(C)), One)
    BY <2>5, <2>6, Constants, TotalConstant
  <2>8. Cardinality(C) \in Int
    BY <2>5, FS_CardinalityType
  <2>9. TotalOn(one, C) = Whole(Cardinality(C))
    BY <2>7, <2>8, Wholes, TimesUnits
  <2> QED BY <2>5, <2>9 DEF C
<1> HIDE DEF T, one, windowOf
<1>8. TotalOn(f, M) = TotalOn(one, T)
  <2>1. \A t \in T : one[t] \in Fractions /\ windowOf[t] \in M
    BY <1>4, <1>5
  <2>2. IsFiniteSet(M)
    BY <1>2
  <2> QED BY ONLY <1>1, <2>1, <2>2, <1>7, TotalByClass
<1>9. TotalOn(one, T) = Times(Whole(Cardinality(T)), One)
  BY <1>1, <1>4, Constants, TotalConstant
<1>10. Cardinality(T) \in Int
  BY <1>1, FS_CardinalityType
<1> QED BY <1>1, <1>8, <1>9, <1>10, Wholes, TimesUnits DEF T

\* A count out of a span of time needs no clamping.
LEMMA RatioIs ==
  ASSUME NEW n \in Nat, NEW d \in Positive, n <= d
  PROVE  Clamp(Over(Whole(n), Whole(d))) = Frac(n, d)
<1> DEFINE q == Frac(n, d)
           r == Over(Whole(n), Whole(d))
<1>1. q \in Fractions /\ Stands(q, n, d) /\ q \in Amounts
  BY FracIs, FracIsAmount
<1>2. r \in Fractions /\ Stands(r, n * 1, 1 * d)
  BY Wholes, OnePositive, OverStands DEF Positive
<1>3. n * 1 = n /\ 1 * d = d
  BY DEF Positive
<1>4. r = q
  <2> HIDE DEF q, r
  <2> QED BY <1>1, <1>2, <1>3, StandUnique
<1> HIDE DEF q, r
<1>5. AtMost(q, One)
  <2>1. AtMost(q, One) <=> n * 1 <= 1 * d
    BY <1>1, Constants, OnePositive, AtMostStands
  <2> QED BY <1>3, <2>1
<1>6. Clamp(q) = q
  BY <1>1, <1>5, Constants, AtMostOrders, ClampIs
<1> QED BY <1>4, <1>6 DEF q, r

LEMMA CoverageOf ==
  ASSUME NEW ev, Stored(ev), NEW t0 \in Int, NEW t1 \in Int, t0 < t1
  PROVE  Clamp(CoverageFraction(CoverageWindows(ev), t0, t1)) =
            Frac(Cardinality(SharedBy(SampleWindows(ev), t0, t1)), t1 - t0)
<1> DEFINE M == CoverageWindows(ev)
           f == [w \in M |-> Whole(OverlapMs(w[1], w[2], t0, t1))]
           n == Cardinality(SharedBy(SampleWindows(ev), t0, t1))
           q == Over(Whole(n), Whole(t1 - t0))
<1>1. MergedFrom(M, SampleWindows(ev))
  BY MergedWindows
<1>2. \A m \in M : f[m] = Whole(OverlapMs(m[1], m[2], t0, t1))
  OBVIOUS
<1>3. CoverageFraction(M, t0, t1) = Clamp(Over(TotalOn(f, M), Whole(t1 - t0)))
  <2>1. ~ (t1 <= t0)
    OBVIOUS
  <2> QED BY <2>1 DEF CoverageFraction, Total
<1> HIDE DEF M, f
<1>4. TotalOn(f, M) = Whole(n) /\ IsFiniteSet(SharedBy(SampleWindows(ev), t0, t1))
  BY <1>1, <1>2, CoveredIs
<1>5. n \in Nat /\ n <= t1 - t0 /\ t1 - t0 \in Positive
  <2> DEFINE top == t1 - 1
  <2>1. top \in Int /\ t1 - t0 \in Positive
    BY DEF Positive
  <2>2. IsFiniteSet(t0 .. top) /\ Cardinality(t0 .. top) = IF t0 > top THEN 0 ELSE top - t0 + 1
    BY <2>1, FS_Interval
  <2>3. SharedBy(SampleWindows(ev), t0, t1) \subseteq t0 .. top
    BY DEF SharedBy
  <2>4. n <= Cardinality(t0 .. top) /\ n \in Nat
    BY <1>4, <2>2, <2>3, FS_Subset, FS_CardinalityType
  <2>5. Cardinality(t0 .. top) = t1 - t0
    BY <2>2
  <2> QED BY <2>1, <2>4, <2>5
<1> HIDE DEF n
<1>6. Clamp(q) = Frac(n, t1 - t0) /\ Frac(n, t1 - t0) \in Amounts
  BY <1>5, RatioIs, FracIsAmount
<1>7. Clamp(Clamp(q)) = Clamp(q)
  <2> DEFINE c == Clamp(q)
  <2>1. c \in Amounts
    BY <1>6
  <2>2. c = One \/ ~ AtMost(One, c)
    <3>1. q \in Amounts
      BY <1>5, WholeIsAmount, OverIsAmount DEF Positive
    <3> HIDE DEF q
    <3>2. c = IF AtMost(One, q) THEN One ELSE q
      BY <3>1, ClampIs
    <3> HIDE DEF c
    <3> QED BY <3>2
  <2> HIDE DEF c
  <2>3. Clamp(c) = c
    BY <2>1, <2>2, ClampIs
  <2> QED BY <2>3 DEF c
<1> QED BY <1>3, <1>4, <1>6, <1>7 DEF n, M

-----------------------------------------------------------------------------
(* Coverage is the union of the samples *)

LEMMA FiniteMin ==
  ASSUME NEW S \in SUBSET Int, IsFiniteSet(S), S # {}
  PROVE  Min(S) \in S
<1> DEFINE N == {0 - x : x \in S}
           f == [x \in S |-> 0 - x]
<1>1. N \in SUBSET Int /\ N # {}
  <2>1. \A x \in S : 0 - x \in Int
    OBVIOUS
  <2> QED BY <2>1
<1>2. IsFiniteSet(N)
  <2>1. \A y \in N : \E x \in S : f[x] = y
    OBVIOUS
  <2> HIDE DEF N, f
  <2> QED BY <2>1, FiniteImage
<1>3. Max(N) \in N /\ \A y \in N : y <= Max(N)
  <2> HIDE DEF N
  <2> QED BY <1>1, <1>2, FiniteMax
<1> DEFINE top == Max(N)
<1> HIDE DEF top
<1>4. PICK m \in S : top = 0 - m
  BY <1>3 DEF top
<1>5. \A x \in S : m <= x
  <2> TAKE x \in S
  <2>1. 0 - x <= 0 - m
    BY <1>3, <1>4 DEF top
  <2> QED BY <2>1
<1> QED BY <1>5, MinIs

LEMMA UnitTimes ==
  ASSUME NEW ev, Stored(ev)
  PROVE  /\ ev # {} => SessionStart(ev) \in Int /\ SessionEnd(ev) \in Int
         /\ \A spans \in SUBSET Attributable(ev) : spans # {} =>
               UnitStart(spans) \in Int /\ UnitEnd(spans) \in Int
<1>1. ASSUME ev # {} PROVE SessionStart(ev) \in Int /\ SessionEnd(ev) \in Int
  <2> DEFINE S == {e.ts : e \in ev}
             f == [e \in ev |-> e.ts]
  <2>1. S \in SUBSET Int /\ S # {} /\ \A y \in S : \E e \in ev : f[e] = y
    BY <1>1, CatalogAssumption DEF Stored
  <2>2. IsFiniteSet(ev)
    BY DEF Stored
  <2>3. IsFiniteSet(S)
    <3> HIDE DEF S, f
    <3> QED BY <2>1, <2>2, FiniteImage, ZenonT(30)
  <2>4. Min(S) \in Int /\ Max(S) \in Int
    <3> HIDE DEF S
    <3> QED BY <2>1, <2>3, FiniteMin, FiniteMax
  <2> QED BY <2>4 DEF SessionStart, SessionEnd
<1>2. ASSUME NEW spans \in SUBSET Attributable(ev), spans # {}
      PROVE  UnitStart(spans) \in Int /\ UnitEnd(spans) \in Int
  <2> DEFINE S == {s.t0 : s \in spans}
             T == {s.t1 : s \in spans}
             f == [s \in spans |-> s.t0]
             g == [s \in spans |-> s.t1]
  <2>1. \A s \in spans : s.t0 \in Int /\ s.t1 \in Int
    BY Instants DEF Attributable
  <2>2. S \in SUBSET Int /\ S # {} /\ \A y \in S : \E s \in spans : f[s] = y
    BY <1>2, <2>1
  <2>3. T \in SUBSET Int /\ T # {} /\ \A y \in T : \E s \in spans : g[s] = y
    BY <1>2, <2>1
  <2>4. IsFiniteSet(spans)
    BY FiniteParts, FS_Subset
  <2>5. IsFiniteSet(S) /\ IsFiniteSet(T)
    <3> HIDE DEF S, T, f, g
    <3>1. IsFiniteSet(S)
      BY <2>2, <2>4, FiniteImage, ZenonT(30)
    <3>2. IsFiniteSet(T)
      BY <2>3, <2>4, FiniteImage, ZenonT(30)
    <3> QED BY <3>1, <3>2
  <2>6. Min(S) \in Int /\ Max(T) \in Int
    <3> HIDE DEF S, T
    <3> QED BY <2>2, <2>3, <2>5, FiniteMin, FiniteMax
  <2> QED BY <2>6 DEF UnitStart, UnitEnd
<1> QED BY <1>1, <1>2

\* What is published for a unit, whether or not anything measured.
CoveredLike(ev, unit) ==
  unit.t0 < unit.t1 =>
    unit.local.coverage =
      Frac(Cardinality({t \in unit.t0 .. (unit.t1 - 1) : \E e \in EnergySamples(ev) : e.t0 <= t /\ t < e.t1}),
           unit.t1 - unit.t0)

LEMMA UnitIsCovered ==
  ASSUME NEW ev, Stored(ev), NEW unit, unit.t0 \in Int, unit.t1 \in Int,
         EnergyMeasured(ev) =>
           unit.local.coverage = Clamp(CoverageFraction(CoverageWindows(ev), unit.t0, unit.t1)),
         ~ EnergyMeasured(ev) => unit.local.coverage = Clamp(Zero)
  PROVE  CoveredLike(ev, unit)
<1> DEFINE t0 == unit.t0
           t1 == unit.t1
           W == SampleWindows(ev)
           T == {t \in t0 .. (t1 - 1) : \E e \in EnergySamples(ev) : e.t0 <= t /\ t < e.t1}
<1> SUFFICES ASSUME t0 < t1
             PROVE  unit.local.coverage = Frac(Cardinality(T), t1 - t0)
  BY DEF CoveredLike
<1>1. t0 \in Int /\ t1 \in Int /\ t1 - t0 \in Positive
  BY DEF Positive
<1>2. T = SharedBy(W, t0, t1)
  <2>1. \A t \in Int : (\E w \in W : Within(w, t)) <=> (\E e \in EnergySamples(ev) : e.t0 <= t /\ t < e.t1)
    <3> TAKE t \in Int
    <3>1. ASSUME NEW e \in EnergySamples(ev), e.t0 <= t /\ t < e.t1 PROVE \E w \in W : Within(w, t)
      <4>1. e.t0 \in Int /\ e.t1 \in Int
        BY Instants
      <4>2. ~ Degenerate(e)
        BY <3>1, <4>1 DEF Degenerate
      <4>3. <<e.t0, e.t1>> \in W
        BY <4>2 DEF SampleWindows
      <4>4. Within(<<e.t0, e.t1>>, t)
        BY <3>1 DEF Within
      <4> QED BY <4>3, <4>4
    <3>2. ASSUME NEW w \in W, Within(w, t)
          PROVE  \E e \in EnergySamples(ev) : e.t0 <= t /\ t < e.t1
      BY <3>2 DEF SampleWindows, Within
    <3> QED BY <3>1, <3>2
  <2>2. \A t \in t0 .. (t1 - 1) : t \in Int
    OBVIOUS
  <2> HIDE DEF t0, t1, W
  <2> QED BY <2>1, <2>2 DEF SharedBy
<1>3. CASE EnergyMeasured(ev)
  <2> HIDE DEF T, W
  <2>1. Clamp(CoverageFraction(CoverageWindows(ev), t0, t1)) = Frac(Cardinality(SharedBy(W, t0, t1)), t1 - t0)
    BY <1>1, CoverageOf DEF W
  <2> QED BY <1>2, <1>3, <2>1
<1>4. CASE ~ EnergyMeasured(ev)
  <2>1. T = {}
    BY <1>4 DEF EnergyMeasured
  <2>2. Cardinality(T) = 0
    BY <2>1, FS_EmptySet
  <2>3. Clamp(Zero) = Zero
    BY Constants, AtMostOrders DEF Clamp
  <2>4. Zero = Frac(0, t1 - t0)
    <3> DEFINE d == t1 - t0
    <3>1. d \in Positive
      BY <1>1
    <3> HIDE DEF d
    <3>2. Frac(0, d) \in Fractions /\ Stands(Frac(0, d), 0, d)
      BY <3>1, FracIs
    <3>3. Zero \in Fractions /\ Stands(Zero, 0, d)
      <4>1. Zero[1] = 0 /\ Zero[2] = 1 /\ 0 * d = 0 * 1
        BY <3>1 DEF Zero, Positive
      <4> QED BY <4>1, Constants DEF Stands
    <3>4. Zero = Frac(0, d)
      BY <3>1, <3>2, <3>3, StandUnique
    <3> QED BY <3>4 DEF d
  <2> HIDE DEF T
  <2> QED BY <1>4, <2>2, <2>3, <2>4
<1> QED BY <1>3, <1>4

LEMMA CoverageWhole == ASSUME JoinInv PROVE CoverageIsUnion
<1> SUFFICES ASSUME events # {}, NEW u \in Units PROVE CoveredLike(events, u)
  BY DEF CoverageIsUnion, CoveredLike, Measured
<1>1. Stored(events) /\ app = Apportion(events)
  BY DEF JoinInv
<1> DEFINE t0 == SessionStart(events)
           t1 == SessionEnd(events)
<1>2. joins = BuildJoins(events, estimates, app, t0, t1)
  BY DEF JoinInv
<1>3. t0 \in Int /\ t1 \in Int
  BY <1>1, UnitTimes
<1> HIDE DEF t0, t1
<1>4. /\ joins.session = SessionJoin(events, estimates, app, t0, t1)
      /\ joins.tool_call = ToolCalls(events, estimates, app)
      /\ joins.task = Tasks(events, estimates, app)
  BY <1>2, JoinsAre
<1>5. ASSUME NEW spans \in SUBSET Attributable(events), spans # {}, NEW calls,
             NEW unit, unit = SpanGroupJoin(events, estimates, app, spans, calls)
      PROVE  CoveredLike(events, unit)
  <2>1. /\ unit.t0 = UnitStart(spans) /\ unit.t1 = UnitEnd(spans)
        /\ EnergyMeasured(events) =>
             unit.local.coverage = Clamp(CoverageFraction(CoverageWindows(events), unit.t0, unit.t1))
        /\ ~ EnergyMeasured(events) => unit.local.coverage = Clamp(Zero)
    BY <1>1, <1>5, GroupIs
  <2>2. unit.t0 \in Int /\ unit.t1 \in Int
    BY <1>1, <1>5, <2>1, UnitTimes
  <2> QED BY <1>1, <2>1, <2>2, UnitIsCovered
<1>6. CASE u = joins.session
  <2>1. /\ u.t0 = t0 /\ u.t1 = t1
        /\ EnergyMeasured(events) => u.local.coverage = Clamp(CoverageFraction(CoverageWindows(events), t0, t1))
        /\ ~ EnergyMeasured(events) => u.local.coverage = Clamp(Zero)
    BY <1>1, <1>4, <1>6, SessionIs
  <2> QED BY <1>1, <1>3, <2>1, UnitIsCovered
<1>7. CASE u \in Range(joins.tool_call)
  <2>1. PICK id \in SpanIds(Attributable(events)) : u = ToolCallJoin(events, estimates, app, id)
    BY <1>4, <1>7 DEF Range, ToolCalls
  <2> DEFINE spans == SpanEventsOf(events, id)
  <2>2. spans \in SUBSET Attributable(events) /\ spans # {}
    BY DEF SpanEventsOf, SpanIds
  <2>3. \E C : u = SpanGroupJoin(events, estimates, app, spans, C)
    BY <2>1 DEF ToolCallJoin
  <2> HIDE DEF spans
  <2> QED BY <1>5, <2>2, <2>3
<1>8. CASE u \in Range(joins.task)
  <2>1. PICK task \in TaskIds(events) : u = TaskJoin(events, estimates, app, task)
    BY <1>4, <1>8 DEF Range, Tasks
  <2> DEFINE spans == {s \in Attributable(events) : s.task = task}
  <2>2. spans \in SUBSET Attributable(events) /\ spans # {}
    BY DEF TaskIds
  <2>3. \E C : u = SpanGroupJoin(events, estimates, app, spans, C)
    BY <2>1 DEF TaskJoin
  <2> HIDE DEF spans
  <2> QED BY <1>5, <2>2, <2>3
<1> QED BY <1>6, <1>7, <1>8 DEF Units

\* The coverage of every unit is the share of its instants at which some
\* sample was measuring, however the samples overlap
\* (energy_coverage_windows, coverage_fraction).
THEOREM CoverageIsTheUnion == JoinSpec => []CoverageIsUnion
<1>1. JoinInv => CoverageIsUnion
  BY CoverageWhole
<1> QED BY <1>1, JoinsAreCurrent, PTL
=============================================================================
