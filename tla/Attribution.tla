---------------------------- MODULE Attribution ----------------------------
(***************************************************************************)
(* How the measured joules of a session are divided over its tool calls:   *)
(* crates/af-core/src/correlate.rs and attribution.rs.                     *)
(*                                                                         *)
(* A session's stored events are a set of records, told apart by .id (the  *)
(* event id the store deduplicates on):                                    *)
(*   kind "span":   span (span_id), t0, t1, locus, pids, boot (tool_name   *)
(*                  is __session__), task, call (attribution ids)          *)
(*   kind "energy": t0, t1, parts (a sequence of <<component kind, J>>)    *)
(*   kind "proc":   t0, t1, rows (records [row, pid, cpu, orphan])         *)
(*   kind "llm":    ts, task, call                                         *)
(* .parsed says whether the event's timestamps are RFC 3339.  Instants and *)
(* cpu times are milliseconds; an absent id is None.                       *)
(***************************************************************************)
EXTENDS Fractions, FiniteSetsExt, Sequences

CONSTANT None

OfKind(ev, k) == {e \in ev : e.kind = k}
Unparsed(ev, k) == {e \in OfKind(ev, k) : ~e.parsed}

----------------------------------------------------------------------------
(* correlate.rs *)

Spans(ev) == {e \in OfKind(ev, "span") : e.parsed}

(* The agent's own process tree, from the bootstrap spans. *)
RootPids(ev) == UNION {s.pids : s \in {x \in Spans(ev) : x.boot}}

IsAttributable(s) == s.t1 > s.t0 /\ s.locus # "remote"
Overlaps(s, t0, t1) == s.t0 < t1 /\ s.t1 > t0

Attributable(ev) == {s \in Spans(ev) : IsAttributable(s)}
RemoteSpans(ev) == {s \in Spans(ev) : s.locus = "remote"}
DegenerateSpans(ev) ==
    {s \in Spans(ev) : s.locus # "remote" /\ s.t1 <= s.t0 /\ ~s.boot}

----------------------------------------------------------------------------
(* attribution.rs *)

OverlapMs(a0, a1, b0, b1) == Max({0, Min({a1, b1}) - Max({a0, b0})})

(* An event that names its own pids owns exactly those; one that names     *)
(* none inherits the session's root tree.                                  *)
ClaimsPid(s, pid, root) == IF s.pids = {} THEN pid \in root ELSE pid \in s.pids

(* The total component when the collector sent one, else the sum. *)
SampleEnergy(e) ==
    LET totals  == {i \in DOMAIN e.parts : e.parts[i][1] = "total"}
        counted == IF totals = {} THEN DOMAIN e.parts ELSE totals
    IN  Total([i \in counted |-> Whole(e.parts[i][2])])

(* The process samples that can weigh anything: parsed, of positive length. *)
ProcWindows(ev) == {w \in OfKind(ev, "proc") : w.parsed /\ w.t1 > w.t0}

SkippedEvents(ev) ==
    Cardinality(Unparsed(ev, "span") \cup Unparsed(ev, "energy")
                \cup (OfKind(ev, "proc") \ ProcWindows(ev)))

EnergySamples(ev) == {e \in OfKind(ev, "energy") : e.parsed}
Degenerate(smp) == smp.t1 <= smp.t0
Active(ev, smp) == {s \in Attributable(ev) : Overlaps(s, smp.t0, smp.t1)}
Covering(ev, smp) == {w \in ProcWindows(ev) : OverlapMs(w.t0, w.t1, smp.t0, smp.t1) > 0}

(* One pid of one process window: the longest delta any of its rows saw,   *)
(* scaled to the part of the window inside the sample, split equally over  *)
(* its claimants and, if a row is orphan-tagged or nobody claims it, the   *)
(* orphan bucket.                                                          *)
PidRows(w, pid) == {r \in w.rows : r.pid = pid}
PidCpuSummed(w, pid, smp) ==
    Frac(MapThenSumSet(LAMBDA r : r.cpu, PidRows(w, pid)) * OverlapMs(w.t0, w.t1, smp.t0, smp.t1),
         w.t1 - w.t0)
PidCpu(w, pid, smp) ==
    Frac(Max({0} \cup {r.cpu : r \in PidRows(w, pid)}) * OverlapMs(w.t0, w.t1, smp.t0, smp.t1),
         w.t1 - w.t0)
Claimants(ev, pid, smp) == {s \in Active(ev, smp) : ClaimsPid(s, pid, RootPids(ev))}
ToOrphan(ev, w, pid, smp) ==
    (\E r \in PidRows(w, pid) : r.orphan) \/ Claimants(ev, pid, smp) = {}
PidShare(ev, w, pid, smp) ==
    Over(PidCpu(w, pid, smp),
         Whole(Cardinality(Claimants(ev, pid, smp)) + IF ToOrphan(ev, w, pid, smp) THEN 1 ELSE 0))

(* The <<window, pid>> pairs of a sample, the claims <<pair, span event>>  *)
(* laid on them, and the weights summed over them.                         *)
WindowPids(ev, smp) ==
    UNION {{<<w, r.pid>> : r \in w.rows} : w \in Covering(ev, smp)}
Claims(ev, smp) ==
    {c \in WindowPids(ev, smp) \X Active(ev, smp) : c[2] \in Claimants(ev, c[1][2], smp)}
SpanWeight(ev, smp, id) ==
    Total([c \in {x \in Claims(ev, smp) : x[2].span = id} |->
              PidShare(ev, c[1][1], c[1][2], smp)])
OrphanWeight(ev, smp) ==
    Total([wp \in {x \in WindowPids(ev, smp) : ToOrphan(ev, x[1], x[2], smp)} |->
              PidShare(ev, wp[1], wp[2], smp)])
RootWeight(ev, smp) ==
    Total([wp \in {x \in WindowPids(ev, smp) : x[2] \in RootPids(ev)} |->
              PidCpu(wp[1], wp[2], smp)])

(* What run() does with one parsed sample.  policy None: nothing is        *)
(* divided and the whole sample is baseline.                               *)
SpanIds(S) == {s.span : s \in S}
PolicyOf(ev, smp) ==
    CASE Degenerate(smp) -> None
      [] ~Degenerate(smp) /\ Covering(ev, smp) # {} ->
            IF Active(ev, smp) = {} /\ AtMost(OrphanWeight(ev, smp), Zero)
            THEN None ELSE "l2_cpu_time"
      [] OTHER -> IF Active(ev, smp) = {} THEN None ELSE "l1_wall_clock"

(* L2: W cpu-ms against the C wall-ms of one core, never more than all of  *)
(* the sample: E * min(1, W / C) * w / W.                                  *)
CpuTimeScaleUncapped(smp, W) == Over(SampleEnergy(smp), Whole(smp.t1 - smp.t0))
CpuTimeScale(smp, W) ==
    LET C == Whole(smp.t1 - smp.t0)
    IN  IF AtMost(W, Zero) THEN Zero
        ELSE Over(SampleEnergy(smp), IF AtMost(W, C) THEN C ELSE W)
CpuTimePay(ev, smp) ==
    LET ids    == SpanIds(Active(ev, smp))
        weight == [id \in ids |-> SpanWeight(ev, smp, id)]
        orphan == OrphanWeight(ev, smp)
        scale  == CpuTimeScale(smp, Plus(Total(weight), orphan))
    IN  [spans |-> [id \in ids |-> Times(scale, weight[id])],
         orphan |-> Times(scale, orphan)]

(* L1: the share of the window each event overlaps, scaled down when the   *)
(* shares claim more than the window.                                      *)
WallClockShare(s, smp) == Frac(OverlapMs(s.t0, s.t1, smp.t0, smp.t1), smp.t1 - smp.t0)
WallClockScaleByCount(smp, active) ==
    Over(SampleEnergy(smp), Whole(Max({1, Cardinality(active)})))
WallClockScale(smp, active) ==
    LET claimed == Total([s \in active |-> WallClockShare(s, smp)])
    IN  Over(SampleEnergy(smp), IF AtMost(claimed, One) THEN One ELSE claimed)
WallClockPay(ev, smp) ==
    LET active == Active(ev, smp)
        scale  == WallClockScale(smp, active)
        Of(id) == {s \in active : s.span = id}
    IN  [spans |-> [id \in SpanIds(active) |->
                       Times(scale, Total([s \in Of(id) |-> WallClockShare(s, smp)]))],
         orphan |-> Zero]

\* What one parsed sample pays, and under which policy.
Pay(ev, smp) ==
    LET policy == PolicyOf(ev, smp)
        paid   == CASE policy = "l2_cpu_time"   -> CpuTimePay(ev, smp)
                    [] policy = "l1_wall_clock" -> WallClockPay(ev, smp)
                    [] OTHER -> [spans |-> [id \in {} |-> Zero], orphan |-> Zero]
    IN  [policy |-> policy, spans |-> paid.spans, orphan |-> paid.orphan]

PaidTo(pay, id) == IF id \in DOMAIN pay.spans THEN pay.spans[id] ELSE Zero

(* The SampleTrace: one row for each overlapping event, remote ones with   *)
(* nothing, what was left as baseline, and for comparison the agent tree's *)
(* cpu time and the sum of the L1 shares.                                  *)
Trace(ev, smp, pay) ==
    LET paid == Plus(Total(pay.spans), pay.orphan)
        seen == IF Degenerate(smp) THEN {} ELSE {s \in RemoteSpans(ev) : Overlaps(s, smp.t0, smp.t1)}
        rows == IF pay.policy = None THEN {} ELSE Active(ev, smp)
    IN  [policy   |-> pay.policy,
         root     |-> IF Degenerate(smp) THEN Zero ELSE RootWeight(ev, smp),
         shadow   |-> Total([s \in rows |-> WallClockShare(s, smp)]),
         total    |-> SampleEnergy(smp),
         rows     |-> {[event |-> s.id, joules |-> Zero, excluded |-> TRUE] : s \in seen}
                      \cup {[event |-> s.id, joules |-> PaidTo(pay, s.span), excluded |-> FALSE]
                               : s \in rows},
         orphaned |-> pay.orphan,
         baseline |-> Minus(SampleEnergy(smp), paid)]

(* The Apportionment of a session, its traces by event id. *)
Apportion(ev) ==
    LET smps   == EnergySamples(ev)
        pay    == [smp \in smps |-> Pay(ev, smp)]
        trace  == [smp \in smps |-> Trace(ev, smp, pay[smp])]
        ids    == UNION {DOMAIN pay[smp].spans : smp \in smps}
        Under(policy) == Cardinality({smp \in smps : pay[smp].policy = policy})
        Crossed(S) == SpanIds({s \in S : \E smp \in smps :
                                  ~Degenerate(smp) /\ Overlaps(s, smp.t0, smp.t1)})
    IN  [per_span      |-> [id \in ids |-> Total([smp \in smps |-> PaidTo(pay[smp], id)])],
         orphaned      |-> Total([smp \in smps |-> pay[smp].orphan]),
         baseline_idle |-> Total([smp \in smps |-> trace[smp].baseline]),
         traces        |-> [id \in {smp.id : smp \in smps} |->
                              trace[CHOOSE smp \in smps : smp.id = id]],
         l2            |-> Under("l2_cpu_time"),
         l1            |-> Under("l1_wall_clock"),
         skipped       |-> SkippedEvents(ev),
         remote        |-> Cardinality(Crossed(RemoteSpans(ev))),
         degenerate    |-> Cardinality(Crossed(DegenerateSpans(ev))),
         degenerate_samples |-> Cardinality({smp \in smps : Degenerate(smp)}),
         unobserved    |-> Cardinality({smp \in smps :
                              /\ ~Degenerate(smp)
                              /\ Covering(ev, smp) # {}
                              /\ \A w \in Covering(ev, smp) : w.rows = {}})]

SpanJ(app, id) == IF id \in DOMAIN app.per_span THEN app.per_span[id] ELSE Zero
AppliedPolicy(app) == IF app.l2 > 0 THEN "l2_cpu_time"
                      ELSE IF app.l1 > 0 THEN "l1_wall_clock" ELSE None
=============================================================================
