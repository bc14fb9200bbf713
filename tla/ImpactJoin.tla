----------------------------- MODULE ImpactJoin -----------------------------
(***************************************************************************)
(* The impact joins of one session (crates/af-core/src/join.rs), as its    *)
(* events and estimates come into the store in any order.  The joins are a *)
(* function of the two, rebuilt after every change (rebuild_derived).      *)
(*                                                                         *)
(* An estimate is [status, region, impacts]; impacts is None or a function *)
(* from the criteria the estimator reported to [unit, min, max].  One unit *)
(* of energy stands for a joule locally and for a "kWh" remotely: the      *)
(* constant between them is dropped.                                       *)
(***************************************************************************)
EXTENDS Attribution, Folds, Functions

CONSTANTS
    Catalog,       \* the events that may be collected for the session
    Answers,       \* the estimates the estimator may return for a call
    ZoneGwp,       \* the zone's [min, max] gwp factor, or None
    RemoteRegion,  \* the explicit remote region override, or None
    MaxEvents      \* bound: how many events the session gets

(* An id is one event's, and ids are in the store's order.  Instants are    *)
(* whole milliseconds; joules and cpu times are never negative              *)
(* (schemas/v0.1/events.schema.json).                                       *)
ASSUME CatalogAssumption ==
    /\ \A e, f \in Catalog : e.id = f.id => e = f
    /\ \A e \in Catalog :
          /\ e.id \in Int /\ e.ts \in Int
          /\ e.kind \in {"span", "energy", "proc"} /\ e.parsed => e.t0 \in Int /\ e.t1 \in Int
          /\ e.kind = "energy" => e.parts \in Seq(STRING \X Nat)
          /\ e.kind = "proc" => IsFiniteSet(e.rows) /\ \A r \in e.rows : r.cpu \in Nat

\* No value of a join is mistaken for an absent one.
ASSUME NoneAssumption == None \notin Int \X Int /\ None \notin {"l2_cpu_time", "l1_wall_clock"}

VARIABLES
    events,        \* the session's stored raw events
    estimates,     \* stored estimate blobs, a function on event ids
    app,           \* the Apportionment of the last rebuild
    joins          \* the joins it wrote; None before the first

joinVars == <<events, estimates, app, joins>>

Criteria == {"energy", "gwp"}

----------------------------------------------------------------------------
(* Energy coverage *)

(* The windows of the samples of positive length, and what is left of them *)
(* when each, in sorted order, is pushed or widens the last one pushed.     *)
SampleWindows(ev) == {<<e.t0, e.t1>> : e \in {x \in EnergySamples(ev) : ~Degenerate(x)}}
WindowBefore(a, b) == a[1] < b[1] \/ (a[1] = b[1] /\ a[2] <= b[2])
LastWindow(windows) == CHOOSE w \in windows : \A x \in windows : WindowBefore(x, w)
MergeWindow(w, merged) ==
    LET last == LastWindow(merged)
    IN  IF merged # {} /\ w[1] <= last[2]
        THEN (merged \ {last}) \cup {<<last[1], Max({last[2], w[2]})>>}
        ELSE merged \cup {w}
CoverageWindows(ev) ==
    MapThenFoldSet(MergeWindow, {}, LAMBDA w : w, LastWindow, SampleWindows(ev))

Clamp(f) == IF AtMost(f, Zero) THEN Zero ELSE IF AtMost(One, f) THEN One ELSE f

CoverageFraction(windows, t0, t1) ==
    IF t1 <= t0 THEN Zero
    ELSE LET covered == Total([w \in windows |-> Whole(OverlapMs(w[1], w[2], t0, t1))])
         IN  Clamp(Over(covered, Whole(t1 - t0)))

EnergyMeasured(ev) == EnergySamples(ev) # {}

----------------------------------------------------------------------------
(* The remote half *)

LlmCalls(ev) == OfKind(ev, "llm")

EstimateOf(es, c) == IF c.id \in DOMAIN es THEN es[c.id] ELSE None
StatusOf(es, c) == IF EstimateOf(es, c) = None THEN "pending" ELSE EstimateOf(es, c).status
IsSummable(es, c) == StatusOf(es, c) = "ok" /\ EstimateOf(es, c).impacts # None

(* The sum of one criterion over the calls whose estimates report it, in    *)
(* (ts, event id) order: one in another unit than the first is counted and  *)
(* not added.                                                               *)
Earlier(a, b) == a.ts < b.ts \/ (a.ts = b.ts /\ a.id <= b.id)
Reporting(name, es, calls) == {c \in calls : name \in DOMAIN es[c.id].impacts}
SumAnyUnit(name, es, calls) ==
    LET reported == [c \in Reporting(name, es, calls) |-> es[c.id].impacts[name]]
        first    == CHOOSE c \in DOMAIN reported : \A x \in DOMAIN reported : Earlier(c, x)
    IN  [unit |-> reported[first].unit,
         min  |-> Total([c \in DOMAIN reported |-> Whole(reported[c].min)]),
         max  |-> Total([c \in DOMAIN reported |-> Whole(reported[c].max)]),
         contributors |-> Cardinality(DOMAIN reported),
         mismatches   |-> 0]
SumCriterion(name, es, calls) ==
    LET reported == [c \in Reporting(name, es, calls) |-> es[c.id].impacts[name]]
        first    == CHOOSE c \in DOMAIN reported : \A x \in DOMAIN reported : Earlier(c, x)
        added    == {c \in DOMAIN reported : reported[c].unit = reported[first].unit}
    IN  [unit |-> reported[first].unit,
         min  |-> Total([c \in added |-> Whole(reported[c].min)]),
         max  |-> Total([c \in added |-> Whole(reported[c].max)]),
         contributors |-> Cardinality(added),
         mismatches   |-> Cardinality(DOMAIN reported \ added)]

RemoteEstimated(es, calls) ==
    LET summable == {c \in calls : IsSummable(es, c)}
        sums     == [name \in {n \in Criteria : Reporting(n, es, summable) # {}} |->
                        SumCriterion(name, es, summable)]
        shown    == {n \in DOMAIN sums : sums[n].mismatches = 0}
    IN  [calls    |-> Cardinality(calls),
         statuses |-> [s \in {StatusOf(es, c) : c \in calls} |->
                         Cardinality({c \in calls : StatusOf(es, c) = s})],
         stale    |-> IF RemoteRegion = None THEN 0
                      ELSE Cardinality({c \in calls :
                              EstimateOf(es, c) # None
                              /\ EstimateOf(es, c).region \notin {None, RemoteRegion}}),
         complete |-> summable = calls,
         impacts  |-> Restrict(sums, shown),
         mismatches |-> DOMAIN sums \ shown,
         totals   |-> Restrict(sums, {n \in shown :
                                         sums[n].contributors = Cardinality(summable)})]

----------------------------------------------------------------------------
(* The local half and the combined total *)

LocalMeasured(joules, coverage) ==
    [energy   |-> joules,
     gwp      |-> IF joules = None \/ ZoneGwp = None THEN None
                  ELSE [min |-> Times(joules, Whole(ZoneGwp.min)),
                        max |-> Times(joules, Whole(ZoneGwp.max))],
     coverage |-> Clamp(coverage)]

(* The remote range of a criterion, where it is whole and in the wanted     *)
(* unit; a unit without any call contributes an exact zero.                 *)
RemoteIsKnown(remote, name, unit) ==
    IF name \in DOMAIN remote.totals THEN remote.totals[name].unit = unit ELSE remote.calls = 0
RemoteRange(remote, name) ==
    IF name \in DOMAIN remote.totals
    THEN [min |-> remote.totals[name].min, max |-> remote.totals[name].max]
    ELSE [min |-> Zero, max |-> Zero]

AddRanges(low, high, range) == [min |-> Plus(low, range.min), max |-> Plus(high, range.max)]

CombinedTotal(local, remote, noLocalEnergy) ==
    LET ready(part, name, unit) ==
            /\ ~noLocalEnergy /\ remote.complete
            /\ part # None /\ RemoteIsKnown(remote, name, unit)
    IN  [energy |-> IF ready(local.energy, "energy", "kWh")
                    THEN AddRanges(local.energy, local.energy, RemoteRange(remote, "energy"))
                    ELSE None,
         gwp    |-> IF ready(local.gwp, "gwp", "kgCO2eq")
                    THEN AddRanges(local.gwp.min, local.gwp.max, RemoteRange(remote, "gwp"))
                    ELSE None]

----------------------------------------------------------------------------
(* The units *)

JoinRecord(ev, t0, t1, local, remote, shares) ==
    [t0 |-> t0, t1 |-> t1,
     policy   |-> IF AppliedPolicy(shares) = None THEN "l1_wall_clock" ELSE AppliedPolicy(shares),
     local    |-> local,
     remote   |-> remote,
     combined |-> CombinedTotal(local, remote, ~EnergyMeasured(ev))]

(* A tool call or a task: the distinct span ids of its events are paid     *)
(* once each; `matching` are its calls.                                    *)
SpanGroupJoin(ev, es, shares, spans, matching) ==
    LET t0 == Min({s.t0 : s \in spans})
        t1 == Max({s.t1 : s \in spans})
    IN  JoinRecord(ev, t0, t1,
           IF EnergyMeasured(ev)
           THEN LocalMeasured(Total([id \in SpanIds(spans) |-> SpanJ(shares, id)]),
                              CoverageFraction(CoverageWindows(ev), t0, t1))
           ELSE LocalMeasured(None, Zero),
           RemoteEstimated(es, matching), shares)

(* The first event of a span id, in the store's order, that carries a tool *)
(* call id names the unit's; here ids are the store's order.               *)
ToolCallId(spans) ==
    LET named == {s \in spans : s.call # None}
    IN  IF named = {} THEN None ELSE (CHOOSE s \in named : \A x \in named : s.id <= x.id).call

SpanEventsOf(ev, id) == {s \in Attributable(ev) : s.span = id}
ToolCallJoin(ev, es, shares, id) ==
    LET call == ToolCallId(SpanEventsOf(ev, id))
    IN  SpanGroupJoin(ev, es, shares, SpanEventsOf(ev, id),
                      {c \in LlmCalls(ev) : call # None /\ c.call = call})

TaskIds(ev) == {s.task : s \in Attributable(ev)} \ {None}
TaskJoin(ev, es, shares, task) ==
    SpanGroupJoin(ev, es, shares, {s \in Attributable(ev) : s.task = task},
                  {c \in LlmCalls(ev) : c.task = task})

(* What is paid to the attributable spans, the orphans and the baseline:   *)
(* the whole machine over the session.                                     *)
SessionJoin(ev, es, shares, t0, t1) ==
    LET attributed == Total([id \in SpanIds(Attributable(ev)) |-> SpanJ(shares, id)])
        session    == Plus(attributed, Plus(shares.orphaned, shares.baseline_idle))
    IN  JoinRecord(ev, t0, t1,
           IF EnergyMeasured(ev)
           THEN LocalMeasured(session, CoverageFraction(CoverageWindows(ev), t0, t1))
           ELSE LocalMeasured(None, Zero),
           RemoteEstimated(es, LlmCalls(ev)), shares)

BuildJoins(ev, es, shares, t0, t1) ==
    [session   |-> SessionJoin(ev, es, shares, t0, t1),
     counters  |-> [skipped |-> shares.skipped, l1 |-> shares.l1, l2 |-> shares.l2,
                    degenerate |-> shares.degenerate,
                    degenerate_samples |-> shares.degenerate_samples,
                    unobserved |-> shares.unobserved, unmeasured_remote |-> shares.remote],
     breakdown |-> [orphaned |-> shares.orphaned, baseline_idle |-> shares.baseline_idle],
     tool_call |-> [id \in SpanIds(Attributable(ev)) |-> ToolCallJoin(ev, es, shares, id)],
     task      |-> [t \in TaskIds(ev) |-> TaskJoin(ev, es, shares, t)]]

----------------------------------------------------------------------------
(* The store the joins are built from *)

\* rebuild_derived: everything again, from what is stored now.
SessionStart(ev) == Min({e.ts : e \in ev})
SessionEnd(ev) == Max({e.ts : e \in ev})
Rebuild(ev, es) ==
    /\ app' = Apportion(ev)
    /\ joins' = BuildJoins(ev, es, app', SessionStart(ev), SessionEnd(ev))

JoinInit ==
    /\ events = {}
    /\ estimates = [id \in {} |-> None]
    /\ app = Apportion({})
    /\ joins = None

(* An event is ingested; its id makes a second delivery a no-op. *)
AppendEvent(e) ==
    /\ e \notin events
    /\ Cardinality(events) < MaxEvents
    /\ events' = events \cup {e}
    /\ UNCHANGED estimates

(* The estimator answers for a stored call. *)
StoreEstimate(c, a) ==
    /\ c \in OfKind(events, "llm")
    /\ c.id \notin DOMAIN estimates
    /\ estimates' = [id \in DOMAIN estimates \cup {c.id} |->
                        IF id = c.id THEN a ELSE estimates[id]]
    /\ UNCHANGED events

JoinNext ==
    /\ \/ \E e \in Catalog : AppendEvent(e)
       \/ \E c \in events, a \in Answers : StoreEstimate(c, a)
    /\ Rebuild(events', estimates')

JoinSpec == JoinInit /\ [][JoinNext]_joinVars

----------------------------------------------------------------------------
(* Properties *)

OneEventPerSpan(S) == \A s, x \in S : s.span = x.span => s = x
RowJoules(trace) == Total([r \in trace.rows |-> r.joules])

(* No joule is lost, invented or paid twice: a sample never pays out more  *)
(* than it holds nor less than nothing, its rows add up when no two of its *)
(* events share a span id, and the session unit, which sums by span id, is *)
(* the energy of every sample that parsed (run, build_joins).              *)
EnergyIsConserved ==
    /\ \A smp \in EnergySamples(events) :
          LET t == app.traces[smp.id]
          IN  /\ AtMost(Zero, t.baseline) /\ AtMost(Zero, t.orphaned)
              /\ \A r \in t.rows : AtMost(Zero, r.joules) /\ AtMost(r.joules, t.total)
              /\ OneEventPerSpan(Active(events, smp)) =>
                    Plus(RowJoules(t), Plus(t.orphaned, t.baseline)) = t.total
    /\ EnergyMeasured(events) =>
          LET units == Total([id \in DOMAIN joins.tool_call |-> joins.tool_call[id].local.energy])
              left  == Plus(joins.breakdown.orphaned, joins.breakdown.baseline_idle)
          IN  /\ joins.session.local.energy =
                    Total([smp \in EnergySamples(events) |-> SampleEnergy(smp)])
              /\ Plus(units, left) = joins.session.local.energy

(* The cpu time of a pid is paid for once however many rows report it and  *)
(* however many spans and orphan tails share it (cpu_weights): under L2    *)
(* what leaves the baseline is E * min(1, W / C) for the W of the longest  *)
(* rows.                                                                   *)
PhysicalCpu(smp) ==
    Total([wp \in WindowPids(events, smp) |->
              Frac(Max({r.cpu : r \in PidRows(wp[1], wp[2])})
                     * OverlapMs(wp[1].t0, wp[1].t1, smp.t0, smp.t1),
                   wp[1].t1 - wp[1].t0)])
CpuCountedOnce ==
    \A smp \in EnergySamples(events) :
        app.traces[smp.id].policy = "l2_cpu_time" =>
            Minus(app.traces[smp.id].total, app.traces[smp.id].baseline)
              = Times(SampleEnergy(smp),
                      Clamp(Over(PhysicalCpu(smp), Whole(smp.t1 - smp.t0))))

(* A span that is reported late only takes: nobody else, no orphan and no  *)
(* baseline gains by it.  (A bootstrap span may: it hands its pids to the  *)
(* spans that list none.)                                                  *)
IsLateSpan(e) == e.kind = "span" /\ e.parsed /\ ~e.boot
OnlyTakes(before, after, id) ==
    /\ AtMost(after.orphaned, before.orphaned)
    /\ AtMost(after.baseline_idle, before.baseline_idle)
    /\ \A other \in DOMAIN before.per_span \ {id} :
          AtMost(SpanJ(after, other), SpanJ(before, other))
NewSpanOnlyTakes ==
    [][\A e \in events' \ events :
          IsLateSpan(e) => OnlyTakes(app, app', e.span)]_joinVars

(* Coverage is the share of the unit's instants at which some sample was   *)
(* measuring, however the samples overlap (energy_coverage_windows,        *)
(* coverage_fraction).                                                     *)
Measured(t) == \E e \in EnergySamples(events) : e.t0 <= t /\ t < e.t1
Units == {joins.session} \cup Range(joins.tool_call) \cup Range(joins.task)
CoverageIsUnion ==
    events # {} =>
        \A u \in Units : u.t0 < u.t1 =>
            u.local.coverage =
                Frac(Cardinality({t \in u.t0 .. u.t1 - 1 : Measured(t)}), u.t1 - u.t0)

(* A combined total is published for a unit exactly when the machine was   *)
(* measured and every call of the unit has an ok estimate that reports the *)
(* criterion in its unit, and then it is the sum of all of them.           *)
WholeEnergy(unit, calls) ==
    LET whole == /\ EnergyMeasured(events)
                 /\ \A c \in calls :
                       /\ IsSummable(estimates, c)
                       /\ "energy" \in DOMAIN estimates[c.id].impacts
                       /\ estimates[c.id].impacts["energy"].unit = "kWh"
        range == [min |-> Total([c \in calls |-> Whole(estimates[c.id].impacts["energy"].min)]),
                  max |-> Total([c \in calls |-> Whole(estimates[c.id].impacts["energy"].max)])]
    IN  unit.combined.energy =
            IF whole THEN AddRanges(unit.local.energy, unit.local.energy, range) ELSE None
CombinedIsWhole ==
    events # {} =>
        LET calls == OfKind(events, "llm")
        IN  /\ WholeEnergy(joins.session, calls)
            /\ \A t \in DOMAIN joins.task :
                  WholeEnergy(joins.task[t], {c \in calls : c.task = t})
            /\ \A id \in DOMAIN joins.tool_call :
                  LET call == ToolCallId(SpanEventsOf(events, id))
                  IN  WholeEnergy(joins.tool_call[id],
                                  {c \in calls : c.call = call /\ call # None})
=============================================================================
