---------------------------- MODULE MCImpactJoin ----------------------------
(***************************************************************************)
(* A session for TLC: two local spans (one reported twice, one that names  *)
(* its pid), a remote one, a zero-length one and the bootstrap span; energy *)
(* samples that overlap, a zero-length and an unparseable one; process     *)
(* samples with a pid seen twice, an orphan tail, an unclaimed pid and an  *)
(* empty list; a call of a tool and one of the session.                    *)
(***************************************************************************)
EXTENDS ImpactJoin

MCSpan(id, span, t0, t1, locus, pids, task, call) ==
    [id |-> id, kind |-> "span", parsed |-> TRUE, ts |-> t1, t0 |-> t0, t1 |-> t1,
     span |-> span, locus |-> locus, pids |-> pids, boot |-> span = "boot",
     task |-> task, call |-> call]
MCEnergy(id, t0, t1, parsed, parts) ==
    [id |-> id, kind |-> "energy", parsed |-> parsed, ts |-> t1, t0 |-> t0, t1 |-> t1,
     parts |-> parts]
MCRow(row, pid, cpu, orphan) == [row |-> row, pid |-> pid, cpu |-> cpu, orphan |-> orphan]
MCProc(id, t0, t1, rows) ==
    [id |-> id, kind |-> "proc", parsed |-> TRUE, ts |-> t1, t0 |-> t0, t1 |-> t1,
     rows |-> rows]
MCCall(id, ts, task, call) ==
    [id |-> id, kind |-> "llm", parsed |-> TRUE, ts |-> ts, task |-> task, call |-> call]

MCCatalog ==
    {MCSpan(1, "boot", 0, 0, "local", {1}, None, None),
     MCSpan(2, "a", 0, 3, "local", {}, "x", "k"),
     MCSpan(3, "a", 1, 4, "unknown", {}, None, None),
     MCSpan(4, "b", 1, 4, "local", {2}, "x", None),
     MCSpan(5, "r", 1, 3, "remote", {}, None, None),
     MCSpan(6, "z", 1, 1, "local", {2}, "y", None),
     MCEnergy(7, 0, 2, TRUE, <<<<"cpu", 3>>, <<"dram", 1>>>>),
     MCEnergy(8, 1, 3, TRUE, <<<<"cpu", 5>>, <<"total", 2>>>>),
     MCEnergy(9, 2, 2, TRUE, <<<<"cpu", 1>>>>),
     MCEnergy(10, 0, 4, FALSE, <<<<"cpu", 7>>>>),
     MCProc(11, 0, 2, {MCRow(1, 1, 1, FALSE), MCRow(2, 1, 2, TRUE), MCRow(3, 2, 1, FALSE)}),
     MCProc(12, 1, 4, {MCRow(1, 3, 2, FALSE), MCRow(2, 2, 1, FALSE)}),
     MCProc(13, 2, 3, {}),
     MCCall(14, 1, "x", "k"),
     MCCall(15, 3, None, None)}

MCImpacts(unit, n) == [energy |-> [unit |-> unit, min |-> n, max |-> n + 1]]
MCAnswers ==
    {[status |-> "ok", region |-> "FRA", impacts |-> MCImpacts("kWh", 1)],
     [status |-> "ok", region |-> None, impacts |-> MCImpacts("Wh", 2)],
     [status |-> "ok", region |-> "USA",
      impacts |-> [gwp |-> [unit |-> "kgCO2eq", min |-> 1, max |-> 1]]],
     [status |-> "unknown_model", region |-> "FRA", impacts |-> None]}
MCZoneGwp == [min |-> 1, max |-> 2]
=============================================================================
