--------------------------- MODULE EstimatorWorker ---------------------------
(***************************************************************************)
(* The estimator thread of `af watch`.                                     *)
(*                                                                         *)
(* It owns the Python estimator and works off the llm_calls that have no   *)
(* estimate, one per turn.  The database is the queue; what the threads    *)
(* share is a wake channel and a completion channel of capacity one each,  *)
(* the last requested configuration, and a merged completion record.  Both *)
(* channels only say "look again", so a full channel swallows a signal:    *)
(* whether work can be forgotten is a question about every interleaving of *)
(* the two threads.                                                        *)
(*                                                                         *)
(* This module holds the worker's state and steps and the client's side of *)
(* the channels; WatchPipeline is the client.                              *)
(***************************************************************************)
EXTENDS Naturals, FiniteSets

CONSTANTS Sessions,
          Calls,        \* llm_call events, numbered in the order (ts, event_id)
          Metas,        \* session_meta events
          SessionOf,    \* the session an event belongs to
          Zones,        \* electricity zones, numbered in alphabetical order
          KnownZones,   \* the zones the estimator has factors for
          FaultKinds,   \* what may go wrong: see Fault
          MaxFaults     \* bound: how often

Events == Calls \cup Metas

ASSUME CallsAssumption == Calls \subseteq Nat /\ IsFiniteSet(Calls)
ASSUME SessionOfAssumption == SessionOf \in [Events -> Sessions]
ASSUME ZonesAssumption == Zones \subseteq Nat \ {0} /\ KnownZones \subseteq Zones
ASSUME MaxFaultsAssumption == MaxFaults \in Nat

\* Option<Zone>: a zone with or without factors; id 0 is None.
NoZone == [id |-> 0, factors |-> FALSE]
ZoneValues == {NoZone} \cup [id : Zones, factors : BOOLEAN]
Unresolved(z) == [id |-> z, factors |-> FALSE]

EmptyCompletion == [sessions |-> {}, zone |-> NoZone]
EmptyUpdate == [sessions |-> {}, zone |-> NoZone, error |-> FALSE, pending |-> FALSE]

VARIABLES
  stored,      \* raw_events
  estimated,   \* calls with a row in impact_estimates
  wake,        \* a token in the wake channel
  note,        \* a token in the completion channel
  config,      \* the zone last requested, 0 before any request
  completion,  \* what the worker did since the client last took it
  stop,        \* the stop flag
  wpc,         \* the worker's next step
  wcfg, resolved, update, batch,   \* its locals
  degraded,    \* health.state: did the last turn end in an error?
  faults       \* faults injected so far

shared == <<wake, note, config, completion, stop>>
worker == <<wpc, wcfg, resolved, update, batch, degraded>>
workerVars == <<stored, estimated, wake, note, config, completion, stop,
                wpc, wcfg, resolved, update, batch, degraded, faults>>

WorkerTypeOK ==
  /\ stored \subseteq Events
  /\ estimated \subseteq Calls
  /\ wake \in BOOLEAN /\ note \in BOOLEAN /\ stop \in BOOLEAN
  /\ config \in Zones \cup {0}
  /\ completion \in [sessions : SUBSET Sessions, zone : ZoneValues]
  /\ wpc \in {"recv", "config", "zone", "query", "estimate", "count",
              "merge", "notify", "selfwake", "stopped"}
  /\ wcfg \in Zones \cup {0} /\ resolved \in Zones \cup {0}
  /\ wpc = "zone" => wcfg # 0
  /\ update \in [sessions : SUBSET Sessions, zone : ZoneValues,
                 error : BOOLEAN, pending : BOOLEAN]
  /\ batch \subseteq Calls
  /\ degraded \in BOOLEAN
  /\ faults \in 0..MaxFaults

WorkerInit ==
  /\ stored = {} /\ estimated = {} /\ faults = 0
  /\ wake = FALSE /\ note = FALSE /\ config = 0
  /\ completion = EmptyCompletion /\ stop = FALSE
  /\ wpc = "recv" /\ wcfg = 0 /\ resolved = 0
  /\ update = EmptyUpdate /\ batch = {} /\ degraded = FALSE

\* The process died and was started again: its memory is new, the store is not.
WorkerRestart ==
  /\ wake' = FALSE /\ note' = FALSE /\ config' = 0
  /\ completion' = EmptyCompletion /\ stop' = FALSE
  /\ wpc' = "recv" /\ wcfg' = 0 /\ resolved' = 0
  /\ update' = EmptyUpdate /\ batch' = {} /\ degraded' = FALSE

\* Something outside the program's control fails: a sidecar request times out
\* or is refused, an SQL statement finds the database locked.
Fault(kind) ==
  /\ kind \in FaultKinds
  /\ faults < MaxFaults
  /\ faults' = faults + 1

Pending == (stored \cap Calls) \ estimated

\* llm_calls_without_estimate_limit(ESTIMATE_BATCH): the oldest pending call.
Oldest(S) == {c \in S : \A d \in S : c <= d}

------------------------------------------------------------------------------
(* The worker thread, step by step *)

\* recv() returns, and the loop condition reads the stop flag.
Recv ==
  /\ wpc = "recv"
  /\ wake
  /\ wake' = FALSE
  /\ wpc' = IF stop THEN "stopped" ELSE "config"
  /\ UNCHANGED <<stored, estimated, note, config, completion, stop,
                 wcfg, resolved, update, batch, degraded, faults>>

ReadConfig ==
  /\ wpc = "config"
  /\ IF config = 0
       THEN wpc' = "recv" /\ UNCHANGED <<wcfg, update>>
       ELSE wpc' = "zone" /\ wcfg' = config /\ update' = EmptyUpdate
  /\ UNCHANGED <<stored, estimated, shared, resolved, batch, degraded, faults>>

\* The factors are fetched when the requested zone is not the one already
\* resolved.  A failed fetch is remembered as not resolved, but the zone is
\* announced either way, without factors.
ZoneFactors ==
  /\ wpc = "zone"
  /\ wpc' = "query"
  /\ \/ /\ resolved = wcfg
        /\ UNCHANGED <<resolved, update, faults>>
     \/ /\ resolved # wcfg
        /\ resolved' = wcfg
        /\ update' = [update EXCEPT !.zone = [id |-> wcfg, factors |-> wcfg \in KnownZones]]
        /\ UNCHANGED faults
     \/ /\ resolved # wcfg
        /\ Fault("zone")
        /\ update' = [update EXCEPT !.zone = Unresolved(wcfg), !.error = TRUE]
        /\ UNCHANGED resolved
  /\ UNCHANGED <<stored, estimated, shared, wcfg, batch, degraded>>

Query ==
  /\ wpc = "query"
  /\ wpc' = "estimate"
  /\ \/ /\ batch' = Oldest(Pending)
        /\ update' = [update EXCEPT !.sessions = {SessionOf[c] : c \in batch'}]
        /\ UNCHANGED faults
     \/ /\ Fault("query")
        /\ batch' = {}
        /\ update' = [update EXCEPT !.error = TRUE]
  /\ UNCHANGED <<stored, estimated, shared, wcfg, resolved, degraded>>

\* Nothing is estimated after an error.  Every answer of the sidecar, an
\* unknown model included, is stored as the call's estimate.
Estimate ==
  /\ wpc = "estimate"
  /\ wpc' = "count"
  /\ batch' = {}
  /\ \/ /\ estimated' = IF update.error THEN estimated ELSE estimated \cup batch
        /\ UNCHANGED <<update, faults>>
     \/ /\ ~update.error /\ batch # {}
        /\ Fault("estimate")
        /\ update' = [update EXCEPT !.error = TRUE]
        /\ UNCHANGED estimated
  /\ UNCHANGED <<stored, shared, wcfg, resolved, degraded>>

\* A count that fails reads as zero.
Count ==
  /\ wpc = "count"
  /\ wpc' = "merge"
  /\ \/ update' = [update EXCEPT !.pending = (Pending # {})] /\ UNCHANGED faults
     \/ Fault("count") /\ update' = [update EXCEPT !.pending = FALSE]
  /\ UNCHANGED <<stored, estimated, shared, wcfg, resolved, batch, degraded>>

\* (mutant) The record is overwritten by each turn.
MergedOverwrite(old, new) == [sessions |-> new.sessions, zone |-> new.zone]

\* merge_completion: sessions accumulate, the latest zone wins.
Merged(old, new) ==
  [sessions |-> old.sessions \cup new.sessions,
   zone |-> IF new.zone = NoZone THEN old.zone ELSE new.zone]

Merge ==
  /\ wpc = "merge"
  /\ wpc' = "notify"
  /\ completion' = Merged(completion, update)
  /\ degraded' = update.error
  /\ UNCHANGED <<stored, estimated, wake, note, config, stop,
                 wcfg, resolved, update, batch, faults>>

\* try_send: a token already there says the same.
Notify ==
  /\ wpc = "notify"
  /\ wpc' = "selfwake"
  /\ note' = TRUE
  /\ UNCHANGED <<stored, estimated, wake, config, completion, stop,
                 wcfg, resolved, update, batch, degraded, faults>>

\* (mutant) One call per wake.
WakesAgainNever(u) == FALSE

\* The rest of the queue is worked off without waiting for another request,
\* unless this turn failed.
WakesAgain(u) == ~u.error /\ u.pending /\ ~stop

SelfWake ==
  /\ wpc = "selfwake"
  /\ wpc' = "recv"
  /\ wake' = (wake \/ WakesAgain(update))
  /\ wcfg' = 0 /\ update' = EmptyUpdate
  /\ UNCHANGED <<stored, estimated, note, config, completion, stop,
                 resolved, batch, degraded, faults>>

WorkerStep == \/ Recv \/ ReadConfig \/ ZoneFactors \/ Query \/ Estimate
              \/ Count \/ Merge \/ Notify \/ SelfWake

------------------------------------------------------------------------------
(* The client's side *)

\* request, first half: the configuration.
SetConfig(z) == config' = z

\* (mutant) The token goes in only while the thread waits for one.
SendWakeWhenIdle == wake' = (wake \/ wpc = "recv")

\* request, second half: a token in the channel, or one is already there.
SendWake == wake' = TRUE

\* take_completion, first half: is there a token?
TakeToken == note /\ note' = FALSE

\* take_completion, second half: take the record and leave an empty one.
TakeRecord == completion' = EmptyCompletion

\* Drop: the flag first, then a token to have it read.
StopWorker == stop' = TRUE /\ wake' = TRUE

------------------------------------------------------------------------------
(* Correctness *)

\* Pending calls are sure to be looked at again, or the worker has said that
\* its last turn failed, or it was told to stop.
Attended ==
  \/ wake
  \/ wpc \in {"config", "zone", "query", "estimate", "count"}
  \/ wpc \in {"merge", "notify", "selfwake"} /\ (update.error \/ update.pending)
  \/ degraded
  \/ stop

\* The sessions whose estimates are on their way to the client.
Announced ==
  (IF wpc \in {"count", "merge"} THEN update.sessions ELSE {})
    \cup (IF note \/ wpc = "notify" THEN completion.sessions ELSE {})
=============================================================================
