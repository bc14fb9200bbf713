---------------------------- MODULE WatchPipeline ----------------------------
(***************************************************************************)
(* The resident loop of `af watch` between the spool and the joins.        *)
(*                                                                         *)
(* A pass ingests new events, resolves the electricity zone, asks the      *)
(* estimator worker for estimates, and rebuilds the joins of the sessions  *)
(* it touched.  What the worker finishes comes back as sessions to rebuild *)
(* and sometimes as a zone with its factors.  A join is a cache: its       *)
(* record is computed from the session's facts, their estimates and the    *)
(* zone as they were when it was built, and only sessions believed to have *)
(* changed are built again.  `af report` works on the same database.       *)
(*                                                                         *)
(* One action ingests (SpoolIngest shows what is inside); the sampler is   *)
(* SamplerSupervisor's subject; publishing to the debug server is left out. *)
(***************************************************************************)
EXTENDS EstimatorWorker

CONSTANTS DeclaredZone,   \* the geo_zone of a session_meta, 0 when it has none
          DefaultZone,    \* DEFAULT_ZONE
          MaxReports,     \* bound: runs of af report
          MaxCrashes      \* bound: kills of af watch

ASSUME DeclaredZoneAssumption == DeclaredZone \in [Metas -> Zones \cup {0}]
ASSUME DefaultZoneAssumption == DefaultZone \in Zones
ASSUME BoundsAssumption == MaxReports \in Nat /\ MaxCrashes \in Nat

VARIABLES
  spool,       \* events written and not yet consumed by an ingest pass
  joins,       \* impact_joins: what each session's record was computed from
  pc,          \* the next step of the loop
  term,        \* the stop signal: none, received, or acted upon
  zone,        \* Watch.zone
  prevZone, seen, todo, loaded,   \* locals of the pass
  rpc, rtodo, reports,   \* af report: next step, sessions to build, runs so far
  crashes,
  asked,       \* history: calls that were pending at some request
  missed       \* history: sessions changed by a pass that did not rebuild them

watchVars == <<spool, joins, pc, term, zone, prevZone, seen, todo, loaded,
               rpc, rtodo, reports, crashes, asked, missed>>
passLocals == <<prevZone, seen, todo, loaded>>
report == <<rpc, rtodo, reports>>
vars == <<workerVars, watchVars>>

NoJoin == [facts |-> {}, estimates |-> {}, zone |-> NoZone]
JoinRecords == [facts : SUBSET Events, estimates : SUBSET Calls, zone : ZoneValues]

TypeOK ==
  /\ WorkerTypeOK
  /\ spool \subseteq Events
  /\ joins \in [Sessions -> JoinRecords]
  /\ pc \in {"loop", "taken", "ready", "zone", "request", "load", "build",
             "exited", "joining", "ended"}
  /\ term \in {"none", "received", "final"}
  /\ zone \in ZoneValues /\ prevZone \in ZoneValues
  /\ seen \subseteq Events
  /\ todo \subseteq Sessions
  /\ loaded \in [Sessions -> SUBSET Events]
  /\ rpc \in {"idle", "estimate", "joins"}
  /\ rtodo \subseteq Sessions
  /\ reports \in 0..MaxReports /\ crashes \in 0..MaxCrashes
  /\ asked \subseteq Calls \cap stored
  /\ missed \subseteq Sessions
  /\ pc = "request" \/ asked # {} => config # 0

NothingLoaded == [s \in Sessions |-> {}]

Init ==
  /\ WorkerInit
  /\ spool = {} /\ joins = [s \in Sessions |-> NoJoin]
  /\ pc = "loop" /\ term = "none"
  /\ zone = NoZone /\ prevZone = NoZone /\ seen = {} /\ todo = {}
  /\ loaded = NothingLoaded
  /\ rpc = "idle" /\ rtodo = {} /\ reports = 0 /\ crashes = 0
  /\ asked = {} /\ missed = {}

SessionsOf(E) == {SessionOf[e] : e \in E}
Facts(s) == {e \in stored : SessionOf[e] = s}

\* session_summaries: the sessions with a stored fact.
StoredSessions == SessionsOf(stored)

\* resolve_zone, with no flag and no environment variable: the first declared
\* zone in alphabetical order.
Declared == {DeclaredZone[m] : m \in stored \cap Metas} \ {0}
ResolveZone == IF Declared = {} THEN DefaultZone
               ELSE CHOOSE z \in Declared : \A y \in Declared : z <= y

\* What a join of s built now records, from the facts F.
Built(F, z) == [facts |-> F, estimates |-> F \cap estimated, zone |-> z]

\* Where a pass goes when it ends: the pass after the signal is the last one.
EndOfPass == IF term = "final" THEN "exited" ELSE "loop"

------------------------------------------------------------------------------
(* The loop *)

\* A collector writes an event that nobody wrote before.
Publish(e) ==
  /\ e \notin spool \cup stored
  /\ spool' = spool \cup {e}
  /\ UNCHANGED <<workerVars, joins, pc, term, zone, passLocals, report, crashes,
                 asked, missed>>

\* take_estimator_completion looks for a token ...
TakeNote ==
  /\ pc = "loop" /\ term = "none"
  /\ TakeToken
  /\ pc' = "taken"
  /\ UNCHANGED <<stored, estimated, wake, config, completion, stop, worker, faults,
                 spool, joins, term, zone, passLocals, report, crashes, asked, missed>>

\* (mutant) A zone in the record rebuilds the sessions with new estimates only.
ToRebuildNamed == completion.sessions

\* The sessions with new estimates, and with a zone in the record all of them.
ToRebuild == completion.sessions \cup
               IF completion.zone = NoZone THEN {} ELSE StoredSessions

\* ... then takes the record.  A zone in it replaces the watch's zone; when the
\* stored sessions cannot be listed, only those with new estimates are rebuilt.
TakeCompletion ==
  /\ pc = "taken"
  /\ TakeRecord
  /\ zone' = IF completion.zone = NoZone THEN zone ELSE completion.zone
  /\ \/ /\ todo' = ToRebuild
        /\ UNCHANGED <<missed, faults>>
     \/ /\ completion.zone # NoZone
        /\ Fault("pass")
        /\ todo' = completion.sessions
        /\ missed' = missed \cup StoredSessions
  /\ pc' = IF todo' = {} THEN "loop" ELSE "ready"
  /\ UNCHANGED <<stored, estimated, wake, note, config, stop, worker,
                 spool, joins, term, prevZone, seen, loaded, report, crashes, asked>>

\* PassKind::EstimatesReady.
StartRebuild ==
  /\ pc = "ready" /\ term = "none"
  /\ pc' = "load"
  /\ UNCHANGED <<workerVars, spool, joins, term, zone, passLocals, report, crashes,
                 asked, missed>>

\* PassKind::FullReconcile over every file, PassKind::Dirty over some: here the
\* files of the sessions S.  A pass that read nothing new stops here.
Ingest(S) ==
  /\ pc = "loop" /\ term # "received"
  /\ term = "final" => S = Sessions
  /\ LET new == {e \in spool : SessionOf[e] \in S} IN
       /\ stored' = stored \cup new
       /\ spool' = spool \ new
       /\ seen' = new
       /\ pc' = IF new = {} THEN EndOfPass ELSE "zone"
  /\ UNCHANGED <<estimated, shared, worker, faults, joins, term, zone, prevZone, todo,
                 loaded, report, crashes, asked, missed>>

\* An error on one file: the files before it are stored and their cursors moved,
\* and the summary that named their events is gone.
IngestFails(S) ==
  /\ pc = "loop" /\ term # "received"
  /\ term = "final" => S = Sessions
  /\ Fault("pass")
  /\ \E new \in SUBSET {e \in spool : SessionOf[e] \in S} :
       /\ stored' = stored \cup new
       /\ spool' = spool \ new
       /\ missed' = missed \cup SessionsOf(new)
  /\ pc' = EndOfPass
  /\ UNCHANGED <<estimated, shared, worker, joins, term, zone, passLocals, report,
                 crashes, asked>>

\* The cached zone, resolved anew after a session_meta.
ZoneNow == IF zone = NoZone \/ seen \cap Metas # {}
             THEN Unresolved(ResolveZone) ELSE zone

\* (mutant) The worker is configured with the zone of the pass before.
SetZoneLate ==
  /\ pc = "zone"
  /\ prevZone' = zone
  /\ zone' = ZoneNow
  /\ SetConfig(zone.id)
  /\ pc' = "request"
  /\ UNCHANGED <<stored, estimated, wake, note, completion, stop, worker, faults,
                 spool, joins, term, seen, todo, loaded, report, crashes, asked, missed>>

\* The zone of the pass, and the configuration for the worker.
SetZone ==
  /\ pc = "zone"
  /\ prevZone' = zone
  /\ zone' = ZoneNow
  /\ SetConfig(zone'.id)
  /\ pc' = "request"
  /\ UNCHANGED <<stored, estimated, wake, note, completion, stop, worker, faults,
                 spool, joins, term, seen, todo, loaded, report, crashes, asked, missed>>

\* The sessions to rebuild: the touched ones while the zone stays, else all.
Scope == IF prevZone # NoZone /\ prevZone.id = zone.id
           THEN SessionsOf(seen) ELSE StoredSessions

Request ==
  /\ pc = "request"
  /\ SendWake
  /\ asked' = stored \cap Calls
  /\ \/ todo' = Scope /\ UNCHANGED <<missed, faults>>
     \/ /\ Scope = StoredSessions
        /\ Fault("pass")
        /\ todo' = {}
        /\ missed' = missed \cup StoredSessions
  /\ pc' = IF todo' = {} THEN EndOfPass ELSE "load"
  /\ seen' = {} /\ prevZone' = NoZone
  /\ UNCHANGED <<stored, estimated, note, config, completion, stop, worker,
                 spool, joins, term, zone, loaded, report, crashes>>

\* rebuild_sessions: first the events of every session to rebuild ...
Load ==
  /\ pc = "load"
  /\ loaded' = [s \in Sessions |-> IF s \in todo THEN Facts(s) ELSE {}]
  /\ pc' = "build"
  /\ UNCHANGED <<workerVars, spool, joins, term, zone, prevZone, seen, todo,
                 report, crashes, asked, missed>>

\* ... then, one after the other, their estimates and their joins.
Build(s) ==
  /\ pc = "build"
  /\ s \in todo
  /\ joins' = [joins EXCEPT ![s] =
       Built(loaded[s], IF zone = NoZone THEN Unresolved(DefaultZone) ELSE zone)]
  /\ missed' = IF loaded[s] = Facts(s) THEN missed \ {s} ELSE missed \cup {s}
  /\ todo' = todo \ {s}
  /\ pc' = IF todo' = {} THEN EndOfPass ELSE "build"
  /\ loaded' = IF todo' = {} THEN NothingLoaded ELSE loaded
  /\ UNCHANGED <<workerVars, spool, term, zone, prevZone, seen, report, crashes, asked>>

\* An error anywhere after the ingest: the pass is over, and nothing remembers
\* which sessions it was to rebuild.
PassFails ==
  /\ pc \in {"zone", "load", "build"}
  /\ Fault("pass")
  /\ missed' = missed \cup todo \cup IF pc = "zone" THEN SessionsOf(seen) ELSE {}
  /\ zone' = IF pc = "zone" /\ seen \cap Metas # {} THEN NoZone ELSE zone
  /\ todo' = {} /\ loaded' = NothingLoaded /\ seen' = {}
  /\ pc' = EndOfPass
  /\ UNCHANGED <<stored, estimated, shared, worker, spool, joins, term, prevZone,
                 report, crashes, asked>>

\* The stop signal ends the loop before a pass, whatever was just taken from the
\* worker; one last full pass follows, then the worker is stopped and joined.
Signal ==
  /\ term = "none"
  /\ pc \notin {"exited", "joining", "ended"}
  /\ term' = "received"
  /\ UNCHANGED <<workerVars, spool, joins, pc, zone, passLocals, report, crashes,
                 asked, missed>>

LeaveLoop ==
  /\ pc \in {"loop", "ready"} /\ term = "received"
  /\ term' = "final"
  /\ pc' = "loop"
  /\ missed' = missed \cup todo
  /\ todo' = {}
  /\ UNCHANGED <<workerVars, spool, joins, zone, prevZone, seen, loaded, report,
                 crashes, asked>>

\* (mutant) The flag is set and no token is sent.
DropWorkerSilently ==
  /\ pc = "exited"
  /\ stop' = TRUE
  /\ pc' = "joining"
  /\ UNCHANGED <<stored, estimated, wake, note, config, completion, worker, faults,
                 spool, joins, term, zone, passLocals, report, crashes, asked, missed>>

DropWorker ==
  /\ pc = "exited"
  /\ StopWorker
  /\ pc' = "joining"
  /\ UNCHANGED <<stored, estimated, note, config, completion, worker, faults,
                 spool, joins, term, zone, passLocals, report, crashes, asked, missed>>

JoinWorker ==
  /\ pc = "joining" /\ wpc = "stopped"
  /\ pc' = "ended"
  /\ UNCHANGED <<workerVars, spool, joins, term, zone, passLocals, report, crashes,
                 asked, missed>>

\* Sessions whose join no longer says what the store says.
Outdated(s) == \/ joins[s].facts # Facts(s)
               \/ joins[s].estimates # Facts(s) \cap estimated

\* The process is killed and started again: the store stays, the memory does not.
Crash ==
  /\ crashes < MaxCrashes
  /\ pc \notin {"joining", "ended"}
  /\ crashes' = crashes + 1
  /\ WorkerRestart
  /\ pc' = "loop" /\ term' = "none"
  /\ zone' = NoZone /\ prevZone' = NoZone /\ seen' = {} /\ todo' = {}
  /\ loaded' = NothingLoaded
  /\ asked' = {}
  /\ missed' = missed \cup {s \in Sessions : Outdated(s)}
  /\ UNCHANGED <<stored, estimated, faults, spool, joins, report>>

------------------------------------------------------------------------------
(* af report, on the same database, with an estimator of its own *)

ReportIngest ==
  /\ rpc = "idle" /\ reports < MaxReports
  /\ reports' = reports + 1
  /\ stored' = stored \cup spool
  /\ spool' = {}
  /\ missed' = missed \cup SessionsOf(spool)
  /\ rpc' = "estimate"
  /\ UNCHANGED <<estimated, shared, worker, faults, joins, pc, term, zone, passLocals,
                 rtodo, crashes, asked>>

\* estimate_pending goes through the whole queue and may break off anywhere.
ReportEstimate ==
  /\ rpc = "estimate"
  /\ \E done \in SUBSET Pending :
       /\ \A c \in done : \A d \in Pending : d < c => d \in done
       /\ estimated' = estimated \cup done
       /\ missed' = missed \cup SessionsOf(done)
  /\ rtodo' = StoredSessions
  /\ rpc' = "joins"
  /\ UNCHANGED <<stored, shared, worker, faults, spool, joins, pc, term, zone, passLocals,
                 reports, crashes, asked>>

ReportBuild(s) ==
  /\ rpc = "joins"
  /\ s \in rtodo
  /\ joins' = [joins EXCEPT ![s] = Built(Facts(s),
                 [id |-> ResolveZone, factors |-> ResolveZone \in KnownZones])]
  /\ rtodo' = rtodo \ {s}
  /\ missed' = missed \ {s}
  /\ UNCHANGED <<workerVars, spool, pc, term, zone, passLocals, rpc, reports, crashes,
                 asked>>

ReportDone ==
  /\ rpc = "joins" /\ rtodo = {}
  /\ rpc' = "idle"
  /\ UNCHANGED <<workerVars, spool, joins, pc, term, zone, passLocals, rtodo, reports,
                 crashes, asked, missed>>

ReportStep == ReportIngest \/ ReportEstimate \/ (\E s \in Sessions : ReportBuild(s))
                \/ ReportDone

------------------------------------------------------------------------------

\* The rest of a pass, once it has begun.
PassStep == \/ TakeCompletion \/ StartRebuild \/ SetZone \/ Request \/ Load
            \/ (\E s \in Sessions : Build(s)) \/ LeaveLoop \/ DropWorker \/ JoinWorker

Faults == PassFails \/ Crash \/ \E S \in SUBSET Sessions : IngestFails(S)

Next == \/ \E e \in Events : Publish(e)
        \/ TakeNote \/ PassStep \/ Faults \/ Signal \/ ReportStep
        \/ \E S \in (SUBSET Sessions) \ {{}} : Ingest(S)
        \/ WorkerStep /\ UNCHANGED watchVars

Spec == Init /\ [][Next]_vars

(* The loop runs a begun pass to its end.  Each turn of it first looks for a    *)
(* token, and every RECONCILE period ends in a full pass: both come again and   *)
(* again, with passes between them, hence strong fairness.  The worker thread   *)
(* runs; its sidecar answers or times out.  Nothing else has to happen.         *)
Fairness == /\ WF_vars(PassStep)
            /\ SF_vars(TakeNote)
            /\ SF_vars(Ingest(Sessions))
            /\ WF_vars(WorkerStep /\ UNCHANGED watchVars)

FairSpec == Spec /\ Fairness

------------------------------------------------------------------------------
(* Correctness *)

\* Sessions the pass in progress is going to rebuild.
InHand == todo \cup (IF pc = "taken" THEN completion.sessions ELSE {})
               \cup (IF pc = "zone" THEN SessionsOf(seen) ELSE {})
               \cup (IF pc = "request" THEN Scope ELSE {})

\* A change to a session's facts or to their estimates is in its join, or on its
\* way there, in the hands of one of the two threads or of the channels between
\* them, unless a failed pass, a kill or another process made the change unseen.
ChangesReachJoins ==
  \A s \in Sessions : Outdated(s) => s \in missed \cup InHand \cup Announced

\* Calls that were pending when the worker was asked are not left lying: the
\* worker has a token, is at work before its count, or admits a failed turn.
NoLostWake == asked \cap Pending # {} => Attended

\* Nothing is going on.
Quiet == pc = "loop" /\ term = "none" /\ ~note /\ wpc = "recv" /\ ~wake /\ rpc = "idle"

\* At rest every join was built under the zone the watch believes in.
OneZoneAtRest ==
  Quiet /\ zone # NoZone =>
    \A s \in StoredSessions : joins[s].zone.id = zone.id

\* "a resident watch and a report over the same store could pick different
\* zones": mod.rs says that this is past.  At rest the watch's zone is the one
\* the store resolves to.
ZoneIsResolvedZone == Quiet /\ zone # NoZone => zone.id = ResolveZone

\* Every call a pass saw pending is estimated in the end, or the worker's health
\* says that its last turn failed, or the watch ends first.
EveryCallSettled ==
  \A c \in Calls : (c \in asked) ~> (c \in estimated \/ degraded \/ term # "none")

\* Without failures the joins catch up with everything the collectors wrote.
Converges ==
  <>[](term = "none") => <>[](spool = {} /\ \A s \in Sessions : ~Outdated(s))

\* A stop signal ends the process: the worker is not waited for in vain.
StopsWhenAsked == (term = "received") ~> (pc = "ended")
=============================================================================
