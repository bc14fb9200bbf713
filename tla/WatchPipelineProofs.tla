------------------------- MODULE WatchPipelineProofs -------------------------
(***************************************************************************)
(* What the runs WatchEstimates and WatchFaults check on two calls and two *)
(* sessions, for any number of them: the type invariant, that no request   *)
(* is lost between the watch loop and the estimator thread, that every     *)
(* change to a session is on its way to its join, and that the joins of a  *)
(* watch at rest share its zone.                                           *)
(***************************************************************************)
EXTENDS WatchPipeline, WellFoundedInduction, TLAPS

\* A non-empty set of natural numbers has a least element.
LEMMA LeastExists ==
  ASSUME NEW S \in SUBSET Nat, S # {}
  PROVE  \E z \in S : \A y \in S : z <= y
<1>1. PICK z \in S : \A y \in S : ~ (<<y, z>> \in OpToRel(<, Nat))
  <2>1. IsWellFoundedOn(OpToRel(<, Nat), Nat)
    BY NatLessThanWellFounded
  <2> HIDE DEF OpToRel
  <2>2. QED
    BY <2>1, WFMin
<1>2. \A y \in S : ~ (y < z)
  BY <1>1 DEF OpToRel
<1>3. QED
  BY <1>2

\* The zone of a pass is one of the zones, whatever was declared.
LEMMA ResolvedIsAZone ==
  ASSUME TypeOK
  PROVE  ResolveZone \in Zones
<1>1. Declared \subseteq Zones
  BY DeclaredZoneAssumption DEF Declared
<1>2. CASE Declared = {}
  BY <1>2, DefaultZoneAssumption DEF ResolveZone
<1>3. CASE Declared # {}
  <2>1. \E z \in Declared : \A y \in Declared : z <= y
    BY <1>1, <1>3, LeastExists, ZonesAssumption
  <2>2. QED
    BY <1>1, <1>3, <2>1 DEF ResolveZone
<1>4. QED
  BY <1>2, <1>3

LEMMA ZoneTypes ==
  /\ NoZone \in ZoneValues
  /\ \A z \in Zones : /\ Unresolved(z) \in ZoneValues /\ Unresolved(z).id = z
                      /\ \A b \in BOOLEAN : [id |-> z, factors |-> b] \in ZoneValues
  /\ \A v \in ZoneValues : v # NoZone => v.id \in Zones
BY DEF ZoneValues, Unresolved, NoZone

LEMMA FactorsTypes ==
  \A z \in Zones : [id |-> z, factors |-> z \in KnownZones] \in ZoneValues
<1> TAKE z \in Zones
<1>1. CASE z \in KnownZones
  BY <1>1 DEF ZoneValues
<1>2. CASE z \notin KnownZones
  BY <1>2 DEF ZoneValues
<1>3. QED
  BY <1>1, <1>2

LEMMA FaultTypes == ASSUME faults \in 0..MaxFaults, NEW k,
Fault(k) PROVE faults' \in 0..MaxFaults
BY MaxFaultsAssumption DEF Fault

LEMMA WorkerTypeInductive ==
  ASSUME WorkerTypeOK, WorkerStep
  PROVE  WorkerTypeOK' /\ UNCHANGED <<stored, config>>
<1> USE DEF WorkerTypeOK, shared
<1>1. CASE Recv
  BY <1>1 DEF Recv
<1>2. CASE ReadConfig
  <2>1. EmptyUpdate \in [sessions : SUBSET Sessions, zone : ZoneValues,
                         error : BOOLEAN, pending : BOOLEAN]
    BY ZoneTypes DEF EmptyUpdate
  <2>2. CASE config = 0
    BY <1>2, <2>2 DEF ReadConfig
  <2>3. CASE config # 0
    BY <1>2, <2>1, <2>3 DEF ReadConfig
  <2>4. QED
    BY <2>2, <2>3
<1>3. CASE ZoneFactors
  <2>1. wcfg \in Zones /\ faults' \in 0..MaxFaults
    BY <1>3, FaultTypes DEF ZoneFactors
  <2>2. update' \in [sessions : SUBSET Sessions, zone : ZoneValues,
                     error : BOOLEAN, pending : BOOLEAN]
    <3> DEFINE announced == [id |-> wcfg, factors |-> wcfg \in KnownZones]
    <3>1. announced \in ZoneValues /\ Unresolved(wcfg) \in ZoneValues
      BY <2>1, ZoneTypes, FactorsTypes
    <3> HIDE DEF announced
    <3>2. \/ update' = update
          \/ update' = [update EXCEPT !.zone = announced]
          \/ update' = [update EXCEPT !.zone = Unresolved(wcfg), !.error = TRUE]
      BY <1>3 DEF ZoneFactors, announced
    <3>3. QED
      BY <3>1, <3>2
  <2>3. QED
    BY <1>3, <2>1, <2>2 DEF ZoneFactors
<1>4. CASE Query
  <2>1. batch' \subseteq Calls /\ {SessionOf[c] : c \in batch'} \subseteq Sessions
    BY <1>4, SessionOfAssumption DEF Query, Oldest, Pending, Events
  <2>2. faults' \in 0..MaxFaults
    BY <1>4, FaultTypes DEF Query
  <2>3. QED
    BY <1>4, <2>1, <2>2 DEF Query
<1>5. CASE Estimate
  <2>1. faults' \in 0..MaxFaults
    BY <1>5, FaultTypes DEF Estimate
  <2>2. estimated' \subseteq Calls
    BY <1>5 DEF Estimate
  <2>3. QED
    BY <1>5, <2>1, <2>2 DEF Estimate
<1>6. CASE Count
  <2>1. faults' \in 0..MaxFaults
    BY <1>6, FaultTypes DEF Count
  <2>2. QED
    BY <1>6, <2>1 DEF Count
<1>7. CASE Merge
  BY <1>7 DEF Merge, Merged
<1>8. CASE Notify
  BY <1>8 DEF Notify
<1>9. CASE SelfWake
  BY <1>9, ZoneTypes DEF SelfWake, EmptyUpdate
<1>10. QED
  BY <1>1, <1>2, <1>3, <1>4, <1>5, <1>6, <1>7, <1>8, <1>9 DEF WorkerStep

LEMMA TypeInductive == TypeOK /\ [Next]_vars => TypeOK'
<1> SUFFICES ASSUME TypeOK, [Next]_vars PROVE TypeOK'
  OBVIOUS
<1> USE DEF TypeOK, WorkerTypeOK, vars, workerVars, watchVars, shared, worker,
  passLocals, report
<1>1. CASE UNCHANGED vars
  BY <1>1
<1>2. CASE WorkerStep /\ UNCHANGED watchVars
  BY <1>2, WorkerTypeInductive
<1>3. ASSUME NEW e \in Events, Publish(e) PROVE TypeOK'
  BY <1>3 DEF Publish
<1>4. ASSUME TakeNote PROVE TypeOK'
  <2>1. WorkerTypeOK'
    BY <1>4, ZenonT(30) DEF TakeNote, TakeToken
  <2>2. QED
    BY <1>4, <2>1 DEF TakeNote
<1>5. ASSUME TakeCompletion PROVE TypeOK'
  BY <1>5, ZoneTypes, SessionOfAssumption, FaultTypes DEF TakeCompletion, TakeRecord,
     ToRebuild, StoredSessions, SessionsOf, EmptyCompletion
<1>6. ASSUME StartRebuild PROVE TypeOK'
  BY <1>6 DEF StartRebuild
<1>7. ASSUME NEW S \in SUBSET Sessions, Ingest(S) PROVE TypeOK'
  BY <1>7 DEF Ingest, EndOfPass
<1>8. ASSUME NEW S \in SUBSET Sessions, IngestFails(S) PROVE TypeOK'
  BY <1>8, SessionOfAssumption, FaultTypes DEF IngestFails, EndOfPass, SessionsOf
<1>9. ASSUME SetZone PROVE TypeOK'
  <2>1. zone' \in ZoneValues /\ zone'.id \in Zones
    <3>1. CASE zone = NoZone \/ seen \cap Metas # {}
      BY <1>9, <3>1, ZoneTypes, ResolvedIsAZone DEF SetZone, ZoneNow
    <3>2. CASE ~(zone = NoZone \/ seen \cap Metas # {})
      BY <1>9, <3>2, ZoneTypes DEF SetZone, ZoneNow
    <3>3. QED
      BY <3>1, <3>2
  <2>2. config' \in Zones /\ config' # 0
    BY <1>9, <2>1, ZonesAssumption DEF SetZone, SetConfig
  <2>3. WorkerTypeOK'
    BY <1>9, <2>2 DEF SetZone
  <2>4. QED
    BY <1>9, <2>1, <2>2, <2>3 DEF SetZone
<1>10. ASSUME Request PROVE TypeOK'
  BY <1>10, SessionOfAssumption, FaultTypes, ZoneTypes DEF Request, SendWake, Scope,
     StoredSessions, SessionsOf, EndOfPass
<1>11. ASSUME Load PROVE TypeOK'
  BY <1>11 DEF Load, Facts
<1>12. ASSUME NEW s \in Sessions, Build(s) PROVE TypeOK'
  BY <1>12, ZoneTypes, DefaultZoneAssumption DEF Build, Built, EndOfPass,
     NothingLoaded, JoinRecords
<1>13. ASSUME PassFails PROVE TypeOK'
  BY <1>13, ZoneTypes, SessionOfAssumption, FaultTypes DEF PassFails, EndOfPass,
     NothingLoaded, SessionsOf
<1>14. ASSUME Signal PROVE TypeOK'
  BY <1>14 DEF Signal
<1>15. ASSUME LeaveLoop PROVE TypeOK'
  BY <1>15 DEF LeaveLoop
<1>16. ASSUME DropWorker PROVE TypeOK'
  BY <1>16 DEF DropWorker, StopWorker
<1>17. ASSUME JoinWorker PROVE TypeOK'
  BY <1>17 DEF JoinWorker
<1>18. ASSUME Crash PROVE TypeOK'
  <2>1. /\ EmptyCompletion \in [sessions : SUBSET Sessions, zone : ZoneValues]
        /\ EmptyUpdate \in [sessions : SUBSET Sessions, zone : ZoneValues,
                            error : BOOLEAN, pending : BOOLEAN]
    BY ZoneTypes DEF EmptyCompletion, EmptyUpdate
  <2>2. WorkerTypeOK'
    BY <1>18, <2>1 DEF Crash, WorkerRestart
  <2>3. config' = 0 /\ asked' = {} /\ pc' = "loop" /\ crashes' \in 0..MaxCrashes
    BY <1>18, BoundsAssumption DEF Crash, WorkerRestart
  <2>4. QED
    BY <1>18, <2>2, <2>3, ZoneTypes DEF Crash, NothingLoaded
<1>19. ASSUME ReportIngest PROVE TypeOK'
  BY <1>19, SessionOfAssumption, BoundsAssumption DEF ReportIngest, SessionsOf
<1>20. ASSUME ReportEstimate PROVE TypeOK'
  BY <1>20, SessionOfAssumption DEF ReportEstimate, SessionsOf, StoredSessions, Pending
<1>21. ASSUME NEW s \in Sessions, ReportBuild(s) PROVE TypeOK'
  <2>1. ResolveZone \in Zones
    BY ResolvedIsAZone
  <2> DEFINE resolvedZone == [id |-> ResolveZone,
    factors |-> ResolveZone \in KnownZones]
             built == Built(Facts(s), resolvedZone)
  <2>2. resolvedZone \in ZoneValues
    BY <2>1, FactorsTypes
  <2>3. built \in JoinRecords
    BY <2>2 DEF Built, Facts, JoinRecords
  <2>4. joins' = [joins EXCEPT ![s] = built]
    BY <1>21 DEF ReportBuild
  <2> HIDE DEF built
  <2>5. joins' \in [Sessions -> JoinRecords]
    BY <2>3, <2>4
  <2>6. QED
    BY <1>21, <2>5 DEF ReportBuild
<1>22. ASSUME ReportDone PROVE TypeOK'
  BY <1>22 DEF ReportDone
<1>23. QED
  BY <1>1, <1>2, <1>3, <1>4, <1>5, <1>6, <1>7, <1>8, <1>9, <1>10, <1>11, <1>12,
     <1>13, <1>14, <1>15, <1>16, <1>17, <1>18, <1>19, <1>20, <1>21, <1>22 DEF Next,
       PassStep, Faults, ReportStep

\* What watch_estimates checks of the types, for every value of the constants.
THEOREM WatchTypeCorrect == Spec => []TypeOK
<1>1. Init => TypeOK
  <2> SUFFICES ASSUME Init PROVE TypeOK
    OBVIOUS
  <2>1. /\ EmptyCompletion \in [sessions : SUBSET Sessions, zone : ZoneValues]
        /\ EmptyUpdate \in [sessions : SUBSET Sessions, zone : ZoneValues,
                            error : BOOLEAN, pending : BOOLEAN]
        /\ NoJoin \in JoinRecords
    BY ZoneTypes DEF EmptyCompletion, EmptyUpdate, NoJoin, JoinRecords
  <2>2. WorkerTypeOK
    <3>1. faults \in 0..MaxFaults
      BY MaxFaultsAssumption DEF Init, WorkerInit
    <3>2. completion = EmptyCompletion /\ update = EmptyUpdate
      BY DEF Init, WorkerInit
    <3>3. QED
      BY <2>1, <3>1, <3>2 DEF Init, WorkerInit, WorkerTypeOK
  <2>3. QED
    BY <2>1, <2>2, ZoneTypes, BoundsAssumption DEF Init, TypeOK, NothingLoaded
<1>2. QED
  BY <1>1, TypeInductive, PTL DEF Spec

-----------------------------------------------------------------------------
(***************************************************************************)
(* NoLostWake is not inductive: once the worker has counted, what remains  *)
(* of its turn still speaks for the calls it left pending, and the health  *)
(* record of an earlier turn, which the merge is about to overwrite, does  *)
(* not.  WakeInv adds both facts.                                          *)
(***************************************************************************)
Owed == asked \ estimated

Counted == wpc \in {"merge", "notify", "selfwake"}

WakeInv ==
  /\ Owed # {} => Attended
  /\ Counted /\ Owed # {} => wake \/ update.error \/ update.pending \/ stop
  /\ wpc \in {"notify", "selfwake"} /\ update.error => degraded

LEMMA OwedIsPending == TypeOK => asked \cap Pending = Owed
BY DEF TypeOK, Pending, Owed

\* Steps that leave the worker, the wake token and the flag alone and ask for
\* nothing new: most of those of the loop and all of af report's.
LEMMA Undisturbed ==
  ASSUME WakeInv, asked' \subseteq asked, estimated \subseteq estimated',
         UNCHANGED <<wpc, update, wake, degraded, stop>>
  PROVE  WakeInv'
<1>1. Owed' \subseteq Owed
  BY DEF Owed
<1>2. QED
  BY <1>1 DEF WakeInv, Attended, Counted

LEMMA WorkerKeepsWake ==
  ASSUME TypeOK, WakeInv, WorkerStep, UNCHANGED watchVars, "count" \notin FaultKinds
  PROVE  WakeInv'
<1> USE DEF WakeInv, Attended, Counted, watchVars, shared
<1>1. CASE Recv
  BY <1>1 DEF Recv, Owed
<1>2. CASE ReadConfig
  <2>1. config = 0 => Owed = {}
    BY DEF TypeOK, Owed
  <2>2. QED
    BY <1>2, <2>1 DEF ReadConfig, Owed
<1>3. CASE ZoneFactors
  BY <1>3 DEF ZoneFactors, Owed
<1>4. CASE Query
  BY <1>4 DEF Query, Owed
<1>5. CASE Estimate
  BY <1>5 DEF Estimate, Owed
<1>6. CASE Count
  <2>1. update' = [update EXCEPT !.pending = (Pending # {})]
    BY <1>6 DEF Count, Fault
  <2>2. update'.pending = (Pending # {})
    BY <2>1 DEF TypeOK, WorkerTypeOK
  <2>3. Owed # {} => Pending # {}
    BY OwedIsPending
  <2>4. Owed' = Owed /\ wpc' = "merge"
    BY <1>6 DEF Count, Owed
  <2>5. QED
    BY <2>2, <2>3, <2>4
<1>7. CASE Merge
  BY <1>7 DEF Merge, Owed
<1>8. CASE Notify
  BY <1>8 DEF Notify, Owed
<1>9. CASE SelfWake
  BY <1>9 DEF SelfWake, WakesAgain, Owed
<1>10. QED
  BY <1>1, <1>2, <1>3, <1>4, <1>5, <1>6, <1>7, <1>8, <1>9 DEF WorkerStep

LEMMA WakeInductive ==
  ASSUME TypeOK, WakeInv, [Next]_vars, "count" \notin FaultKinds
  PROVE  WakeInv'
<1> USE DEF vars, workerVars, watchVars, shared, worker, passLocals, report
<1>1. CASE UNCHANGED vars
  BY <1>1, Undisturbed
<1>2. CASE WorkerStep /\ UNCHANGED watchVars
  BY <1>2, WorkerKeepsWake
<1>3. CASE Request
  BY <1>3 DEF Request, SendWake, WakeInv, Attended
<1>4. CASE Crash
  BY <1>4 DEF Crash, WorkerRestart, WakeInv, Owed
<1>5. CASE DropWorker
  BY <1>5 DEF DropWorker, StopWorker, WakeInv, Attended
<1>6. ASSUME \/ \E e \in Events : Publish(e)
             \/ TakeNote \/ TakeCompletion \/ StartRebuild \/ SetZone \/ Load
             \/ (\E s \in Sessions : Build(s)) \/ LeaveLoop \/ JoinWorker
             \/ PassFails \/ Signal \/ ReportStep
             \/ \E S \in SUBSET Sessions : Ingest(S) \/ IngestFails(S)
      PROVE  WakeInv'
  <2>1. asked' = asked /\ estimated \subseteq estimated'
    BY <1>6 DEF Publish, TakeNote, TakeCompletion, StartRebuild, SetZone, Load, Build,
                LeaveLoop, JoinWorker, PassFails, Signal, Ingest, IngestFails,
                ReportStep,
                ReportIngest, ReportEstimate, ReportBuild, ReportDone
  <2>2. UNCHANGED <<wpc, update, wake, degraded, stop>>
    BY <1>6 DEF Publish, TakeNote, TakeCompletion, StartRebuild, SetZone, Load, Build,
                LeaveLoop, JoinWorker, PassFails, Signal, Ingest, IngestFails,
                ReportStep,
                ReportIngest, ReportEstimate, ReportBuild, ReportDone
  <2>3. QED
    BY <2>1, <2>2, Undisturbed
<1>7. QED
  BY <1>1, <1>2, <1>3, <1>4, <1>5, <1>6 DEF Next, PassStep, Faults

\* Whatever the interleaving of the loop, the worker, its failures, a kill and
\* af report: calls a pass asked for are never left lying while the worker
\* waits in good health.  Only a count that fails could do that.
THEOREM NoWakeIsLost ==
  ASSUME "count" \notin FaultKinds
  PROVE  Spec => []NoLostWake
<1>1. Init => WakeInv
  BY DEF Init, WorkerInit, WakeInv, Owed, Counted
<1>2. TypeOK /\ WakeInv /\ [Next]_vars => WakeInv'
  BY WakeInductive
<1>3. TypeOK /\ WakeInv => NoLostWake
  BY OwedIsPending DEF WakeInv, NoLostWake
<1>4. QED
  BY <1>1, <1>2, <1>3, WatchTypeCorrect, PTL DEF Spec

-----------------------------------------------------------------------------
(***************************************************************************)
(* ChangesReachJoins.  It rests on three facts about who holds what: a     *)
(* pass that starts has nothing left to rebuild from the one before, its   *)
(* new events are in the store, and the worker names the sessions of a     *)
(* batch before it stores the batch's estimates.                           *)
(***************************************************************************)
HandInv ==
  /\ pc \in {"loop", "taken", "zone", "request"} => todo = {}
  /\ seen \subseteq stored
  /\ wpc = "estimate" /\ ~update.error =>
       \A c \in batch : SessionOf[c] \in update.sessions

Covered == missed \cup InHand \cup Announced

LEMMA HandInductive ==
  ASSUME TypeOK, HandInv, [Next]_vars
  PROVE  HandInv'
<1> USE DEF HandInv, vars, workerVars, watchVars, shared, worker, passLocals, report
<1>1. CASE UNCHANGED vars
  BY <1>1
<1>2. CASE WorkerStep /\ UNCHANGED watchVars
  <2>1. CASE Query
    <3>1. \/ update'.error
          \/ update'.sessions = {SessionOf[c] : c \in batch'}
      BY <2>1 DEF Query, TypeOK, WorkerTypeOK
    <3>2. QED
      BY <1>2, <2>1, <3>1 DEF Query
  <2>2. CASE ~Query
    BY <1>2, <2>2 DEF WorkerStep, Recv, ReadConfig, ZoneFactors, Estimate, Count, Merge,
                      Notify, SelfWake
  <2>3. QED
    BY <2>1, <2>2
<1>3. CASE TakeCompletion
  BY <1>3 DEF TakeCompletion
<1>4. ASSUME NEW S \in SUBSET Sessions, Ingest(S) \/ IngestFails(S) PROVE HandInv'
  BY <1>4 DEF Ingest, IngestFails, EndOfPass
<1>5. CASE Request
  BY <1>5 DEF Request, EndOfPass
<1>6. ASSUME NEW s \in Sessions, Build(s) PROVE HandInv'
  BY <1>6 DEF Build
<1>7. CASE PassFails \/ LeaveLoop
  BY <1>7 DEF PassFails, LeaveLoop
<1>8. CASE Crash
  BY <1>8 DEF Crash, WorkerRestart
<1>9. CASE \/ \E e \in Events : Publish(e)
           \/ TakeNote \/ StartRebuild \/ SetZone \/ Load \/ Signal \/ DropWorker
           \/ JoinWorker \/ ReportStep
  BY <1>9 DEF Publish, TakeNote, StartRebuild, SetZone, Load, Signal, DropWorker,
              JoinWorker, ReportStep, ReportIngest, ReportEstimate, ReportBuild,
              ReportDone
<1>10. QED
  BY <1>1, <1>2, <1>3, <1>4, <1>5, <1>6, <1>7, <1>8, <1>9 DEF Next, PassStep, Faults

\* A step that changes neither the store nor a join has only to keep hold of
\* the sessions that are under way.
LEMMA StillCovered ==
  ASSUME ChangesReachJoins, UNCHANGED <<stored, estimated, joins>>,
  Covered \subseteq Covered'
  PROVE  ChangesReachJoins'
BY DEF ChangesReachJoins, Covered, Outdated, Facts

\* New facts outdate the joins of their sessions, and no others.
LEMMA NewFacts ==
  ASSUME ChangesReachJoins, NEW E, stored' = stored \cup E, UNCHANGED <<estimated,
  joins>>,
         Covered \cup SessionsOf(E) \subseteq Covered'
  PROVE  ChangesReachJoins'
<1> SUFFICES ASSUME NEW s \in Sessions, Outdated(s)', s \notin SessionsOf(E)
             PROVE  Outdated(s)
  BY DEF ChangesReachJoins, Covered
<1>1. Facts(s)' = Facts(s)
  BY DEF Facts, SessionsOf
<1>2. QED
  BY <1>1 DEF Outdated

\* So do new estimates.
LEMMA NewEstimates ==
  ASSUME ChangesReachJoins, NEW C, estimated' = estimated \cup C, UNCHANGED <<stored,
  joins>>,
         Covered \cup SessionsOf(C) \subseteq Covered'
  PROVE  ChangesReachJoins'
<1> SUFFICES ASSUME NEW s \in Sessions, Outdated(s)', s \notin SessionsOf(C)
             PROVE  Outdated(s)
  BY DEF ChangesReachJoins, Covered
<1>1. Facts(s)' = Facts(s) /\ Facts(s) \cap estimated' = Facts(s) \cap estimated
  BY DEF Facts, SessionsOf
<1>2. QED
  BY <1>1 DEF Outdated

\* A join built from the session's present facts is up to date; one built from
\* other facts stays among the sessions under way.
LEMMA NewJoin ==
  ASSUME TypeOK, ChangesReachJoins, NEW s \in Sessions, NEW F, NEW z,
         joins' = [joins EXCEPT ![s] = Built(F, z)], UNCHANGED <<stored, estimated>>,
         Covered \ {s} \subseteq Covered', F = Facts(s) \/ s \in Covered'
  PROVE  ChangesReachJoins'
<1> SUFFICES ASSUME NEW r \in Sessions, Outdated(r)' PROVE r \in Covered'
  BY DEF ChangesReachJoins, Covered
<1>1. Facts(r)' = Facts(r)
  BY DEF Facts
<1>2. CASE r = s
  <2>1. joins'[s] = [facts |-> F, estimates |-> F \cap estimated, zone |-> z]
    BY DEF TypeOK, Built
  <2>2. F # Facts(s)
    BY <1>1, <1>2, <2>1 DEF Outdated
  <2>3. QED
    BY <1>2, <2>2
<1>3. CASE r # s
  <2>1. joins'[r] = joins[r]
    BY <1>3 DEF TypeOK
  <2>2. Outdated(r)
    BY <1>1, <2>1 DEF Outdated
  <2>3. QED
    BY <1>3, <2>2 DEF ChangesReachJoins, Covered
<1>4. QED
  BY <1>2, <1>3

LEMMA WorkerCovers ==
  ASSUME TypeOK, HandInv, ChangesReachJoins, WorkerStep, UNCHANGED watchVars
  PROVE  ChangesReachJoins'
<1> USE DEF watchVars, passLocals, shared
<1>1. InHand' = InHand \/ Merge
  BY DEF WorkerStep, InHand, SessionsOf, Scope, StoredSessions, Recv, ReadConfig,
     ZoneFactors,
         Query, Estimate, Count, Notify, SelfWake
<1>2. CASE Estimate
  <2>1. CASE update.error \/ estimated' = estimated
    <3>1. Covered' = Covered \cup update'.sessions
      BY <1>1, <1>2 DEF Estimate, Covered, Announced, Merge
    <3>2. QED
      BY <1>2, <2>1, <3>1, StillCovered DEF Estimate
  <2>2. CASE ~update.error /\ estimated' = estimated \cup batch
    <3>1. Covered' = Covered \cup update'.sessions
      BY <1>1, <1>2, <2>2 DEF Estimate, Covered, Announced, Merge
    <3>2. update'.sessions = update.sessions
      BY <1>2 DEF Estimate, TypeOK, WorkerTypeOK
    <3>3. SessionsOf(batch) \subseteq update.sessions
      BY <1>2, <2>2 DEF Estimate, HandInv, SessionsOf
    <3>4. QED
      BY <1>2, <2>2, <3>1, <3>2, <3>3, NewEstimates DEF Estimate
  <2>3. QED
    BY <1>2, <2>1, <2>2 DEF Estimate
<1>3. CASE Merge
  BY <1>3, StillCovered DEF Merge, Merged, Covered, InHand, Announced, Scope,
     StoredSessions
<1>4. CASE ~Estimate /\ ~Merge
  <2>1. UNCHANGED <<stored, estimated, joins>>
    BY <1>4 DEF WorkerStep, Recv, ReadConfig, ZoneFactors, Query, Count, Notify,
       SelfWake
  <2>2. Announced \subseteq Announced'
    BY <1>4 DEF WorkerStep, Recv, ReadConfig, ZoneFactors, Query, Count, Notify,
       SelfWake,
                Announced, TypeOK, WorkerTypeOK
  <2>3. QED
    BY <1>1, <1>4, <2>1, <2>2, StillCovered DEF Covered
<1>5. QED
  BY <1>2, <1>3, <1>4

LEMMA ReachInductive ==
  ASSUME TypeOK, HandInv, ChangesReachJoins, [Next]_vars
  PROVE  ChangesReachJoins'
<1> USE DEF vars, workerVars, watchVars, shared, worker, passLocals, report
<1> USE DEF HandInv
<1>1. CASE UNCHANGED vars
  BY <1>1 DEF ChangesReachJoins, Outdated, Facts, InHand, Announced, SessionsOf, Scope,
              StoredSessions
<1>2. CASE WorkerStep /\ UNCHANGED watchVars
  BY <1>2, WorkerCovers
<1>3. CASE \/ \E e \in Events : Publish(e)
           \/ StartRebuild \/ Load \/ Signal \/ DropWorker \/ JoinWorker \/ ReportDone
  <2>1. Announced' = Announced /\ missed' = missed
    BY <1>3 DEF Publish, StartRebuild, Load, Signal, DropWorker, JoinWorker, ReportDone,
                Announced
  <2>2. InHand \subseteq InHand'
    BY <1>3 DEF Publish, StartRebuild, Load, Signal, DropWorker, JoinWorker, ReportDone,
                InHand, Scope, StoredSessions, SessionsOf
  <2>3. UNCHANGED <<stored, estimated, joins>>
    BY <1>3 DEF Publish, StartRebuild, Load, Signal, DropWorker, JoinWorker, ReportDone
  <2>4. QED
    BY <2>1, <2>2, <2>3, StillCovered DEF Covered
<1>4. CASE TakeNote
  BY <1>4, StillCovered DEF TakeNote, TakeToken, Covered, InHand, Announced
<1>5. CASE TakeCompletion
  <2>1. InHand \subseteq InHand' \cup missed'
    BY <1>5 DEF TakeCompletion, InHand, ToRebuild
  <2>2. Announced \subseteq Announced' \cup InHand
    BY <1>5 DEF TakeCompletion, TakeRecord, InHand, Announced
  <2>3. missed \subseteq missed' /\ UNCHANGED <<stored, estimated, joins>>
    BY <1>5 DEF TakeCompletion
  <2>4. QED
    BY <2>1, <2>2, <2>3, StillCovered DEF Covered
<1>6. ASSUME NEW S \in SUBSET Sessions, Ingest(S) PROVE ChangesReachJoins'
  <2> DEFINE new == {e \in spool : SessionOf[e] \in S}
  <2>1. stored' = stored \cup new /\ UNCHANGED <<estimated, joins, missed>>
    BY <1>6 DEF Ingest
  <2>2. Announced' = Announced /\ InHand = {}
    BY <1>6 DEF Ingest, Announced, InHand
  <2>3. SessionsOf(new) \subseteq InHand'
    <3>1. CASE new = {}
      BY <3>1 DEF SessionsOf
    <3>2. CASE new # {}
      BY <1>6, <3>2 DEF Ingest, InHand, SessionsOf
    <3>3. QED
      BY <3>1, <3>2
  <2>4. QED
    <3> HIDE DEF new
    <3>1. QED
      BY <2>1, <2>2, <2>3, NewFacts DEF Covered
<1>7. ASSUME NEW S \in SUBSET Sessions, IngestFails(S) PROVE ChangesReachJoins'
  <2>1. PICK new \in SUBSET {e \in spool : SessionOf[e] \in S} :
          stored' = stored \cup new /\ missed' = missed \cup SessionsOf(new)
    BY <1>7 DEF IngestFails
  <2>2. Announced' = Announced /\ InHand = {} /\ UNCHANGED <<estimated, joins>>
    BY <1>7 DEF IngestFails, Announced, InHand
  <2>3. QED
    BY <2>1, <2>2, NewFacts DEF Covered
<1>8. CASE SetZone
  <2>1. SessionsOf(seen) \subseteq InHand'
    BY <1>8 DEF SetZone, InHand, Scope, StoredSessions, SessionsOf
  <2>2. InHand = SessionsOf(seen) /\ Announced' = Announced
    BY <1>8 DEF SetZone, InHand, Announced
  <2>3. QED
    BY <1>8, <2>1, <2>2, StillCovered DEF SetZone, Covered
<1>9. CASE Request
  <2>1. InHand = Scope /\ Announced' = Announced
    BY <1>9 DEF Request, InHand, Announced
  <2>2. Scope \subseteq InHand' \cup missed' /\ missed \subseteq missed'
    BY <1>9 DEF Request, InHand
  <2>3. QED
    BY <1>9, <2>1, <2>2, StillCovered DEF Request, Covered
<1>10. ASSUME NEW s \in Sessions, Build(s) PROVE ChangesReachJoins'
  <2> DEFINE z == IF zone = NoZone THEN Unresolved(DefaultZone) ELSE zone
  <2>1. joins' = [joins EXCEPT ![s] = Built(loaded[s], z)] /\ UNCHANGED <<stored,
    estimated>>
    BY <1>10 DEF Build
  <2>2. InHand \ {s} \subseteq InHand' /\ Announced' = Announced
    BY <1>10 DEF Build, InHand, Announced
  <2>3. /\ missed \ {s} \subseteq missed'
        /\ loaded[s] = Facts(s) \/ s \in missed'
    BY <1>10 DEF Build
  <2>4. QED
    <3> HIDE DEF z
    <3>1. QED
      BY <2>1, <2>2, <2>3, NewJoin DEF Covered
<1>11. CASE PassFails
  <2>1. InHand \subseteq missed' /\ missed \subseteq missed' /\ Announced' = Announced
    BY <1>11 DEF PassFails, InHand, Announced
  <2>2. QED
    BY <1>11, <2>1, StillCovered DEF PassFails, Covered
<1>12. CASE LeaveLoop
  <2>1. InHand \subseteq missed' /\ missed \subseteq missed' /\ Announced' = Announced
    BY <1>12 DEF LeaveLoop, InHand, Announced
  <2>2. QED
    BY <1>12, <2>1, StillCovered DEF LeaveLoop, Covered
<1>13. CASE Crash
  BY <1>13 DEF Crash, ChangesReachJoins, Outdated, Facts
<1>14. CASE ReportIngest
  <2>1. InHand \subseteq InHand' /\ Announced' = Announced
    BY <1>14 DEF ReportIngest, InHand, Announced, Scope, StoredSessions, SessionsOf
  <2>2. QED
    BY <1>14, <2>1, NewFacts DEF ReportIngest, Covered
<1>15. CASE ReportEstimate
  <2>1. PICK done \in SUBSET Pending :
          estimated' = estimated \cup done /\ missed' = missed \cup SessionsOf(done)
    BY <1>15 DEF ReportEstimate
  <2>2. InHand' = InHand /\ Announced' = Announced /\ UNCHANGED <<stored, joins>>
    BY <1>15 DEF ReportEstimate, InHand, Announced, Scope, StoredSessions, SessionsOf
  <2>3. QED
    BY <2>1, <2>2, NewEstimates DEF Covered
<1>16. ASSUME NEW s \in Sessions, ReportBuild(s) PROVE ChangesReachJoins'
  <2>1. InHand' = InHand /\ Announced' = Announced /\ missed' = missed \ {s}
    BY <1>16 DEF ReportBuild, InHand, Announced, Scope, StoredSessions, SessionsOf
  <2>2. UNCHANGED <<stored, estimated>>
    BY <1>16 DEF ReportBuild
  <2>3. QED
    BY <1>16, <2>1, <2>2, NewJoin DEF ReportBuild, Covered
<1>17. QED
  BY <1>1, <1>2, <1>3, <1>4, <1>5, <1>6, <1>7, <1>8, <1>9, <1>10, <1>11, <1>12, <1>13,
     <1>14, <1>15, <1>16 DEF Next, PassStep, Faults, ReportStep

\* Whatever fails, and whatever another process does to the database: a join
\* that no longer says what the store says is under way to being built again,
\* or one of those failures is to blame.
THEOREM EveryChangeIsUnderWay == Spec => []ChangesReachJoins
<1>1. Init => HandInv /\ ChangesReachJoins
  BY DEF Init, WorkerInit, HandInv, ChangesReachJoins, Outdated, Facts, NoJoin
<1>2. TypeOK /\ HandInv /\ [Next]_vars => HandInv'
  BY HandInductive
<1>3. TypeOK /\ HandInv /\ ChangesReachJoins /\ [Next]_vars => ChangesReachJoins'
  BY ReachInductive
<1>4. QED
  BY <1>1, <1>2, <1>3, WatchTypeCorrect, PTL DEF Spec

-----------------------------------------------------------------------------
(***************************************************************************)
(* OneZoneAtRest.  While no report has run, a stored session whose join    *)
(* was built under another zone than the watch's is about to be rebuilt by *)
(* the pass at hand, or a failed pass is to blame.  The last pass, which   *)
(* drops what it had in hand, never comes to rest; a kill forgets the      *)
(* zone, and the pass that finds it again rebuilds every session.          *)
(***************************************************************************)
\* The sessions failed passes left behind.
Dropped == IF "pass" \in FaultKinds THEN missed ELSE {}

ZoneInv ==
  /\ rpc # "idle" => reports # 0
  /\ reports = 0 /\ term # "final" /\ zone # NoZone =>
       \A s \in StoredSessions : joins[s].zone.id = zone.id \/ s \in Dropped \cup InHand

\* A step that changes no join and leaves the zone's id alone has only to keep
\* hold of what is in hand, and of the sessions it stores for the first time.
LEMMA StillUnderway ==
  ASSUME ZoneInv, rpc' # "idle" => reports' # 0, joins' = joins,
         reports' = 0 => reports = 0, term' # "final" => term # "final",
         zone' # NoZone => zone # NoZone /\ zone'.id = zone.id,
         NEW E, stored' = stored \cup E,
         Dropped \cup InHand \cup SessionsOf(E) \subseteq Dropped' \cup InHand'
  PROVE  ZoneInv'
<1>1. StoredSessions' \subseteq StoredSessions \cup SessionsOf(E)
  BY DEF StoredSessions, SessionsOf
<1>2. QED
  BY <1>1 DEF ZoneInv

LEMMA ZoneInductive ==
  ASSUME TypeOK, HandInv, ZoneInv, [Next]_vars
  PROVE  ZoneInv'
<1> USE DEF vars, workerVars, watchVars, shared, worker, passLocals, report
<1>0. SessionsOf({}) = {} /\ stored = stored \cup {}
  BY DEF SessionsOf
<1>1. CASE UNCHANGED vars
  BY <1>1 DEF ZoneInv, Dropped, InHand, SessionsOf, Scope, StoredSessions
<1>2. CASE WorkerStep /\ UNCHANGED watchVars
  <2>1. stored' = stored
    BY <1>2, WorkerTypeInductive DEF TypeOK
  <2>2. InHand \subseteq InHand'
    <3>1. completion.sessions \subseteq completion'.sessions
      BY <1>2 DEF WorkerStep, Recv, ReadConfig, ZoneFactors, Query, Estimate, Count,
                  Merge, Merged, Notify, SelfWake
    <3>2. QED
      BY <1>2, <2>1, <3>1 DEF InHand, SessionsOf, Scope, StoredSessions
  <2>3. QED
    BY <1>0, <1>2, <2>1, <2>2, StillUnderway DEF ZoneInv, Dropped
<1>3. CASE \/ \E e \in Events : Publish(e)
           \/ TakeNote \/ StartRebuild \/ Load \/ Signal \/ DropWorker \/ JoinWorker
           \/ ReportDone \/ ReportEstimate
  <2>1. /\ missed \subseteq missed' /\ stored' = stored
        /\ UNCHANGED <<joins, reports, zone>>
    BY <1>3 DEF Publish, TakeNote, StartRebuild, Load, Signal, DropWorker, JoinWorker,
                ReportDone, ReportEstimate
  <2>2. term' # "final" => term # "final"
    BY <1>3 DEF Publish, TakeNote, StartRebuild, Load, Signal, DropWorker, JoinWorker,
                ReportDone, ReportEstimate
  <2>3. rpc' # "idle" => rpc # "idle"
    BY <1>3 DEF Publish, TakeNote, StartRebuild, Load, Signal, DropWorker, JoinWorker,
                ReportDone, ReportEstimate
  <2>4. InHand \subseteq InHand'
    BY <1>3 DEF Publish, TakeNote, StartRebuild, Load, Signal, DropWorker, JoinWorker,
                ReportDone, ReportEstimate, InHand, Scope, StoredSessions, SessionsOf
  <2>5. QED
    BY <1>0, <2>1, <2>2, <2>3, <2>4, StillUnderway DEF ZoneInv, Dropped
<1>4. CASE TakeCompletion
  <2>1. /\ UNCHANGED <<joins, reports, rpc, term, stored>>
        /\ Dropped \subseteq Dropped'
        /\ InHand \subseteq Dropped' \cup InHand'
    BY <1>4 DEF TakeCompletion, InHand, ToRebuild, HandInv, Dropped
  <2>2. CASE completion.zone = NoZone
    BY <1>0, <1>4, <2>1, <2>2, StillUnderway DEF TakeCompletion, ZoneInv
  <2>3. CASE completion.zone # NoZone
    <3>1. StoredSessions \subseteq Dropped' \cup InHand'
      BY <1>4, <2>3 DEF TakeCompletion, ToRebuild, InHand, Fault, Dropped
    <3>2. StoredSessions' = StoredSessions
      BY <2>1 DEF StoredSessions, SessionsOf
    <3>3. QED
      BY <2>1, <3>1, <3>2 DEF ZoneInv
  <2>4. QED
    BY <2>2, <2>3
<1>5. ASSUME NEW S \in SUBSET Sessions, Ingest(S) PROVE ZoneInv'
  <2> DEFINE new == {e \in spool : SessionOf[e] \in S}
  <2>1. stored' = stored \cup new
        /\ UNCHANGED <<joins, reports, rpc, term, zone, missed>>
    BY <1>5 DEF Ingest
  <2>2. InHand = {}
    BY <1>5 DEF Ingest, InHand, HandInv
  <2>3. SessionsOf(new) \subseteq InHand'
    <3>1. CASE new = {}
      BY <3>1 DEF SessionsOf
    <3>2. CASE new # {}
      BY <1>5, <3>2 DEF Ingest, InHand, SessionsOf
    <3>3. QED
      BY <3>1, <3>2
  <2>4. QED
    <3> HIDE DEF new
    <3>1. QED
      BY <2>1, <2>2, <2>3, StillUnderway DEF ZoneInv, Dropped
<1>6. ASSUME NEW S \in SUBSET Sessions, IngestFails(S) PROVE ZoneInv'
  <2>1. PICK new \in SUBSET {e \in spool : SessionOf[e] \in S} :
          stored' = stored \cup new /\ Dropped' = Dropped \cup SessionsOf(new)
    BY <1>6 DEF IngestFails, Fault, Dropped
  <2>2. InHand = {} /\ UNCHANGED <<joins, reports, rpc, term, zone>>
    BY <1>6 DEF IngestFails, InHand, HandInv
  <2>3. QED
    BY <2>1, <2>2, StillUnderway DEF ZoneInv
<1>7. CASE SetZone
  <2>1. /\ UNCHANGED <<joins, reports, rpc, term, stored, missed, seen>>
        /\ prevZone' = zone /\ pc = "zone" /\ pc' = "request" /\ todo' = todo
    BY <1>7 DEF SetZone
  <2>2. CASE zone # NoZone /\ zone'.id = zone.id
    <3>1. InHand \subseteq InHand'
      BY <2>1, <2>2 DEF InHand, Scope, SessionsOf
    <3>2. QED
      BY <1>0, <2>1, <2>2, <3>1, StillUnderway DEF ZoneInv, Dropped
  <2>3. CASE zone = NoZone \/ zone'.id # zone.id
    <3>1. StoredSessions' \subseteq InHand'
      BY <2>1, <2>3 DEF InHand, Scope
    <3>2. QED
      BY <2>1, <3>1 DEF ZoneInv
  <2>4. QED
    BY <2>2, <2>3
<1>8. CASE Request
  <2>1. /\ UNCHANGED <<joins, reports, rpc, term, stored, zone>>
        /\ Dropped \subseteq Dropped' /\ InHand \subseteq Dropped' \cup InHand'
    BY <1>8 DEF Request, InHand, HandInv, Fault, Dropped
  <2>2. QED
    BY <1>0, <2>1, StillUnderway DEF ZoneInv
<1>9. ASSUME NEW s \in Sessions, Build(s) PROVE ZoneInv'
  <2> DEFINE z == IF zone = NoZone THEN Unresolved(DefaultZone) ELSE zone
  <2>1. /\ joins' = [joins EXCEPT ![s] = Built(loaded[s], z)]
        /\ UNCHANGED <<reports, rpc, term, stored, zone>>
    BY <1>9 DEF Build
  <2>2. Dropped \ {s} \subseteq Dropped' /\ InHand \ {s} \subseteq InHand'
    BY <1>9 DEF Build, InHand, Dropped
  <2>3. \A r \in StoredSessions : r \in Sessions
    BY SessionOfAssumption DEF StoredSessions, SessionsOf, TypeOK, WorkerTypeOK
  <2>4. \A r \in Sessions : IF r = s THEN joins'[r].zone = z ELSE joins'[r] = joins[r]
    BY <2>1 DEF TypeOK, Built
  <2>5. StoredSessions' = StoredSessions
    BY <2>1 DEF StoredSessions, SessionsOf
  <2>6. QED
    BY <2>1, <2>2, <2>3, <2>4, <2>5 DEF ZoneInv
<1>10. CASE PassFails
  <2>1. /\ UNCHANGED <<joins, reports, rpc, term, stored>>
        /\ zone' # NoZone => zone' = zone
        /\ Dropped \subseteq Dropped' /\ InHand \subseteq Dropped'
    BY <1>10 DEF PassFails, InHand, Fault, Dropped
  <2>2. QED
    BY <1>0, <2>1, StillUnderway DEF ZoneInv
<1>11. CASE LeaveLoop \/ Crash
  BY <1>11 DEF LeaveLoop, Crash, ZoneInv
<1>12. CASE ReportIngest
  BY <1>12 DEF ReportIngest, ZoneInv, TypeOK
<1>13. ASSUME NEW s \in Sessions, ReportBuild(s) PROVE ZoneInv'
  BY <1>13 DEF ReportBuild, ZoneInv
<1>14. QED
  BY <1>1, <1>2, <1>3, <1>4, <1>5, <1>6, <1>7, <1>8, <1>9, <1>10, <1>11, <1>12, <1>13
     DEF Next, PassStep, Faults, ReportStep

\* As long as no report writes joins of its own and no failed pass has left a
\* session behind, every join at rest was built under the zone the watch
\* believes in, whatever the worker, a stop signal or a kill did in between.
THEOREM JoinsShareTheZone == Spec => [](reports = 0 /\ Dropped = {} => OneZoneAtRest)
<1>1. Init => HandInv /\ ZoneInv
  BY DEF Init, WorkerInit, HandInv, ZoneInv
<1>2. TypeOK /\ HandInv /\ [Next]_vars => HandInv'
  BY HandInductive
<1>3. TypeOK /\ HandInv /\ ZoneInv /\ [Next]_vars => ZoneInv'
  BY ZoneInductive
<1>4. HandInv /\ ZoneInv => (reports = 0 /\ Dropped = {} => OneZoneAtRest)
  BY DEF OneZoneAtRest, Quiet, HandInv, ZoneInv, InHand
<1>5. QED
  BY <1>1, <1>2, <1>3, <1>4, WatchTypeCorrect, PTL DEF Spec

\* A watch that has the database to itself and whose passes do not fail keeps
\* its joins under one zone, for any number of kills and of failed estimates.
COROLLARY OneZoneWithoutFailures ==
  ASSUME "pass" \notin FaultKinds, MaxReports = 0
  PROVE  Spec => []OneZoneAtRest
<1>1. TypeOK => reports = 0 /\ Dropped = {}
  BY DEF TypeOK, Dropped
<1>2. QED
  BY <1>1, JoinsShareTheZone, WatchTypeCorrect, PTL
=============================================================================
