-------------------------- MODULE SamplerSupervisor --------------------------
(***************************************************************************)
(* One shared energy sampler for many sessions.                            *)
(*                                                                         *)
(* `af watch` keeps one Python sampler alive while it knows a session, and *)
(* tells it over a pipe which sessions to measure; the sampler applies an   *)
(* op only at the end of the window in which it arrived.  Three things     *)
(* happen behind the supervisor's back: the sampler dies, and only a later *)
(* pass notices; sessions fall silent and are retired, and come back; and  *)
(* what the supervisor believes the sampler to hold (watch_sent) is not    *)
(* what it holds.  The sampler divides each window's energy among the      *)
(* sessions it holds, so a wrong set is wrong energy for everybody.        *)
(***************************************************************************)
EXTENDS Naturals, Sequences, FiniteSets, Functions

CONSTANTS Sessions,    \* session ids, as numbers in their sort order
          MaxDeaths,   \* bound: deaths of a sampler
          MaxFails,    \* bound: spawns, ingests and rebuilds that fail
          MaxOps       \* bound: ops waiting in the pipe

ASSUME SessionsAssumption == Sessions \subseteq Nat /\ IsFiniteSet(Sessions)
ASSUME BoundsAssumption == MaxDeaths \in Nat /\ MaxFails \in Nat /\ MaxOps \in Nat

VARIABLES
  hooked,     \* sessions with an unread event of an agent's hook
  sampled,    \* sessions with an unread sample of their own
  rooted,     \* sessions whose stored facts name the root process
  known,      \* Watch.sessions
  idle,       \* known sessions silent for SESSION_IDLE_TIMEOUT
  watchSent,  \* SessionState.watch_sent
  proc,       \* Watch.sampler: none, or a process that is alive or dead
  backoff,    \* has SamplerRetry.next_attempt yet to come?
  gaps,       \* coverage gaps published
  pc, refresh,   \* the pass: next step, sessions to refresh
  leaving,    \* has Watch::shutdown run?
  ops,        \* control ops in the sampler's pipe and queue
  outputs,    \* sessions the sampler writes samples for
  watches,    \* sessions whose process tree it measures
  deaths, fails

watchState == <<known, watchSent, proc, backoff, gaps>>
sampler == <<ops, outputs, watches>>
bounds == <<deaths, fails>>
vars == <<hooked, sampled, rooted, known, idle, watchSent, proc, backoff, gaps,
          pc, refresh, leaving, ops, outputs, watches, deaths, fails>>

Ops == [op : {"watch", "remove"}, session : Sessions]

TypeOK ==
  /\ hooked \subseteq Sessions /\ sampled \subseteq Sessions
  /\ rooted \subseteq Sessions
  /\ known \subseteq Sessions /\ idle \subseteq Sessions /\ watchSent \subseteq known
  /\ proc \in {"none", "alive", "dead"}
  /\ backoff \in BOOLEAN
  /\ gaps \in 0..MaxDeaths
  /\ pc \in {"idle", "retire", "reap", "ensure", "refresh", "ended"}
  /\ refresh \subseteq Sessions
  /\ leaving \in BOOLEAN
  /\ ops \in Seq(Ops)
  /\ outputs \subseteq Sessions /\ watches \subseteq outputs
  /\ deaths \in 0..MaxDeaths /\ fails \in 0..MaxFails

Init ==
  /\ hooked = {} /\ sampled = {} /\ rooted = {}
  /\ known = {} /\ idle = {} /\ watchSent = {}
  /\ proc = "none" /\ backoff = FALSE /\ gaps = 0
  /\ pc = "idle" /\ refresh = {} /\ leaving = FALSE
  /\ ops = <<>> /\ outputs = {} /\ watches = {}
  /\ deaths = 0 /\ fails = 0

NoSampler == ops' = <<>> /\ outputs' = {} /\ watches' = {}

Op(name, s) == [op |-> name, session |-> s]

\* (mutant) A watch op is passed over, as one without a usable pid list is.
AppliedNoWatch(held, o) == IF o.op = "watch" THEN held ELSE held \ {o.session}

\* apply_op on the set of sessions held: watch adds, remove_session takes away.
Applied(held, o) == IF o.op = "watch" THEN held \cup {o.session} ELSE held \ {o.session}

\* What is held once a queue is applied: of the ops about a session the last one
\* counts.
HeldAfter(held, queue) ==
  {s \in Sessions :
     \/ s \in held /\ \A i \in DOMAIN queue : queue[i].session # s
     \/ \E i \in DOMAIN queue : /\ queue[i] = Op("watch", s)
                                /\ \A j \in DOMAIN queue : j > i => queue[j].session # s}

------------------------------------------------------------------------------
(* What happens around the supervisor *)

\* An agent's hook writes an event of s.
Hook(s) ==
  /\ hooked' = hooked \cup {s}
  /\ UNCHANGED <<sampled, rooted, watchState, idle, pc, refresh, sampler, leaving, bounds>>

\* Ten minutes without one.
FallIdle(s) ==
  /\ s \in known \ idle /\ pc # "retire"
  /\ Len(ops) < MaxOps
  /\ idle' = idle \cup {s}
  /\ UNCHANGED <<hooked, sampled, rooted, watchState, pc, refresh, sampler, leaving, bounds>>

BackoffElapses ==
  /\ backoff
  /\ backoff' = FALSE
  /\ UNCHANGED <<hooked, sampled, rooted, known, idle, watchSent, proc, gaps, pc, refresh,
                 sampler, leaving, bounds>>

\* End of a window: a sample for every session held, measured or not.
SampleWindow ==
  /\ proc = "alive"
  /\ sampled' = sampled \cup outputs
  /\ UNCHANGED <<hooked, rooted, watchState, idle, pc, refresh, sampler, leaving, bounds>>

\* Ops are applied in order after the window; one that the reader thread had not
\* read by then waits for the next.
ApplyOp ==
  /\ proc = "alive"
  /\ ops # <<>>
  /\ outputs' = Applied(outputs, Head(ops))
  /\ watches' = Applied(watches, Head(ops))
  /\ ops' = Tail(ops)
  /\ UNCHANGED <<hooked, sampled, rooted, watchState, idle, pc, refresh, leaving, bounds>>

Die ==
  /\ proc = "alive"
  /\ deaths < MaxDeaths
  /\ proc' = "dead"
  /\ deaths' = deaths + 1
  /\ NoSampler
  /\ UNCHANGED <<hooked, sampled, rooted, known, idle, watchSent, backoff, gaps, pc,
                 refresh, leaving, fails>>

------------------------------------------------------------------------------
(* A pass *)

\* A pass over the spool files of S, none of them for PassKind::Supervise.  Hook
\* events make their session known and fresh, samples do not.  Sessions to
\* refresh are the touched ones, or all stored ones after a zone change.
BeginPass(S) ==
  /\ pc = "idle"
  /\ leaving => S = Sessions
  /\ LET active == hooked \cap S
         touched == active \cup (sampled \cap S) IN
       /\ hooked' = hooked \ S
       /\ sampled' = sampled \ S
       /\ \E booted \in SUBSET active : rooted' = rooted \cup booted
       /\ known' = known \cup active
       /\ idle' = idle \ active
       /\ refresh' \in {touched, IF touched = {} THEN {} ELSE rooted'}
  /\ pc' = "retire"
  /\ UNCHANGED <<watchSent, proc, backoff, gaps, sampler, leaving, bounds>>

\* The ingest failed on one file: what it had read is stored and read for good,
\* and no session becomes known by it.
IngestFails(S) ==
  /\ pc = "idle"
  /\ leaving => S = Sessions
  /\ fails < MaxFails
  /\ fails' = fails + 1
  /\ \E read \in SUBSET S :
       /\ hooked' = hooked \ read
       /\ sampled' = sampled \ read
       /\ \E booted \in SUBSET (hooked \cap read) : rooted' = rooted \cup booted
  /\ pc' = IF leaving THEN "ended" ELSE "idle"
  /\ UNCHANGED <<watchState, idle, refresh, sampler, leaving, deaths>>

\* PassKind::EstimatesReady: sessions are refreshed, nothing is supervised.
BeginRefresh(S) ==
  /\ pc = "idle" /\ ~leaving
  /\ S \subseteq rooted /\ S # {}
  /\ refresh' = S
  /\ pc' = "refresh"
  /\ UNCHANGED <<hooked, sampled, rooted, watchState, idle, sampler, leaving, bounds>>

\* (mutant) The ops for the sampler are forgotten.
RemovalsNone(S) == {<<>>}

\* One remove_session per retired session; ops about different sessions commute,
\* so their order is left open.
Removals(S) == {[i \in DOMAIN order |-> Op("remove", order[i])] :
                  order \in Bijection(1..Cardinality(S), S)}

\* retire_idle_sessions.  With nobody left the sampler is asked to shut down and
\* dropped, which kills it; its last window may or may not have been written.
Retire ==
  /\ pc = "retire"
  /\ LET gone == known \cap idle IN
       /\ known' = known \ gone
       /\ watchSent' = watchSent \ gone
       /\ idle' = {}
       /\ IF known' = {}
            THEN /\ proc' = "none" /\ NoSampler
                 /\ sampled' \in {sampled, sampled \cup outputs}
            ELSE /\ \E removals \in Removals(gone) :
                      ops' = IF proc = "alive" THEN ops \o removals ELSE ops
                 /\ UNCHANGED <<proc, outputs, watches, sampled>>
  /\ pc' = "reap"
  /\ UNCHANGED <<hooked, rooted, backoff, gaps, refresh, leaving, bounds>>

\* (mutant) The process stays in its slot and is reported again by every pass.
ReapEveryPass ==
  /\ pc = "reap"
  /\ pc' = "ensure"
  /\ gaps' = IF proc = "dead" THEN gaps + 1 ELSE gaps
  /\ UNCHANGED <<hooked, sampled, rooted, known, idle, watchSent, proc, backoff, refresh,
                 sampler, leaving, bounds>>

\* (mutant) The death is noticed only by a failing write.
ReapNever ==
  /\ pc = "reap"
  /\ pc' = "ensure"
  /\ UNCHANGED <<hooked, sampled, rooted, watchState, idle, refresh, sampler, leaving, bounds>>

\* reap_dead_sampler: the operating system is asked, not the pipe.
Reap ==
  /\ pc = "reap"
  /\ pc' = "ensure"
  /\ IF proc = "dead"
       THEN proc' = "none" /\ watchSent' = {} /\ backoff' = TRUE /\ gaps' = gaps + 1
       ELSE UNCHANGED <<proc, watchSent, backoff, gaps>>
  /\ UNCHANGED <<hooked, sampled, rooted, known, idle, refresh, sampler, leaving, bounds>>

\* A failed spawn, or a sampler that did not answer the ping in time.
SpawnFails ==
  /\ pc = "ensure"
  /\ known # {} /\ proc = "none" /\ ~backoff
  /\ fails < MaxFails
  /\ fails' = fails + 1
  /\ backoff' = TRUE
  /\ pc' = "refresh"
  /\ UNCHANGED <<hooked, sampled, rooted, known, idle, watchSent, proc, gaps, refresh,
                 sampler, leaving, deaths>>

First(S) == CHOOSE s \in S : \A r \in S : s <= r

\* (mutant) A new sampler starts while the old one's ops count as sent.
SentAfterSpawnKept == watchSent

\* Every session has to be announced to the new sampler again.
SentAfterSpawn == {}

\* ensure_sampler.  The command line names the first known session; that one has
\* an output from the start, and no process tree until its watch op.
Ensure ==
  /\ pc = "ensure"
  /\ pc' = "refresh"
  /\ IF known # {} /\ proc = "none" /\ ~backoff
       THEN /\ proc' = "alive"
            /\ watchSent' = SentAfterSpawn
            /\ outputs' = {First(known)} /\ watches' = {} /\ ops' = <<>>
       ELSE UNCHANGED <<proc, watchSent, sampler>>
  /\ UNCHANGED <<hooked, sampled, rooted, known, idle, backoff, gaps, refresh, leaving, bounds>>

\* send_watch_op writes to a live sampler; the pipe of a dead one may still take
\* the write, or fail it.
SendWatch(s) ==
  /\ s \in (rooted \cap known) \ watchSent
  /\ \/ /\ proc = "alive"
        /\ ops' = Append(ops, Op("watch", s))
        /\ watchSent' = watchSent \cup {s}
        /\ UNCHANGED <<proc, backoff, gaps>>
     \/ /\ proc = "dead"
        /\ watchSent' = watchSent \cup {s}
        /\ UNCHANGED <<ops, proc, backoff, gaps>>
     \/ /\ proc = "dead"
        /\ proc' = "none" /\ backoff' = TRUE /\ gaps' = gaps + 1
        /\ UNCHANGED <<ops, watchSent>>

NothingToSend(s) ==
  /\ s \notin (rooted \cap known) \ watchSent \/ proc = "none"
  /\ UNCHANGED <<ops, watchSent, proc, backoff, gaps>>

\* refresh_session, for each of them.
Refresh(s) ==
  /\ pc = "refresh"
  /\ s \in refresh
  /\ refresh' = refresh \ {s}
  /\ SendWatch(s) \/ NothingToSend(s)
  /\ UNCHANGED <<hooked, sampled, rooted, known, idle, pc, outputs, watches, leaving, bounds>>

\* The pass is over.  After the last one the watch is dropped, and a sampler
\* that pass may have spawned is killed with it.
EndPass ==
  /\ pc = "refresh"
  /\ refresh = {}
  /\ IF leaving THEN pc' = "ended" /\ proc' = "none" /\ NoSampler
                ELSE pc' = "idle" /\ UNCHANGED <<proc, sampler>>
  /\ UNCHANGED <<hooked, sampled, rooted, known, idle, watchSent, backoff, gaps, refresh,
                 leaving, bounds>>

\* The rebuild failed: the sessions not yet refreshed are not, this time.
RebuildFails ==
  /\ pc = "refresh"
  /\ refresh # {}
  /\ fails < MaxFails
  /\ fails' = fails + 1
  /\ refresh' = {}
  /\ UNCHANGED <<hooked, sampled, rooted, watchState, idle, pc, sampler, leaving, deaths>>

\* Watch::shutdown: the sampler may write its last window, and is gone.
Shutdown ==
  /\ pc = "idle" /\ ~leaving
  /\ leaving' = TRUE
  /\ proc' = "none" /\ NoSampler
  /\ sampled' \in {sampled, sampled \cup outputs}
  /\ UNCHANGED <<hooked, rooted, known, idle, watchSent, backoff, gaps, pc, refresh,
                 bounds>>

PassStep == Retire \/ Reap \/ Ensure \/ EndPass \/ \E s \in Sessions : Refresh(s)

Failures == SpawnFails \/ RebuildFails \/ \E S \in SUBSET Sessions : IngestFails(S)

World == \/ \E s \in Sessions : Hook(s) \/ FallIdle(s)
         \/ BackoffElapses \/ SampleWindow \/ ApplyOp \/ Die

Next == \/ World
        \/ \E S \in SUBSET Sessions : BeginPass(S) \/ BeginRefresh(S)
        \/ PassStep \/ Failures \/ Shutdown

Spec == Init /\ [][Next]_vars

(* The loop runs every pass to its end; RECONCILE brings a full one again and   *)
(* again, with other passes between, hence strong fairness.  A live sampler     *)
(* closes its windows and applies what it was sent; time passes for a backoff.  *)
(* No hook has to fire, nobody falls silent, nothing fails of necessity.        *)
FairSpec == /\ Spec
            /\ SF_vars(BeginPass(Sessions)) /\ WF_vars(PassStep)
            /\ WF_vars(SampleWindow) /\ WF_vars(ApplyOp) /\ WF_vars(BackoffElapses)

------------------------------------------------------------------------------
(* Correctness *)

\* What the supervisor believes is what the sampler will hold: a session counts
\* as announced exactly if its process tree is measured once the ops in the pipe
\* are applied, whatever was retired, came back or died in between.
BeliefIsExact == proc = "alive" => HeldAfter(watches, ops) = watchSent

\* Each window's energy is divided among sessions the supervisor still knows,
\* up to ops on their way: a retired session takes no share for good.
OnlyKnownShareEnergy == proc = "alive" => HeldAfter(outputs, ops) \subseteq known

\* A dead sampler's place is not cleared without a coverage gap being published
\* for it, exactly one, while a session is left that it was to measure.
DeathIsAGap ==
  [][/\ gaps' # gaps => proc = "dead" /\ proc' = "none" /\ gaps' = gaps + 1
     /\ proc = "dead" /\ proc' # "dead" /\ known' # {} /\ ~leaving' => gaps' # gaps]_vars

\* A death is followed by another sampler, unless nobody is left to measure.
DeadIsReplaced == (proc = "dead") ~> (proc = "alive" \/ known = {} \/ leaving)

Settled(s) == <>[](proc = "alive" /\ s \in known \cap rooted)

\* A session that keeps working is measured in the end, after any deaths.
BusyIsMeasured ==
  \A s \in Sessions : Settled(s) /\ []<>(s \in hooked) => <>[](s \in watches)

\* "A sampler is (re)spawned for each of them, not only for the sessions touched
\* by the current pass": watch.rs says so of every known session.  So after a
\* pass that left a live sampler, each of them has been announced to it, or is
\* going to be, because the sampler already writes samples for it or an event
\* of it lies unread.
KnownIsAnnounced ==
  pc = "idle" /\ proc = "alive" =>
    known \cap rooted \subseteq watchSent \cup HeldAfter(outputs, ops) \cup hooked \cup sampled
=============================================================================
