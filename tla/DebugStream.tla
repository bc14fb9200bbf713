----------------------------- MODULE DebugStream -----------------------------
(***************************************************************************)
(* The debug console on the stream of `af watch --debug`.                  *)
(*                                                                         *)
(* AfClient takes a snapshot and subscribes from where it ends.  When the   *)
(* stream breaks two mechanisms compete to restore it: the browser         *)
(* reconnects the EventSource by itself, with the last id it saw, and a    *)
(* timer of AfClient closes it and opens another at lastSeq.  A `reset`    *)
(* closes the current stream and starts over with a snapshot, whose answer *)
(* may come after the timer has opened a stream of its own.                *)
(***************************************************************************)
EXTENDS DebugServer

CONSTANTS Fetches,      \* bound: snapshot requests under way at once, as numbers
          MaxLosses,    \* bound: connections the network breaks
          MaxFails,     \* bound: requests that are refused or fail
          MaxRestarts   \* bound: restarts of the server

ASSUME FetchesAssumption == Fetches \subseteq Nat
ASSUME BoundsAssumption == MaxLosses \in Nat /\ MaxFails \in Nat /\ MaxRestarts \in Nat

VARIABLES
  es,        \* AfClient.es: the current stream, 0 for null
  st,        \* readyState of every EventSource not yet collected
  cursor,    \* what an EventSource connects with: its last event id, at first ?from=
  told,      \* the EventSources that were given a frame, and so an id
  lastSeq,   \* AfClient.lastSeq
  timer,     \* AfClient.reconnectTimer: what the pending retry redoes
  fetch,     \* snapshot requests: where they are, and the answer's as_of_seq
  heard,     \* frames of this server the console was given, or told are past
  carried,   \* the last number of a former server that the console still held
  mixed,     \* have two streams or snapshots ever been under way at once?
  losses, fails, restarts

client == <<es, st, cursor, told, lastSeq, timer, fetch, heard>>
bounds == <<losses, fails, restarts>>
vars == <<server, client, carried, mixed, bounds>>

Cursors == EmptyCursor..(MaxFrames - 1)
NoFetch == [phase |-> "idle", asOf |-> EmptyCursor]

TypeOK ==
  /\ ServerTypeOK
  /\ es \in Streams \cup {0}
  /\ st \in [Streams -> {"free", "connecting", "open", "closed"}]
  /\ cursor \in [Streams -> Cursors]
  /\ told \subseteq Streams
  /\ lastSeq \in Cursors
  /\ timer \in {"none", "resubscribe", "rebootstrap"}
  /\ fetch \in [Fetches -> [phase : {"idle", "asked", "broken", "answered", "outdated"},
                            asOf : Cursors]]
  /\ heard \subseteq Frames
  /\ carried \in Cursors
  /\ mixed \in BOOLEAN
  /\ losses \in 0..MaxLosses /\ fails \in 0..MaxFails /\ restarts \in 0..MaxRestarts

\* Which free stream or request is taken makes no difference: the least one.
Least(S) == {i \in S : \A j \in S : i <= j}

Alive(streams) == {i \in Streams : streams[i] # "free"}

Busy(requests) == {f \in Fetches : requests[f].phase # "idle"}

\* Two streams, two snapshots, or a stream and a snapshot.
Overlap ==
  \/ \E i, j \in Alive(st) : i # j
  \/ \E f, g \in Busy(fetch) : f # g
  \/ Alive(st) # {} /\ Busy(fetch) # {}

NoteMixing == mixed' = (mixed \/ Overlap')

\* start(): a first snapshot is asked for, and no stream is open.
Init ==
  /\ ServerInit
  /\ es = 0
  /\ st = [i \in Streams |-> "free"]
  /\ cursor = [i \in Streams |-> EmptyCursor]
  /\ told = {}
  /\ lastSeq = 0
  /\ timer = "none"
  /\ \E f \in Least(Fetches) :
       fetch = [g \in Fetches |-> IF g = f THEN [NoFetch EXCEPT !.phase = "asked"]
                                  ELSE NoFetch]
  /\ heard = {}
  /\ carried = EmptyCursor /\ mixed = FALSE
  /\ losses = 0 /\ fails = 0 /\ restarts = 0

-----------------------------------------------------------------------------
(* Pieces of AfClient *)

\* A bug to be caught: a failure without a retry.
NoRetry(retry) == timer' = timer

\* registerFailureAndScheduleRetry: a timer that is pending keeps its retry.
ScheduleRetry(retry) == timer' = IF timer = "none" THEN retry ELSE timer

WithoutCurrent == [i \in Streams |-> IF i = es THEN "free" ELSE st[i]]

CursorIn(streams, i) == IF streams[i] = "free" THEN EmptyCursor ELSE cursor[i]

\* subscribe(from): a new EventSource takes the place of es, closed or not.
OpenStream(streams, from) ==
  \E i \in Least(Streams \ Alive(streams)) :
    /\ st' = [streams EXCEPT ![i] = "connecting"]
    /\ cursor' = [j \in Streams |-> IF j = i THEN from ELSE CursorIn(streams, j)]
    /\ told' = told \cap Alive(streams)
    /\ es' = i

\* rebootstrap(), up to its await: the current stream is closed.
Rebootstrap ==
  /\ es' = 0
  /\ st' = WithoutCurrent
  /\ cursor' = [i \in Streams |-> CursorIn(WithoutCurrent, i)]
  /\ told' = told \ {es}
  /\ \E f \in Least(Fetches \ Busy(fetch)) :
       /\ fetch' = [fetch EXCEPT ![f].phase = "asked"]

-----------------------------------------------------------------------------
(* Snapshots *)

Answer(f) ==
  /\ fetch[f].phase = "asked"
  /\ fetch' = [fetch EXCEPT ![f] = [phase |-> "answered", asOf |-> AsOfSeq]]
  /\ UNCHANGED <<server, es, st, cursor, told, lastSeq, timer, heard, carried, mixed, bounds>>

\* The snapshot is ingested and a stream opened, in one turn of the event loop.
Ingest(f) ==
  /\ fetch[f].phase \in {"answered", "outdated"}
  /\ lastSeq' = fetch[f].asOf
  /\ heard' = IF fetch[f].phase = "answered" THEN heard \cup 0..fetch[f].asOf
              ELSE heard
  /\ OpenStream(st, fetch[f].asOf)
  /\ fetch' = [fetch EXCEPT ![f] = NoFetch]
  /\ NoteMixing
  /\ UNCHANGED <<server, timer, carried, bounds>>

FetchFails(f) ==
  /\ \/ fetch[f].phase = "asked" /\ fails < MaxFails /\ fails' = fails + 1
     \/ fetch[f].phase = "broken" /\ UNCHANGED fails
  /\ fetch' = [fetch EXCEPT ![f] = NoFetch]
  /\ ScheduleRetry("rebootstrap")
  /\ UNCHANGED <<server, es, st, cursor, told, lastSeq, heard, carried, mixed, losses, restarts>>

-----------------------------------------------------------------------------
(* Streams *)

\* The first connection of an EventSource, or the browser's reconnect.
Connect(i) ==
  /\ st[i] = "connecting"
  /\ Subscribe(i, cursor[i])
  /\ st' = [st EXCEPT ![i] = "open"]
  /\ UNCHANGED <<es, cursor, told, lastSeq, timer, fetch, heard, carried, mixed, bounds>>

\* 503, or nobody listens; after an HTTP error the browser does not try again.
Refused(i) ==
  /\ st[i] = "connecting"
  /\ fails < MaxFails /\ fails' = fails + 1
  /\ \E s \in {"connecting", "closed"} : st' = [st EXCEPT ![i] = s]
  /\ ScheduleRetry("resubscribe")
  /\ UNCHANGED <<server, es, cursor, told, lastSeq, fetch, heard, carried, mixed, losses, restarts>>

HandleFrame(i) ==
  /\ st[i] = "open"
  /\ WriteNext(i)
  /\ lastSeq' = Head(Owed(i))
  /\ cursor' = [cursor EXCEPT ![i] = Head(Owed(i))]
  /\ told' = told \cup {i}
  /\ heard' = heard \cup {Head(Owed(i))}
  /\ UNCHANGED <<es, st, timer, fetch, carried, mixed, bounds>>

\* The current stream is closed, which need not be the one that was reset: that
\* one then goes on with live frames.  The event repeats the stream's last id.
HandleReset(i) ==
  /\ st[i] = "open" /\ i \in resets
  /\ Rebootstrap
  /\ lastSeq' = IF i \in told THEN cursor[i] ELSE lastSeq
  /\ \/ i = es /\ HangUp({i})
     \/ /\ i # es
        /\ senders' = senders \ {es}
        /\ resets' = resets \ {i, es}
        /\ replay' = [j \in Streams |-> IF j = es THEN <<>> ELSE replay[j]]
        /\ queue' = [j \in Streams |-> IF j = es THEN <<>> ELSE queue[j]]
        /\ UNCHANGED <<nextSeq, ring>>
  /\ NoteMixing
  /\ UNCHANGED <<timer, heard, carried, bounds>>

\* The network breaks a connection: an error event, and the browser reconnects.
Lose(i) ==
  /\ st[i] = "open"
  /\ losses < MaxLosses /\ losses' = losses + 1
  /\ st' = [st EXCEPT ![i] = "connecting"]
  /\ HangUp({i})
  /\ ScheduleRetry("resubscribe")
  /\ UNCHANGED <<es, cursor, told, lastSeq, fetch, heard, carried, mixed, fails, restarts>>

\* The server dropped the sender, and what its channel held has been read.
EndOfStream(i) ==
  /\ st[i] = "open"
  /\ i \notin senders \cup resets /\ Owed(i) = <<>>
  /\ st' = [st EXCEPT ![i] = "connecting"]
  /\ ScheduleRetry("resubscribe")
  /\ UNCHANGED <<server, es, cursor, told, lastSeq, fetch, heard, carried, mixed, bounds>>

TimerFires ==
  /\ timer # "none"
  /\ timer' = "none"
  /\ IF timer = "resubscribe"
     THEN OpenStream(WithoutCurrent, lastSeq) /\ UNCHANGED fetch
     ELSE Rebootstrap
  /\ HangUp({es})
  /\ NoteMixing
  /\ UNCHANGED <<lastSeq, heard, carried, bounds>>

-----------------------------------------------------------------------------
(* The server *)

ServerPublishes == Publish /\ UNCHANGED <<client, carried, mixed, bounds>>

Held == {carried, lastSeq} \cup {cursor[i] : i \in Alive(st)}
           \cup {fetch[f].asOf : f \in Fetches}

\* Every connection and every unanswered request breaks with the old server;
\* an answer already on its way speaks of frames that no longer exist.
Restart ==
  /\ restarts < MaxRestarts /\ restarts' = restarts + 1
  /\ ServerRestart
  /\ heard' = {}
  /\ \E n \in Held : (\A m \in Held : m <= n) /\ carried' = n
  /\ fetch' = [f \in Fetches |->
                 [fetch[f] EXCEPT !.phase = CASE @ = "asked" -> "broken"
                                              [] @ = "answered" -> "outdated"
                                              [] OTHER -> @]]
  /\ UNCHANGED <<es, st, cursor, told, lastSeq, timer, mixed, losses, fails>>

Next ==
  \/ ServerPublishes
  \/ Restart
  \/ TimerFires
  \/ \E f \in Fetches : Answer(f) \/ Ingest(f) \/ FetchFails(f)
  \/ \E i \in Streams : \/ Connect(i) \/ Refused(i) \/ HandleFrame(i) \/ HandleReset(i)
                        \/ Lose(i) \/ EndOfStream(i)

Spec == Init /\ [][Next]_vars

FairSpec ==
  /\ Spec
  /\ WF_vars(TimerFires)
  /\ \A f \in Fetches : /\ WF_vars(Answer(f)) /\ WF_vars(Ingest(f))
                        /\ WF_vars(FetchFails(f) /\ fetch[f].phase = "broken")
  /\ \A i \in Streams : /\ WF_vars(Connect(i))
                        /\ WF_vars(HandleFrame(i) \/ HandleReset(i) \/ EndOfStream(i))

-----------------------------------------------------------------------------

(***************************************************************************)
(* Properties.                                                             *)
(***************************************************************************)
\* A client is never "silently handed a hole" (debug_server.rs): when it has
\* heard a frame, it has heard or was told past every frame before it.
NoSilentHole == \A n \in heard : 0..n \subseteq heard

\* As far as that is true: no hole above what the console carried over from a
\* former server, unless it ever had two streams at once.
HoleOnlyByMixing == mixed \/ \A n \in heard : (carried + 1)..n \subseteq heard

\* Replay and live channel together are one run of frames that goes on where the
\* current stream stopped, and as long as it is connected up to the newest.
StreamIsOneRun ==
  es # 0 /\ Owed(es) # <<>> =>
    /\ \A k \in 1..(Len(Owed(es)) - 1) : Owed(es)[k + 1] = Owed(es)[k] + 1
    /\ es \notin resets => Head(Owed(es)) \in {cursor[es] + 1} \cup 0..carried
    /\ es \in senders => Owed(es)[Len(Owed(es))] = nextSeq - 1

\* With one stream no frame is delivered twice, whichever of the browser and
\* the timer reconnected first.
FramesAreNew ==
  [][\A i \in Streams : HandleFrame(i) => mixed \/ Head(Owed(i)) \notin heard]_vars

\* Once frames stop coming and nothing breaks any more, the console has the
\* newest frame: no combination of failures leaves it without a stream, a
\* request or a timer.
CatchesUp == <>[](nextSeq - 1 \in heard \cup (-1)..carried)
=============================================================================
