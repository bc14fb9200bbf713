--------------------------- MODULE SidecarProtocol ---------------------------
(***************************************************************************)
(* A Python child that answers over pipes (crates/af-sidecar): lines to    *)
(* its stdin, lines from its stdout which a reader thread moves into a     *)
(* channel, and a caller that waits on the channel for the line with the   *)
(* id of its request.  A request that times out leaves its answer behind,  *)
(* for the next request to find; the child prints lines of its own, and    *)
(* may exit with answers still in the pipe.                                *)
(*                                                                         *)
(* The child is the estimator or the sampler, which answers a ping only.   *)
(***************************************************************************)
EXTENDS Naturals, Sequences

CONSTANTS Questions,      \* what a caller may ask
          NoQuestion,     \* not one of them
          MaxRequests,    \* bound: requests to one child
          MaxStrays,      \* bound: sends and lines of the child's own
          MaxRespawns     \* bound: children after the first

VARIABLES
  child,      \* "running" or "exited"
  stdin,      \* requests written and not yet read by the child
  channel,    \* lines printed and not yet received
  nextId,     \* Sidecar.next_id
  asking,    \* the request waited for, with the id its caller looks for
  returned,   \* history: what each answered request asked and was told
  strays, respawns

sidecarVars == <<child, stdin, channel, nextId, asking, returned, strays, respawns>>

Idle == [id |-> 0, asks |-> NoQuestion]

\* A line without an id, or one that does not parse.
Stray == [id |-> 0, tells |-> NoQuestion]

SidecarInit ==
  /\ child = "running" /\ stdin = <<>> /\ channel = <<>>
  /\ nextId = 0 /\ asking = Idle
  /\ returned = {} /\ strays = 0 /\ respawns = 0

\* write_line.  The pipe of a child that exited may still take a line.
Written(message) ==
  stdin' = IF child = "running" THEN Append(stdin, message) ELSE stdin

\* The ids of a child's requests grow, answered or not.
NewId == nextId + 1

\* request, up to the wait.
AskChild(q) ==
  /\ asking = Idle /\ nextId < MaxRequests
  /\ nextId' = NewId
  /\ Written([id |-> nextId', asks |-> q])
  /\ asking' = [id |-> nextId', asks |-> q]
  /\ UNCHANGED <<child, channel, returned, strays, respawns>>

\* The write fails; the id is spent.
AskFails ==
  /\ asking = Idle /\ nextId < MaxRequests
  /\ child = "exited"
  /\ nextId' = NewId
  /\ UNCHANGED <<child, stdin, channel, asking, returned, strays, respawns>>

\* send: an op without an id, which nobody waits for.
SendOp ==
  /\ asking = Idle /\ strays < MaxStrays
  /\ strays' = strays + 1
  /\ Written(Idle)
  /\ UNCHANGED <<child, channel, nextId, asking, returned, respawns>>

\* (mutant) Any line with an id is an answer.
MatchesAnyId(line) == line.id # 0

\* Is this the answer waited for?
Matches(line) == line.id = asking.id

\* request, one line further: the answer is returned, any other line dropped.
ReceiveLine ==
  /\ asking # Idle /\ channel # <<>>
  /\ channel' = Tail(channel)
  /\ LET line == Head(channel) IN
       IF Matches(line)
         THEN /\ returned' = returned \cup {[asked |-> asking.asks, told |-> line.tells]}
              /\ asking' = Idle
         ELSE UNCHANGED <<returned, asking>>
  /\ UNCHANGED <<child, stdin, nextId, strays, respawns>>

\* The deadline is that of the request, whatever lines came before it.
RequestTimesOut ==
  /\ asking # Idle
  /\ asking' = Idle
  /\ UNCHANGED <<child, stdin, channel, nextId, returned, strays, respawns>>

\* The reader thread ends with the child's output: what is in the channel is
\* received first.
ChannelCloses ==
  /\ asking # Idle
  /\ channel = <<>> /\ child = "exited"
  /\ asking' = Idle
  /\ UNCHANGED <<child, stdin, channel, nextId, returned, strays, respawns>>

------------------------------------------------------------------------------
(* The child *)

\* One request per line, one answer with its id; the estimator answers an op
\* without one too, the sampler does not.
AnswerNext ==
  /\ child = "running" /\ stdin # <<>>
  /\ stdin' = Tail(stdin)
  /\ \/ channel' = Append(channel, [id |-> Head(stdin).id, tells |-> Head(stdin).asks])
     \/ Head(stdin) = Idle /\ UNCHANGED channel
  /\ UNCHANGED <<child, nextId, asking, returned, strays, respawns>>

Mutter ==
  /\ child = "running" /\ strays < MaxStrays
  /\ strays' = strays + 1
  /\ channel' = Append(channel, Stray)
  /\ UNCHANGED <<child, stdin, nextId, asking, returned, respawns>>

ChildExits ==
  /\ child = "running"
  /\ child' = "exited"
  /\ stdin' = <<>>
  /\ UNCHANGED <<channel, nextId, asking, returned, strays, respawns>>

\* The supervisor drops the handle, which kills the child, and spawns another:
\* ids start again, on pipes and a channel of their own.
Respawn ==
  /\ asking = Idle /\ respawns < MaxRespawns
  /\ respawns' = respawns + 1
  /\ child' = "running" /\ stdin' = <<>> /\ channel' = <<>> /\ nextId' = 0
  /\ UNCHANGED <<asking, returned, strays>>

CallerStep == \/ \E q \in Questions : AskChild(q)
              \/ AskFails \/ SendOp \/ ReceiveLine \/ RequestTimesOut \/ ChannelCloses
ChildStep == AnswerNext \/ Mutter \/ ChildExits

SidecarNext == CallerStep \/ ChildStep \/ Respawn

SidecarSpec == SidecarInit /\ [][SidecarNext]_sidecarVars

------------------------------------------------------------------------------
\* "responses whose id doesn't match are discarded rather than being returned to
\* the wrong caller": what a request returns was printed for it, however many
\* requests before it timed out, broke off or were asked of an earlier child.
AnswerIsOwn == \A r \in returned : r.told = r.asked
=============================================================================
