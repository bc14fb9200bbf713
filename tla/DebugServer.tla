----------------------------- MODULE DebugServer -----------------------------
(***************************************************************************)
(* The frame log of `af watch --debug`: one numbered ring of frames, and a  *)
(* connection per console stream.                                          *)
(*                                                                         *)
(* A subscriber is owed two things that are put together under one lock:   *)
(* the replay of the ring past its cursor, and a bounded live channel.  A  *)
(* connection whose channel is full loses its sender and is written what   *)
(* the channel still holds; a cursor that has fallen out of the ring is    *)
(* answered by `reset`.  A frame is its number.                            *)
(***************************************************************************)
EXTENDS Integers, Sequences, FiniteSets

CONSTANTS Streams,         \* connections, as numbers
          RingCapacity,    \* RING_CAPACITY
          QueueCapacity,   \* CONNECTION_QUEUE
          MaxFrames        \* bound: frames one server publishes

ASSUME StreamsAssumption == Streams \subseteq Nat \ {0}
ASSUME CapacityAssumption ==
  /\ RingCapacity \in Nat \ {0} /\ QueueCapacity \in Nat \ {0}
  /\ MaxFrames \in Nat \ {0}

VARIABLES
  nextSeq,   \* DebugState.next_seq
  ring,      \* DebugState.frames
  senders,   \* DebugState.connections: the streams that are sent live frames
  resets,    \* the streams whose replay is a reset not yet written
  replay,    \* what is left to write of the others' replays
  queue      \* what is in each connection's live channel

connections == <<senders, resets, replay, queue>>
server == <<nextSeq, ring, senders, resets, replay, queue>>

EmptyCursor == -1    \* EMPTY_CURSOR: the cursor before frame 0

Frames == 0..(MaxFrames - 1)

ServerTypeOK ==
  /\ nextSeq \in 0..MaxFrames
  /\ ring \in Seq(Frames)
  /\ senders \subseteq Streams /\ resets \subseteq Streams
  /\ replay \in [Streams -> Seq(Frames)]
  /\ queue \in [Streams -> Seq(Frames)]

ServerInit ==
  /\ nextSeq = 0
  /\ ring = <<>>
  /\ senders = {} /\ resets = {}
  /\ replay = [i \in Streams |-> <<>>]
  /\ queue = [i \in Streams |-> <<>>]

\* A bug to be caught: a full channel costs the connection a frame.
PublishDropsFrame ==
  /\ nextSeq < MaxFrames
  /\ nextSeq' = nextSeq + 1
  /\ queue' = [i \in Streams |->
                 IF i \in senders /\ Len(queue[i]) < QueueCapacity
                 THEN Append(queue[i], nextSeq) ELSE queue[i]]
  /\ ring' = IF Len(ring) < RingCapacity THEN Append(ring, nextSeq)
             ELSE Append(Tail(ring), nextSeq)
  /\ UNCHANGED <<senders, resets, replay>>

\* A full channel costs the connection its sender, never a frame in the middle.
Publish ==
  /\ nextSeq < MaxFrames
  /\ nextSeq' = nextSeq + 1
  /\ senders' = {i \in senders : Len(queue[i]) < QueueCapacity}
  /\ queue' = [i \in Streams |->
                 IF i \in senders' THEN Append(queue[i], nextSeq) ELSE queue[i]]
  /\ ring' = IF Len(ring) < RingCapacity THEN Append(ring, nextSeq)
             ELSE Append(Tail(ring), nextSeq)
  /\ UNCHANGED <<resets, replay>>

\* A bug to be caught: a cursor one frame short of the ring is replayed.
ReplayableTooFar(last) == ring # <<>> => last + 2 >= Head(ring)

Replayable(last) == ring # <<>> => last + 1 >= Head(ring)

\* A bug to be caught: the frame at the cursor is replayed as well.
AfterInclusive(last) ==
  SubSeq(ring, Cardinality({k \in DOMAIN ring : ring[k] < last}) + 1, Len(ring))

\* The frames of the ring past the cursor.  The ring ascends, so they are its end.
After(last) == SubSeq(ring, Cardinality({k \in DOMAIN ring : ring[k] <= last}) + 1, Len(ring))

Subscribe(i, last) ==
  /\ \/ /\ Replayable(last)
        /\ replay' = [replay EXCEPT ![i] = After(last)]
        /\ resets' = resets \ {i}
     \/ /\ ~Replayable(last)
        /\ replay' = [replay EXCEPT ![i] = <<>>]
        /\ resets' = resets \cup {i}
  /\ queue' = [queue EXCEPT ![i] = <<>>]
  /\ senders' = senders \cup {i}
  /\ UNCHANGED <<nextSeq, ring>>

\* The numbered frames the connection's thread has yet to write.
Owed(i) == replay[i] \o queue[i]

\* The whole replay first, only then the channel.
WriteNext(i) ==
  /\ i \notin resets
  /\ \/ /\ replay[i] # <<>>
        /\ replay' = [replay EXCEPT ![i] = Tail(@)]
        /\ UNCHANGED queue
     \/ /\ replay[i] = <<>> /\ queue[i] # <<>>
        /\ queue' = [queue EXCEPT ![i] = Tail(@)]
        /\ UNCHANGED replay
  /\ UNCHANGED <<nextSeq, ring, senders, resets>>

\* The sockets are gone, and with them what was not yet read from them.
HangUp(gone) ==
  /\ senders' = senders \ gone
  /\ resets' = resets \ gone
  /\ replay' = [i \in Streams |-> IF i \in gone THEN <<>> ELSE replay[i]]
  /\ queue' = [i \in Streams |-> IF i \in gone THEN <<>> ELSE queue[i]]
  /\ UNCHANGED <<nextSeq, ring>>

\* A bug to be caught: the cursor is the next frame's.
AsOfNext == IF nextSeq = 0 THEN EmptyCursor ELSE nextSeq

\* as_of_seq of a snapshot: the last frame of the window, which is the last one
\* published; before the first it is the cursor before frame 0.
AsOfSeq == IF nextSeq = 0 THEN EmptyCursor ELSE nextSeq - 1

\* A new `af watch` starts with an empty log and no connection.
ServerRestart ==
  /\ nextSeq' = 0
  /\ ring' = <<>>
  /\ senders' = {} /\ resets' = {}
  /\ replay' = [i \in Streams |-> <<>>]
  /\ queue' = [i \in Streams |-> <<>>]
=============================================================================
