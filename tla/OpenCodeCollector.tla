-------------------------- MODULE OpenCodeCollector --------------------------
(***************************************************************************)
(* `af collect opencode` (crates/af-cli/src/cmd/opencode.rs): reads the    *)
(* durable event stream of one OpenCode session, pairs every settlement    *)
(* with the start it remembers, appends the fact to the session's spool    *)
(* file, and then replaces its cursor -- the sequence number it has dealt  *)
(* with and the starts still unmatched -- so that a restart goes on from   *)
(* there.  A disconnected stream is resumed from the sequence in memory.   *)
(*                                                                         *)
(* The server, its durable log, and the operator who starts and kills      *)
(* collectors are the environment.                                         *)
(***************************************************************************)
EXTENDS Naturals, Sequences, FiniteSets, SequencesExt, FiniteSetsExt

CONSTANTS
    Collectors,   \* collector processes that may run on the session at once
    Log,          \* the server's stream: records [seq, kind, key]
    Overrides,    \* values of --after an operator may pass
    None,         \* no --after; no cursor file
    MaxFaults,    \* bound: failed appends, failed saves and kills
    MaxStarts     \* bound: times a collector is started

(* kind: "start" opens a step, tool or shell; "settle" closes it; "faulty"  *)
(* is a settlement whose normalization fails; "quiet" carries no fact;      *)
(* "foreign" is an unparseable frame, another session's event or an event   *)
(* whose sequence is malformed.  seq 0: the event is not durable.           *)
LogKeys == {Log[i].key : i \in DOMAIN Log}
OwnEvents == {i \in DOMAIN Log : Log[i].kind # "foreign"}

ASSUME LogAssumption ==
    Log \in Seq([seq : Nat, kind : {"start", "settle", "faulty", "quiet", "foreign"},
                 key : LogKeys])

(* The sequence of a session grows along its stream.                        *)
ASSUME OrderAssumption ==
    \A i, j \in OwnEvents : i < j /\ Log[j].seq > 0 => Log[i].seq < Log[j].seq

ASSUME BoundsAssumption == Overrides \subseteq Nat /\ MaxFaults \in Nat /\ MaxStarts \in Nat

VARIABLES
    pc,        \* collector -> "off" | "meta" | "connect" | "read" | "append" | "save"
    latest,    \* collector -> the exclusive durable sequence in memory
    pending,   \* collector -> the unmatched starts in memory (NormalizerState)
    before,    \* collector -> state_before of the event being processed
    position,  \* collector -> position in the stream of the open connection
    cursor,    \* the cursor file: None or [after, pending]
    ocSpool,   \* the spool file: "meta", "torn" or the key of a fact, in order
    skipped,   \* history: the greatest --after a collector was started with
    ocFaults   \* [faults, starts] so far

ocVars == <<pc, latest, pending, before, position, cursor, ocSpool, skipped, ocFaults>>

OcPosition == 0..Len(Log)
OcGoto(c, step) == pc' = [pc EXCEPT ![c] = step]
Fault == ocFaults.faults < MaxFaults /\ ocFaults' = [ocFaults EXCEPT !.faults = @ + 1]

-----------------------------------------------------------------------------
(* The normalizer.                                                         *)

\* Settling without a remembered start yields no fact.
SettlesPending(event, starts) == event.kind = "settle" /\ event.key \in starts

Facts(event, starts) == IF SettlesPending(event, starts) THEN <<event.key>> ELSE <<>>

\* A failed normalization gives the state back as it was.
Normalized(event, starts) ==
    CASE event.kind = "start" -> starts \cup {event.key}
      [] event.kind = "settle" -> starts \ {event.key}
      [] OTHER -> starts

\* Which events reach the normalizer: this session's, once each.
Processed(event, after) == event.kind # "foreign" /\ (event.seq = 0 \/ event.seq > after)

-----------------------------------------------------------------------------
OcInit ==
    /\ pc = [c \in Collectors |-> "off"]
    /\ latest = [c \in Collectors |-> 0]
    /\ pending = [c \in Collectors |-> {}]
    /\ before = [c \in Collectors |-> {}]
    /\ position = [c \in Collectors |-> 0]
    /\ cursor = None
    /\ ocSpool = <<>>
    /\ skipped = 0
    /\ ocFaults = [faults |-> 0, starts |-> 0]

\* load_cursor: a session without a cursor file starts from nothing.
LoadedCursor == IF cursor = None THEN [after |-> 0, pending |-> {}] ELSE cursor

\* initial_state: --after overrides the cursor and forgets its starts.
InitialState(after) == IF after = None THEN LoadedCursor ELSE [after |-> after, pending |-> {}]

StartCollector(c, after) ==
    /\ pc[c] = "off" /\ ocFaults.starts < MaxStarts
    /\ ocFaults' = [ocFaults EXCEPT !.starts = @ + 1]
    /\ latest' = [latest EXCEPT ![c] = InitialState(after).after]
    /\ pending' = [pending EXCEPT ![c] = InitialState(after).pending]
    /\ skipped' = IF after = None THEN skipped ELSE Max({skipped, after})
    /\ OcGoto(c, "meta")
    /\ UNCHANGED <<before, position, cursor, ocSpool>>

\* emit_session_meta: only into a spool file that does not exist yet.
EmitSessionMeta(c) ==
    /\ pc[c] = "meta"
    /\ ocSpool' = IF ocSpool = <<>> THEN <<"meta">> ELSE ocSpool
    /\ OcGoto(c, "connect")
    /\ UNCHANGED <<latest, pending, before, position, cursor, skipped, ocFaults>>

\* The first append fails: run returns the error and the collector is over.
LoseSessionMeta(c) ==
    /\ pc[c] = "meta" /\ ocSpool = <<>> /\ Fault
    /\ OcGoto(c, "off")
    /\ UNCHANGED <<latest, pending, before, position, cursor, ocSpool, skipped>>

\* The server streams from some position at or before the requested one.
Connect(c) ==
    /\ pc[c] = "connect"
    /\ \E from \in OcPosition :
         /\ \A i \in 1..from : Log[i].seq <= latest[c]
         /\ position' = [position EXCEPT ![c] = from]
    /\ OcGoto(c, "read")
    /\ UNCHANGED <<latest, pending, before, cursor, ocSpool, skipped, ocFaults>>

\* collect_live: the stream ended or broke; reconnect after the backoff.
Disconnect(c) ==
    /\ pc[c] = "read" /\ Fault
    /\ OcGoto(c, "connect")
    /\ UNCHANGED <<latest, pending, before, position, cursor, ocSpool, skipped>>

\* process_frame, process_event: skip, or normalize and go on to the append.
ProcessEvent(c) ==
    /\ pc[c] = "read" /\ position[c] < Len(Log)
    /\ LET event == Log[position[c] + 1] IN
         IF Processed(event, latest[c])
           THEN /\ before' = [before EXCEPT ![c] = pending[c]]
                /\ pending' = [pending EXCEPT ![c] = Normalized(event, @)]
                /\ OcGoto(c, "append")
                /\ UNCHANGED position
           ELSE /\ position' = [position EXCEPT ![c] = @ + 1]
                /\ UNCHANGED <<before, pending, pc>>
    /\ UNCHANGED <<latest, cursor, ocSpool, skipped, ocFaults>>

OcEvent(c) == Log[position[c] + 1]

\* append_envelopes; without a sequence there is no cursor to move.
AppendFacts(c) ==
    /\ pc[c] = "append"
    /\ ocSpool' = ocSpool \o Facts(OcEvent(c), before[c])
    /\ IF OcEvent(c).seq = 0
         THEN OcGoto(c, "read") /\ position' = [position EXCEPT ![c] = @ + 1]
         ELSE OcGoto(c, "save") /\ UNCHANGED position
    /\ UNCHANGED <<latest, pending, before, cursor, skipped, ocFaults>>

\* What an event leaves in memory when it could not be dealt with.
RestoredNever(c) == pending[c]
Restored(c) == before[c]

\* The append fails, cleanly or after a part of the line: the state is given
\* back, and the stream is taken up again from the sequence in memory.
FailAppend(c, torn) ==
    /\ pc[c] = "append" /\ Facts(OcEvent(c), before[c]) # <<>>
    /\ Fault
    /\ ocSpool' = IF torn THEN Append(ocSpool, "torn") ELSE ocSpool
    /\ pending' = [pending EXCEPT ![c] = Restored(c)]
    /\ OcGoto(c, "connect")
    /\ UNCHANGED <<latest, before, position, cursor, skipped>>

\* The starts the cursor file keeps.
SavedPendingDropped(c) == {}
SavedPending(c) == pending[c]

\* save_cursor: the temporary file replaces the cursor in one rename.
ReplaceCursor(c) ==
    cursor' = [after |-> OcEvent(c).seq, pending |-> SavedPending(c)]

SaveCursor(c) ==
    /\ pc[c] = "save"
    /\ ReplaceCursor(c)
    /\ latest' = [latest EXCEPT ![c] = OcEvent(c).seq]
    /\ position' = [position EXCEPT ![c] = @ + 1]
    /\ OcGoto(c, "read")
    /\ UNCHANGED <<pending, before, ocSpool, skipped, ocFaults>>

\* save_cursor fails before the rename, or after it (the directory sync).
FailSave(c) ==
    /\ pc[c] = "save" /\ Fault
    /\ ReplaceCursor(c) \/ UNCHANGED cursor
    /\ pending' = [pending EXCEPT ![c] = Restored(c)]
    /\ OcGoto(c, "connect")
    /\ UNCHANGED <<latest, before, position, ocSpool, skipped>>

\* The collector dies; between the rename and its return too.
KillCollector(c) ==
    /\ pc[c] # "off" /\ Fault
    /\ IF pc[c] = "save" THEN ReplaceCursor(c) \/ UNCHANGED cursor ELSE UNCHANGED cursor
    /\ OcGoto(c, "off")
    /\ UNCHANGED <<latest, pending, before, position, ocSpool, skipped>>

-----------------------------------------------------------------------------
CollectorStep(c) ==
    EmitSessionMeta(c) \/ Connect(c) \/ ProcessEvent(c) \/ AppendFacts(c) \/ SaveCursor(c)
CollectorFault(c) ==
    \/ LoseSessionMeta(c) \/ Disconnect(c) \/ FailSave(c) \/ KillCollector(c)
    \/ \E torn \in BOOLEAN : FailAppend(c, torn)
CollectorStart(c) == \E after \in Overrides \cup {None} : StartCollector(c, after)

OcNext == \E c \in Collectors : CollectorStart(c) \/ CollectorStep(c) \/ CollectorFault(c)

OcSpec == OcInit /\ [][OcNext]_ocVars

-----------------------------------------------------------------------------
\* The settlements whose start the server logged before them, and after every
\* sequence an operator told a collector to skip.
Settlements ==
    {i \in 1..Len(Log) : /\ Log[i].kind = "settle" /\ Log[i].seq > 0
                         /\ \E j \in 1..(i - 1) : /\ Log[j].kind = "start"
                                                  /\ Log[j].key = Log[i].key
                                                  /\ Log[j].seq > skipped}

OcSpooled(i) == Log[i].key \in ToSet(ocSpool)

\* collectors/opencode/README.md: the cursor advances only after the facts of
\* an event were appended.  Every settlement the cursor file has passed is in
\* the spool, whatever failed, was killed or ran twice before the cursor moved.
\* (Appended after a torn line, a fact shares that line.)
FactsBeforeCursor ==
    cursor # None => \A i \in Settlements : Log[i].seq <= cursor.after => OcSpooled(i)

\* Reconnects, retries and restarts bring every settlement to the spool.
EverySettlementSpooled == <>[](\A i \in Settlements : OcSpooled(i))
=============================================================================
