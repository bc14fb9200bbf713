----------------------------- MODULE SpoolIngest -----------------------------
(***************************************************************************)
(* The path of a fact from a collector to the store.                       *)
(*                                                                         *)
(* Collectors append lines to spool files.  Processes (the resident        *)
(* `af watch`, and `af ingest` and `af report` run beside it) each run     *)
(* ingest passes over the same files and the same SQLite database: read the *)
(* stored cursor, tail the file, insert the events, insert the opaque      *)
(* events, quarantine the malformed lines, move the cursor.  The six steps *)
(* are six separate transactions or file operations, so two passes         *)
(* interleave between any two of them, and a pass can stop after any one.  *)
(*                                                                         *)
(* Offsets count lines instead of bytes: every offset the code stores lies *)
(* just past a newline.                                                    *)
(***************************************************************************)
EXTENDS Naturals, Sequences, FiniteSets

CONSTANTS Procs,          \* processes that ingest
          Files,          \* spool files, one per (collector, session)
          Events,         \* lines that parse to a known event
          Opaque,         \* lines with a valid envelope of an unknown type
          Malformed,      \* lines that parse_line refuses
          MaxLen,         \* bound: lines each spool file reaches
          MaxStops,       \* bound: passes cut short by an error or a crash
          MaxRecreate     \* bound: spool files recreated under the reader

ASSUME MaxLenAssumption == MaxLen \in [Files -> Nat]
ASSUME MaxStopsAssumption == MaxStops \in Nat
ASSUME MaxRecreateAssumption == MaxRecreate \in Nat

Lines == Events \cup Opaque \cup Malformed

\* The steps of ingest_files for one file, in program order.
Steps == {"idle", "next", "tail", "insert", "opaque", "quarantine", "cursor"}

VARIABLES
  file,         \* the complete lines of each spool file
  torn,         \* does the file end in bytes with no newline yet?
  raw,          \* raw_events, by event_id
  opaqueRows,   \* opaque_events, by event_id
  quarantined,  \* lines archived under rejected/
  unarchived,   \* lines whose archiving failed and was only logged
  offset,       \* ingest_offsets
  ingested,     \* rows every insert_events call reported as inserted, summed
  pc, todo, cur, from, batch, newOffset,   \* the pass of each process
  stops, recreations

durable == <<raw, opaqueRows, quarantined, unarchived, offset, ingested>>
pass == <<pc, todo, cur, from, batch, newOffset>>
spool == <<file, torn, recreations>>
vars == <<file, torn, raw, opaqueRows, quarantined, unarchived, offset, ingested,
          pc, todo, cur, from, batch, newOffset, stops, recreations>>

TypeOK ==
  /\ file \in [Files -> Seq(Lines)]
  /\ torn \in [Files -> BOOLEAN]
  /\ raw \in SUBSET Events /\ IsFiniteSet(raw)
  /\ opaqueRows \in SUBSET Opaque
  /\ quarantined \in SUBSET Malformed
  /\ unarchived \in SUBSET Malformed
  /\ offset \in [Files -> Nat]
  /\ ingested \in Nat
  /\ pc \in [Procs -> Steps]
  /\ todo \in [Procs -> SUBSET Files]
  /\ cur \in [Procs -> Files]
  /\ from \in [Procs -> Nat]
  /\ batch \in [Procs -> SUBSET Lines]
  /\ \A p \in Procs : IsFiniteSet(batch[p])
  /\ newOffset \in [Procs -> Nat]
  /\ stops \in Nat
  /\ recreations \in Nat

Init ==
  /\ file = [f \in Files |-> <<>>]
  /\ torn = [f \in Files |-> FALSE]
  /\ raw = {} /\ opaqueRows = {} /\ quarantined = {} /\ unarchived = {}
  /\ offset = [f \in Files |-> 0]
  /\ ingested = 0
  /\ pc = [p \in Procs |-> "idle"]
  /\ todo = [p \in Procs |-> {}]
  /\ cur \in [Procs -> Files]
  /\ from = [p \in Procs |-> 0]
  /\ batch = [p \in Procs |-> {}]
  /\ newOffset = [p \in Procs |-> 0]
  /\ stops = 0 /\ recreations = 0

------------------------------------------------------------------------------
(* Collectors *)

\* The first bytes of a line reach the file before its newline does.
BeginLine(f) ==
  /\ ~torn[f]
  /\ Len(file[f]) < MaxLen[f]
  /\ torn' = [torn EXCEPT ![f] = TRUE]
  /\ UNCHANGED <<file, recreations, durable, pass, stops>>

\* The newline arrives: only now is the line a record.  Any line may come, a
\* line another file or an earlier export already carried included; a writer
\* that died after BeginLine leaves a fragment the next writer completes, and
\* what is completed then parses as nothing (a member of Malformed).
EndLine(f, l) ==
  /\ torn[f]
  /\ file' = [file EXCEPT ![f] = Append(@, l)]
  /\ torn' = [torn EXCEPT ![f] = FALSE]
  /\ UNCHANGED <<recreations, durable, pass, stops>>

\* A collector restart that recreates its session file, which the append-only
\* rule for collectors forbids and tail handles all the same.
Recreate(f) ==
  /\ recreations < MaxRecreate
  /\ file[f] # <<>>
  /\ file' = [file EXCEPT ![f] = <<>>]
  /\ torn' = [torn EXCEPT ![f] = FALSE]
  /\ recreations' = recreations + 1
  /\ UNCHANGED <<durable, pass, stops>>

------------------------------------------------------------------------------
(* One ingest pass *)

\* ingest (every file of the directory) or ingest_paths (the files that
\* notifications named).
StartPass(p, S) ==
  /\ pc[p] = "idle"
  /\ pc' = [pc EXCEPT ![p] = "next"]
  /\ todo' = [todo EXCEPT ![p] = S]
  /\ UNCHANGED <<spool, durable, cur, from, batch, newOffset, stops>>

\* The next file of the pass, and its stored cursor.
ReadOffset(p, f) ==
  /\ pc[p] = "next"
  /\ f \in todo[p]
  /\ todo' = [todo EXCEPT ![p] = @ \ {f}]
  /\ cur' = [cur EXCEPT ![p] = f]
  /\ from' = [from EXCEPT ![p] = offset[f]]
  /\ pc' = [pc EXCEPT ![p] = "tail"]
  /\ UNCHANGED <<spool, durable, batch, newOffset, stops>>

\* Where tail starts reading: at the cursor, or at 0 when the file is shorter.
StartOffset(o, len) == IF o > len THEN 0 ELSE o

\* The complete lines past position s of a file; a trailing fragment is not one.
LinesAfter(lines, s) == {lines[i] : i \in (s + 1)..Len(lines)}

\* (mutant) The bytes after the last newline are counted as consumed.
ConsumedWithTorn(f) == Len(file[f]) + IF torn[f] THEN 1 ELSE 0

\* tail consumes up to the last newline.
Consumed(f) == Len(file[f])

\* (mutant) The cursor is committed with the read, before the lines are stored.
TailFileCommitsCursor(p) ==
  /\ pc[p] = "tail"
  /\ LET lines == file[cur[p]] IN
       /\ batch' = [batch EXCEPT ![p] =
                      LinesAfter(lines, StartOffset(from[p], Len(lines)))]
       /\ newOffset' = [newOffset EXCEPT ![p] = Consumed(cur[p])]
       /\ offset' = [offset EXCEPT ![cur[p]] = Consumed(cur[p])]
  /\ pc' = [pc EXCEPT ![p] = "insert"]
  /\ UNCHANGED <<spool, raw, opaqueRows, quarantined, unarchived, ingested,
                 todo, cur, from, stops>>

TailFile(p) ==
  /\ pc[p] = "tail"
  /\ LET lines == file[cur[p]] IN
       /\ batch' = [batch EXCEPT ![p] =
                      LinesAfter(lines, StartOffset(from[p], Len(lines)))]
       /\ newOffset' = [newOffset EXCEPT ![p] = Consumed(cur[p])]
  /\ pc' = [pc EXCEPT ![p] = "insert"]
  /\ UNCHANGED <<spool, durable, todo, cur, from, stops>>

\* (mutant) Every row of the batch is reported as inserted.
NewRowsAll(events, rows) == events

\* INSERT OR IGNORE on event_id: what is new, and how many rows that reports.
NewRows(events, rows) == events \ rows

\* (mutant) INSERT OR REPLACE of the whole table.
TableReplaced(rows, new) == new

\* Rows present stay as they are.
TableWith(rows, new) == rows \cup new

InsertEvents(p) ==
  /\ pc[p] = "insert"
  /\ LET new == NewRows(batch[p] \cap Events, raw) IN
       /\ raw' = TableWith(raw, new)
       /\ ingested' = ingested + Cardinality(new)
  /\ pc' = [pc EXCEPT ![p] = "opaque"]
  /\ UNCHANGED <<spool, opaqueRows, quarantined, unarchived, offset,
                 todo, cur, from, batch, newOffset, stops>>

\* (mutant) Unknown types are read and dropped.
NoUnknown(lines) == {}

\* What parse_line_preserving_unknown keeps verbatim, and what it refuses.
Unknown(lines) == lines \cap Opaque

\* (mutant) Unknown types are refused as well.
RejectedOrUnknown(lines) == lines \ Events

Rejected(lines) == lines \cap Malformed

InsertOpaque(p) ==
  /\ pc[p] = "opaque"
  /\ opaqueRows' = TableWith(opaqueRows, Unknown(batch[p]))
  /\ pc' = [pc EXCEPT ![p] = "quarantine"]
  /\ UNCHANGED <<spool, raw, quarantined, unarchived, offset, ingested,
                 todo, cur, from, batch, newOffset, stops>>

\* Archiving is best effort, line by line: some may fail, which is logged.
Quarantine(p) ==
  /\ pc[p] = "quarantine"
  /\ \E failed \in SUBSET Rejected(batch[p]) :
       /\ quarantined' = quarantined \cup (Rejected(batch[p]) \ failed)
       /\ unarchived' = unarchived \cup failed
  /\ pc' = [pc EXCEPT ![p] = "cursor"]
  /\ UNCHANGED <<spool, raw, opaqueRows, offset, ingested,
                 todo, cur, from, batch, newOffset, stops>>

\* The locals of the loop body go out of scope.
ForgetFile(p) ==
  /\ batch' = [batch EXCEPT ![p] = {}]
  /\ from' = [from EXCEPT ![p] = 0]
  /\ newOffset' = [newOffset EXCEPT ![p] = 0]

\* (mutant) A cursor may only advance.
CursorMovesForward(old, new) == new > old

\* The cursor is written only when it changed.
CursorMoves(old, new) == new # old

\* The last write of a file's turn.
SetOffset(p) ==
  /\ pc[p] = "cursor"
  /\ offset' = IF CursorMoves(from[p], newOffset[p])
                 THEN [offset EXCEPT ![cur[p]] = newOffset[p]]
                 ELSE offset
  /\ pc' = [pc EXCEPT ![p] = "next"]
  /\ ForgetFile(p)
  /\ UNCHANGED <<spool, raw, opaqueRows, quarantined, unarchived, ingested,
                 todo, cur, stops>>

EndPass(p) ==
  /\ pc[p] = "next"
  /\ todo[p] = {}
  /\ pc' = [pc EXCEPT ![p] = "idle"]
  /\ UNCHANGED <<spool, durable, todo, cur, from, batch, newOffset, stops>>

\* An error from any step returns out of ingest_files, a kill ends the
\* process: either way the rest of the pass does not happen.
StopPass(p) ==
  /\ pc[p] # "idle"
  /\ stops < MaxStops
  /\ stops' = stops + 1
  /\ pc' = [pc EXCEPT ![p] = "idle"]
  /\ todo' = [todo EXCEPT ![p] = {}]
  /\ ForgetFile(p)
  /\ UNCHANGED <<spool, durable, cur>>

FileStep(p) == \/ TailFile(p) \/ InsertEvents(p) \/ InsertOpaque(p)
               \/ Quarantine(p) \/ SetOffset(p)

PassStep(p) == (\E f \in Files : ReadOffset(p, f)) \/ FileStep(p) \/ EndPass(p)

Collectors == \E f \in Files : BeginLine(f) \/ \E l \in Lines : EndLine(f, l)

Ingesters == \E p \in Procs :
               \/ \E S \in (SUBSET Files) \ {{}} : StartPass(p, S)
               \/ PassStep(p)
               \/ StopPass(p)

\* Collectors that keep the rule "append-only, never delete".
Next == Collectors \/ Ingesters
Spec == Init /\ [][Next]_vars

\* The same with files recreated under the reader.
RecreateNext == Next \/ \E f \in Files : Recreate(f)
RecreateSpec == Init /\ [][RecreateNext]_vars

(* Once a pass is started, the loop of af watch runs it to the end.  Passes  *)
(* over a few dirty files may come first, again and again, but when RECONCILE *)
(* is due the loop chooses the full pass before a dirty one: strong fairness. *)
(* Nothing makes a collector write, a user run `af report`, or an error happen. *)
ResidentFairness(p) == SF_vars(StartPass(p, Files)) /\ WF_vars(PassStep(p))

------------------------------------------------------------------------------
(* Correctness *)

\* What the spool has published, while files only grow.
Published == {e \in Events : \E f \in Files : \E i \in DOMAIN file[f] : file[f][i] = e}

Ledger == INSTANCE EventLedger WITH published <- Published, ledger <- raw

\* The pipeline with its files, cursors, rereads and broken-off passes is an
\* implementation of the ledger: what ingest_files stores was published, stays
\* stored, and is stored once.
LedgerImplemented == Ledger!LedgerSafe

\* The same with the promise that every published fact is recorded in the end.
LedgerImplementedLive == Ledger!LedgerSpec

Persisted(l) == /\ l \in Events => l \in raw
                /\ l \in Opaque => l \in opaqueRows
                /\ l \in Malformed => l \in quarantined \cup unarchived

Covered(f, n) == \A i \in 1..n : i \in DOMAIN file[f] => Persisted(file[f][i])

\* The stored cursor never stands past a line that is in no table and in no
\* archive, whatever passes run at once and wherever they stop: this is what
\* makes "insert, then move the cursor" crash-safe without one transaction.
CursorCoversPersisted == \A f \in Files : Covered(f, offset[f])

\* A cursor never points past the end of an append-only file, so the
\* restart-from-0 branch of tail is dead code as long as collectors keep the rule.
CursorWithinFile == \A f \in Files : offset[f] <= Len(file[f])

\* The counts the passes report add up to the rows the table holds, although
\* two passes may insert the same batch at once and collectors repeat facts.
IngestedCountExact == ingested = Cardinality(raw)

\* What a pass in flight carries is enough to justify the cursor it will write:
\* the cursor it read covers persisted lines only, and every line between that
\* cursor and the one it will write is in hand or already where it belongs.
InFlight(p) ==
  /\ pc[p] \notin {"idle", "next"} =>
       from[p] <= Len(file[cur[p]]) /\ Covered(cur[p], from[p])
  /\ pc[p] \in {"insert", "opaque", "quarantine", "cursor"} =>
       /\ newOffset[p] <= Len(file[cur[p]])
       /\ \A i \in (from[p] + 1)..newOffset[p] : file[cur[p]][i] \in batch[p]
  /\ pc[p] \in {"opaque", "quarantine", "cursor"} =>
       batch[p] \cap Events \subseteq raw
  /\ pc[p] \in {"quarantine", "cursor"} =>
       batch[p] \cap Opaque \subseteq opaqueRows
  /\ pc[p] = "cursor" =>
       batch[p] \cap Malformed \subseteq quarantined \cup unarchived

InFlightSafe == \A p \in Procs : InFlight(p)

\* A line on disk is in the store, or lies ahead of where the next pass will
\* start reading its file: no state of the system has forgotten a fact.
NoLineForgotten ==
  \A f \in Files : \A i \in DOMAIN file[f] :
     Persisted(file[f][i]) \/ i > StartOffset(offset[f], Len(file[f]))

\* "offsets never move backwards otherwise": ingest.rs says a cursor goes back
\* only for a truncated file.
OffsetsNeverMoveBackwards ==
  [][\A f \in Files : offset'[f] >= offset[f]]_vars

\* A cursor left past the end of a recreated file is brought back by the next
\* pass over it, so it does not stand forever.
CursorRecovers == \A f \in Files : []<>(offset[f] <= Len(file[f]))

\* Every line a collector completed is recorded in the end, with lost
\* notifications, stopped passes and a second process ingesting beside.
EveryLineIngested ==
  \A f \in Files : \A l \in Lines :
    (\E i \in DOMAIN file[f] : file[f][i] = l) ~> Persisted(l)
=============================================================================
