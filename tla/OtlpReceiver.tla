---------------------------- MODULE OtlpReceiver -----------------------------
(***************************************************************************)
(* The OTLP receiver (crates/af-otlp): an accept loop hands requests to a  *)
(* pool of workers through a bounded queue; a worker normalizes the log    *)
(* records of a batch, appends the events to one spool file per collector  *)
(* and session, and answers.  The normalizers share one piece of state, the*)
(* provider each Codex conversation announced when it started.             *)
(*                                                                         *)
(* The exporters -- what they send, whether they retry, resend after a     *)
(* timeout or give a batch up -- are the environment.                      *)
(***************************************************************************)
EXTENDS Naturals, Sequences, FiniteSets, SequencesExt, FiniteSetsExt

CONSTANTS
    Exporters,      \* agents that export, one batch at a time each
    Workers,        \* WORKER_COUNT
    QueueCap,       \* REQUEST_QUEUE_CAPACITY
    CacheCap,       \* PROVIDER_CACHE_CAP
    Batches,        \* exporter -> sequence of [body, conv, records]
    NoRequest,      \* a worker at rest
    MaxOtlpFaults,  \* bound: appends that fail, and stops of the receiver
    MaxTries,       \* bound: exporter -> times it sends
    FileOrder       \* the spool files <<collector, session>>, by name

(* body: "logs", or what else can arrive.  A record names its agent (or one  *)
(* no normalizer knows), its kind, its conversation ("inherit": the resource's)*)
(* and whether all the fields a mapper insists on are there.                 *)
ASSUME OtlpAssumption ==
    /\ QueueCap \in Nat \ {0} /\ CacheCap \in Nat \ {0}
    /\ Batches \in [Exporters -> Seq([body : {"logs", "unparsed", "oversize", "cut", "other"},
                                      conv : STRING,
                                      records : Seq([agent : STRING, kind : STRING, conv : STRING,
                                                     ok : BOOLEAN])])]

VARIABLES
    serving,    \* "up", "stopping" (no more accepts, workers drain) or "down"
    waiting,    \* exporter -> is it waiting for an answer?
    turn,       \* exporter -> which of its batches is next
    tries,      \* exporter -> times it sent anything
    queue,      \* requests accepted and not yet taken
    worker,     \* worker -> NoRequest or [request, index, lines]
    cache,      \* ProviderCache: the conversations remembered, oldest first
    announced,  \* history: conversations announced to this process
    otlpSpool,  \* the lines appended so far, over all files
    acked,      \* history: <<exporter, batch>> answered 200
    otlpFaults  \* failed appends and stops so far

otlpVars == <<serving, waiting, turn, tries, queue, worker, cache, announced,
              otlpSpool, acked, otlpFaults>>

BatchOf(r) == Batches[r.from][r.batch]

-----------------------------------------------------------------------------
(* The normalizers.  A record becomes "event", "dropped" (claimed, but a     *)
(* field is missing) or "notApplicable".                                     *)

\* decode_logs: a record inherits the attributes it does not carry itself.
Records(r) ==
    LET batch == BatchOf(r) IN
    [i \in 1..Len(batch.records) |->
        [batch.records[i] EXCEPT !.conv = IF @ = "inherit" THEN batch.conv ELSE @]]

Mapped(record) == IF record.ok THEN "event" ELSE "dropped"

ClaudeCode(record) == IF record.agent = "claude" THEN Mapped(record) ELSE "notApplicable"

\* A completion without any usage is nobody's.
CodexCall(record) == IF record.kind = "unused" THEN "notApplicable" ELSE Mapped(record)

Codex(record) ==
    CASE record.agent # "codex" -> "notApplicable"
      [] record.agent = "codex" /\ record.kind \in {"completed", "unused"} -> CodexCall(record)
      [] record.agent = "codex" /\ record.kind \in {"start", "tool"} -> Mapped(record)
      [] OTHER -> "notApplicable"

GenAi(record) == IF record.agent = "genai" THEN Mapped(record) ELSE "notApplicable"

\* normalize_logs: the first normalizer of the registry to claim a record wins.
Verdict(record) ==
    LET verdicts == <<ClaudeCode(record), Codex(record), GenAi(record)>>
        claims == {i \in 1..3 : verdicts[i] # "notApplicable"}
    IN  IF claims = {} THEN "unclaimed" ELSE verdicts[Min(claims)]

\* Each mapper names the collector of its envelopes.
CollectorOf(agent) == [claude |-> "otlp-cc", codex |-> "otlp-codex", genai |-> "otlp-genai"][agent]

\* A start is remembered even when its own envelope cannot be made.
Announces(record) == record.agent = "codex" /\ record.kind = "start"

\* ProviderCache::insert: a conversation seen before keeps its place, a new
\* one beyond the cap evicts the oldest.
RememberEach(c, conv) ==
    IF Len(c) = CacheCap THEN Append(Tail(c), conv) ELSE Append(c, conv)
Remember(c, conv) ==
    IF conv \in ToSet(c) THEN c
    ELSE IF Len(c) = CacheCap THEN Append(Tail(c), conv) ELSE Append(c, conv)

\* A completion carries no provider: it is looked up, and else unknown.
ProviderKnown(record) ==
    record.agent = "codex" /\ record.kind = "completed" => record.conv \in ToSet(cache)

\* The id is derived from the record and its place in the batch: a batch sent
\* again yields the same ids.
EventId(r, index) == <<r.from, r.batch, index>>

Line(r, index) ==
    LET record == Records(r)[index] IN
    [id |-> EventId(r, index), file |-> <<CollectorOf(record.agent), record.conv>>,
     known |-> ProviderKnown(record)]

-----------------------------------------------------------------------------
OtlpInit ==
    /\ serving = "up"
    /\ waiting = [e \in Exporters |-> FALSE]
    /\ turn = [e \in Exporters |-> 1]
    /\ tries = [e \in Exporters |-> 0]
    /\ queue = <<>>
    /\ worker = [w \in Workers |-> NoRequest]
    /\ cache = <<>>
    /\ announced = {}
    /\ otlpSpool = {}
    /\ acked = {}
    /\ otlpFaults = 0

\* An exporter sends; the accept loop queues the request, or answers 503 when
\* the queue is full, and the exporter stays where it is.
Export(e) ==
    /\ serving = "up" /\ ~waiting[e]
    /\ turn[e] <= Len(Batches[e]) /\ tries[e] < MaxTries[e]
    /\ tries' = [tries EXCEPT ![e] = @ + 1]
    /\ IF Len(queue) < QueueCap
         THEN /\ queue' = Append(queue, [from |-> e, batch |-> turn[e], try |-> tries'[e]])
              /\ waiting' = [waiting EXCEPT ![e] = TRUE]
         ELSE UNCHANGED <<queue, waiting>>
    /\ UNCHANGED <<serving, turn, worker, cache, announced, otlpSpool, acked,
                   otlpFaults>>

\* The exporter stops waiting; its request goes on without it.
TimeOut(e) ==
    /\ waiting[e] /\ tries[e] < MaxTries[e]
    /\ waiting' = [waiting EXCEPT ![e] = FALSE]
    /\ UNCHANGED <<serving, turn, tries, queue, worker, cache, announced,
                   otlpSpool, acked, otlpFaults>>

\* The exporter drops a batch it could not deliver.
GiveUp(e) ==
    /\ ~waiting[e] /\ tries[e] > 0 /\ turn[e] <= Len(Batches[e])
    /\ turn' = [turn EXCEPT ![e] = @ + 1]
    /\ UNCHANGED <<serving, waiting, tries, queue, worker, cache, announced,
                   otlpSpool, acked, otlpFaults>>

\* respond: an answer nobody waits for any more is lost.  A retryable answer
\* leaves the batch where it is, every other one moves the exporter on.
Respond(r, status) ==
    LET heard == waiting[r.from] /\ tries[r.from] = r.try IN
    /\ waiting' = [waiting EXCEPT ![r.from] = @ /\ ~heard]
    /\ turn' = [turn EXCEPT ![r.from] = IF heard /\ status # 503 THEN @ + 1 ELSE @]
    /\ acked' = IF heard /\ status = 200 THEN acked \cup {<<r.from, r.batch>>} ELSE acked

\* spawn_worker: a worker at rest takes the oldest request.
TakeRequest(w) ==
    /\ worker[w] = NoRequest /\ queue # <<>> /\ serving # "down"
    /\ worker' = [worker EXCEPT ![w] = [request |-> Head(queue), index |-> 1, lines |-> {}]]
    /\ queue' = Tail(queue)
    /\ UNCHANGED <<serving, waiting, turn, tries, cache, announced, otlpSpool,
                   acked, otlpFaults>>

Handling(w) == worker[w] # NoRequest
Request(w) == worker[w].request
Batch(w) == BatchOf(Request(w))
Rest(w) == worker' = [worker EXCEPT ![w] = NoRequest]

\* A body that is not a batch of logs: too large (413), cut short (503),
\* unparseable (quarantined, 200), or not for /v1/logs at all (404).
RefuseBody(w) ==
    /\ Handling(w) /\ Batch(w).body # "logs"
    /\ Respond(Request(w), CASE Batch(w).body = "oversize" -> 413
                             [] Batch(w).body = "cut" -> 503
                             [] Batch(w).body = "unparsed" -> 200
                             [] Batch(w).body = "other" -> 404)
    /\ Rest(w)
    /\ UNCHANGED <<serving, tries, queue, cache, announced, otlpSpool, otlpFaults>>

Normalizing(w) == /\ Handling(w) /\ Batch(w).body = "logs"
                  /\ worker[w].index <= Len(Batch(w).records)
Appending(w) == Handling(w) /\ Batch(w).body = "logs" /\ ~Normalizing(w)

\* append_envelopes: file by file, and within a file in the order of the batch.
WrittenFirst(line, lines) ==
    LET place(l) == CHOOSE i \in DOMAIN FileOrder : FileOrder[i] = l.file
    IN  \A l \in lines :
          \/ place(line) < place(l)
          \/ place(line) = place(l) /\ line.id[3] <= l.id[3]

\* normalize_logs, one record: workers interleave between records, the lock of
\* the provider cache is held for one.
NormalizeRecord(w) ==
    /\ Normalizing(w)
    /\ LET index == worker[w].index
           record == Records(Request(w))[index] IN
         /\ worker' = [worker EXCEPT ![w] =
                [request |-> Request(w), index |-> index + 1,
                 lines |-> IF Verdict(record) = "event"
                           THEN @.lines \cup {Line(Request(w), index)} ELSE @.lines]]
         /\ IF Announces(record)
              THEN /\ cache' = Remember(cache, record.conv)
                   /\ announced' = announced \cup {record.conv}
              ELSE UNCHANGED <<cache, announced>>
    /\ UNCHANGED <<serving, waiting, turn, tries, queue, otlpSpool, acked,
                   otlpFaults>>

\* append_envelopes, one write for a line.
AppendEvent(w) ==
    /\ Appending(w)
    /\ \E line \in worker[w].lines :
         /\ WrittenFirst(line, worker[w].lines)
         /\ otlpSpool' = otlpSpool \cup {line}
         /\ worker' = [worker EXCEPT ![w].lines = @ \ {line}]
    /\ UNCHANGED <<serving, waiting, turn, tries, queue, cache, announced,
                   acked, otlpFaults>>

\* What the exporter is told when not every event could be appended.
PersistenceStatusIgnored == 200
PersistenceStatus == 503

FailAppendEvent(w) ==
    /\ Appending(w) /\ worker[w].lines # {} /\ otlpFaults < MaxOtlpFaults
    /\ otlpFaults' = otlpFaults + 1
    /\ Respond(Request(w), PersistenceStatus)
    /\ Rest(w)
    /\ UNCHANGED <<serving, tries, queue, cache, announced, otlpSpool>>

\* handle_logs is done: 200 whatever was unclaimed, and whatever was claimed
\* and could not be mapped (the whole body is quarantined then).
Accept(w) ==
    /\ Appending(w) /\ worker[w].lines = {}
    /\ Respond(Request(w), 200)
    /\ Rest(w)
    /\ UNCHANGED <<serving, tries, queue, cache, announced, otlpSpool, otlpFaults>>

\* ServerHandle::stop: no request is accepted any more, the workers drain the
\* queue, and after the grace period what is left dies with the process.
StopServer ==
    /\ serving = "up" /\ otlpFaults < MaxOtlpFaults
    /\ serving' = "stopping" /\ otlpFaults' = otlpFaults + 1
    /\ UNCHANGED <<waiting, turn, tries, queue, worker, cache, announced,
                   otlpSpool, acked>>

ExitServer ==
    /\ serving = "stopping"
    /\ serving' = "down"
    /\ queue' = <<>>
    /\ worker' = [w \in Workers |-> NoRequest]
    /\ waiting' = [e \in Exporters |-> FALSE]
    /\ cache' = <<>> /\ announced' = {}
    /\ UNCHANGED <<turn, tries, otlpSpool, acked, otlpFaults>>

RestartServer ==
    /\ serving = "down" /\ serving' = "up"
    /\ UNCHANGED <<waiting, turn, tries, queue, worker, cache, announced,
                   otlpSpool, acked, otlpFaults>>

-----------------------------------------------------------------------------
WorkerStep(w) ==
    TakeRequest(w) \/ RefuseBody(w) \/ NormalizeRecord(w) \/ AppendEvent(w) \/ Accept(w)
ExporterStep(e) == Export(e) \/ TimeOut(e) \/ GiveUp(e)

OtlpNext ==
    \/ \E w \in Workers : WorkerStep(w) \/ FailAppendEvent(w)
    \/ \E e \in Exporters : ExporterStep(e)
    \/ StopServer \/ ExitServer \/ RestartServer

OtlpSpec == OtlpInit /\ [][OtlpNext]_otlpVars

-----------------------------------------------------------------------------
EventIds(e, n) ==
    LET records == Records([from |-> e, batch |-> n]) IN
    {<<e, n, i>> : i \in {j \in DOMAIN records : Verdict(records[j]) = "event"}}

\* handle_logs: an exporter that was told 200 need not send the batch again --
\* every event of it is in the spool, whichever of its requests was answered,
\* and whatever happened to the other requests that carried it.
AckedIsSpooled ==
    \A b \in acked : Batches[b[1]][b[2]].body = "logs" =>
        EventIds(b[1], b[2]) \subseteq {l.id : l \in otlpSpool}

\* codex.rs: a provider is unknown only when the receiver missed the start of
\* the conversation or the mapping was evicted -- the cache forgets nothing
\* before the cap makes it, however often batches are sent again.
ProvidersKept ==
    /\ ToSet(cache) \subseteq announced
    /\ Cardinality(ToSet(cache)) = Min({CacheCap, Cardinality(announced)})
=============================================================================
