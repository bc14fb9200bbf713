------------------------------ MODULE HookSpans ------------------------------
(***************************************************************************)
(* `af hook` (crates/af-cli/src/cmd/hook.rs): one short process per hook   *)
(* event of a Claude Code session.  PreToolUse leaves an open-span record  *)
(* on disk, PostToolUse closes it with an event in the session's spool     *)
(* file, Stop sweeps what nobody closed.  The processes share only the     *)
(* file system, so every file operation is a step of its own and a process *)
(* may be killed between any two.                                          *)
(*                                                                         *)
(* The calls of one session, the order in which Claude Code starts the     *)
(* processes, and the kills are the environment.                           *)
(***************************************************************************)
EXTENDS Naturals, Sequences, FiniteSets

CONSTANTS
    Calls,          \* the tool calls of the session
    Session,        \* a model value: the session itself, as the subject of an event
    MaxKills,       \* bound: processes killed
    MaxLostAppends  \* bound: emits that fail (spool not writable)

VARIABLES
    at,          \* process -> the file operation it is about to do
    out,         \* process -> the events it has still to emit
    listed,      \* the files the running sweep has still to visit
    openspans,   \* call -> "absent" | "empty" (created, not yet written) | "record"
    dir,         \* is the session's open-span directory there?
    spooled,     \* the events appended to the session's spool file
    lineOpen,    \* does the spool file end without a newline?
    glued,       \* does any of its lines hold two events?
    opened,      \* history: calls whose PreToolUse ran to its end
    misread,     \* history: calls whose file a sweep found unreadable
    hookFaults   \* [kills, appends] so far

spoolVars == <<spooled, lineOpen, glued>>
hookVars == <<at, out, listed, openspans, dir, spooled, lineOpen, glued, opened,
              misread, hookFaults>>

Boot == <<"boot", Session>>
Sweep == <<"sweep", Session>>
Pre(c) == <<"pre", c>>
Post(c) == <<"post", c>>
Hooks == {Boot, Sweep} \cup ({"pre", "post"} \X Calls)

Event(c, kind) == [of |-> c, kind |-> kind]

Goto(p, step) == at' = [at EXCEPT ![p] = step]

\* A Stop hook may fire again at the end of the next turn; the others run once.
End(p) == IF p = Sweep THEN "idle" ELSE "done"

\* What a process held in memory goes with it.
Forget(p) ==
    /\ out' = [out EXCEPT ![p] = <<>>]
    /\ listed' = IF p = Sweep THEN {} ELSE listed

-----------------------------------------------------------------------------
HookInit ==
    /\ at = [p \in Hooks |-> "idle"]
    /\ out = [p \in Hooks |-> <<>>]
    /\ listed = {}
    /\ openspans = [c \in Calls |-> "absent"]
    /\ dir = FALSE
    /\ spooled = {} /\ lineOpen = FALSE /\ glued = FALSE
    /\ opened = {} /\ misread = {}
    /\ hookFaults = [kills |-> 0, appends |-> 0]

\* SessionStart: a bootstrap span, then the session's metadata.
SessionStart ==
    /\ at[Boot] = "idle"
    /\ Goto(Boot, "append")
    /\ out' = [out EXCEPT ![Boot] = <<Event(Session, "boot"), Event(Session, "meta")>>]
    /\ UNCHANGED <<listed, openspans, dir, spoolVars, opened, misread, hookFaults>>

\* PreToolUse, one file operation at a time: create_dir_all, then fs::write,
\* which first creates an empty file and then fills it.
PreToolUse(c) ==
    /\ at[Pre(c)] = "idle" /\ at[Boot] = "done"
    /\ Goto(Pre(c), "create")
    /\ dir' = TRUE
    /\ UNCHANGED <<out, listed, openspans, spoolVars, opened, misread, hookFaults>>

CreateRecord(c) ==
    /\ at[Pre(c)] = "create"
    /\ IF dir
         THEN /\ openspans' = [openspans EXCEPT ![c] = "empty"]
              /\ Goto(Pre(c), "write")
         ELSE /\ Goto(Pre(c), "done")  \* a sweep removed the directory: an error
              /\ UNCHANGED openspans
    /\ UNCHANGED <<out, listed, dir, spoolVars, opened, misread, hookFaults>>

\* A file that was unlinked in the meantime takes the bytes and stays gone.
WriteRecord(c) ==
    /\ at[Pre(c)] = "write"
    /\ openspans' = [openspans EXCEPT ![c] = IF @ = "empty" THEN "record" ELSE @]
    /\ opened' = opened \cup {c}
    /\ Goto(Pre(c), "done")
    /\ UNCHANGED <<out, listed, dir, spoolVars, misread, hookFaults>>

\* read_open_span, close_span: without a readable record the span was never
\* observed, and its status is unknown whatever the hook was told.
Observed(c) == openspans[c] = "record"
ClosedAs(c, status) == Event(c, IF Observed(c) THEN status ELSE "unknown")

\* PostToolUse or PostToolUseFailure: read the record, then emit.
PostToolUse(c) ==
    /\ at[Post(c)] = "idle" /\ at[Pre(c)] = "done"
    /\ Goto(Post(c), "append")
    /\ out' = [out EXCEPT ![Post(c)] = <<ClosedAs(c, "closed")>>]
    /\ UNCHANGED <<listed, openspans, dir, spoolVars, opened, misread, hookFaults>>

\* Stop or SessionEnd: list the files of this session's directory.
StopHook ==
    /\ at[Sweep] = "idle" /\ dir
    /\ listed' = {c \in Calls : openspans[c] # "absent"}
    /\ Goto(Sweep, "visit")
    /\ UNCHANGED <<out, openspans, dir, spoolVars, opened, misread, hookFaults>>

\* The next listed file (in any order): an open span is closed as unknown, a
\* file that does not parse is counted as corrupt and removed, a file that is
\* gone by now is counted too and there is nothing to remove.
VisitFile(c) ==
    /\ at[Sweep] = "visit" /\ c \in listed
    /\ IF Observed(c)
         THEN /\ Goto(Sweep, "append")
              /\ out' = [out EXCEPT ![Sweep] = <<ClosedAs(c, "unknown")>>]
              /\ UNCHANGED <<listed, misread>>
         ELSE /\ Goto(Sweep, "remove")
              /\ out' = [out EXCEPT ![Sweep] = <<Event(c, "corrupt")>>]
              /\ misread' = IF openspans[c] = "empty" THEN misread \cup {c} ELSE misread
              /\ UNCHANGED listed
    /\ UNCHANGED <<openspans, dir, spoolVars, opened, hookFaults>>

\* The directory goes when it is empty: remove_dir refuses otherwise.
RemoveDirectory ==
    /\ at[Sweep] = "visit" /\ listed = {}
    /\ dir' = (\E c \in Calls : openspans[c] # "absent")
    /\ Goto(Sweep, "idle")
    /\ UNCHANGED <<out, listed, openspans, spoolVars, opened, misread, hookFaults>>

-----------------------------------------------------------------------------
(* emit: `writeln!` on an unbuffered file is one write for the line and    *)
(* one for the newline.                                                    *)

AppendLine(p) ==
    /\ at[p] = "append"
    /\ spooled' = spooled \cup {Head(out[p])}
    /\ lineOpen' = TRUE
    /\ glued' = (glued \/ lineOpen)
    /\ Goto(p, "newline")
    /\ UNCHANGED <<out, listed, openspans, dir, opened, misread, hookFaults>>

AppendNewline(p) ==
    /\ at[p] = "newline"
    /\ lineOpen' = FALSE
    /\ IF p = Boot
         THEN /\ out' = [out EXCEPT ![p] = Tail(@)]
              /\ Goto(p, IF Len(out[p]) > 1 THEN "append" ELSE "done")
         ELSE Goto(p, "remove") /\ UNCHANGED out
    /\ UNCHANGED <<spooled, glued, listed, openspans, dir, opened, misread, hookFaults>>

\* What a process does when its emit fails: `?` returns, the record stays.
AfterLostAppendRemoves(p) == IF p = Boot THEN "done" ELSE "remove"
AfterLostAppend(p) == End(p)

LoseAppend(p) ==
    /\ at[p] = "append" /\ hookFaults.appends < MaxLostAppends
    /\ hookFaults' = [hookFaults EXCEPT !.appends = @ + 1]
    /\ Goto(p, AfterLostAppend(p))
    /\ IF AfterLostAppend(p) = End(p) THEN Forget(p) ELSE UNCHANGED <<out, listed>>
    /\ UNCHANGED <<openspans, dir, spoolVars, opened, misread>>

\* Does the removal that follows a visit take the file away?
RemovesOnlyEmitted(event) == event.kind # "corrupt"
Removes(event) == TRUE

\* PostToolUse and the sweep remove the record they have dealt with.
RemoveRecord(p) ==
    /\ at[p] = "remove"
    /\ LET c == Head(out[p]).of IN
         /\ openspans' = [openspans EXCEPT ![c] = IF Removes(Head(out[p])) THEN "absent" ELSE @]
         /\ listed' = IF p = Sweep THEN listed \ {c} ELSE listed
    /\ out' = [out EXCEPT ![p] = <<>>]
    /\ Goto(p, IF p = Sweep THEN "visit" ELSE "done")
    /\ UNCHANGED <<dir, spoolVars, opened, misread, hookFaults>>

\* A hook process dies: Claude Code's hook timeout, a closed terminal.
KillHook(p) ==
    /\ at[p] \notin {"idle", "done"} /\ hookFaults.kills < MaxKills
    /\ hookFaults' = [hookFaults EXCEPT !.kills = @ + 1]
    /\ Goto(p, End(p))
    /\ Forget(p)
    /\ UNCHANGED <<openspans, dir, spoolVars, opened, misread>>

-----------------------------------------------------------------------------
CallStep(c) == CreateRecord(c) \/ WriteRecord(c) \/ VisitFile(c)
HookStep(p) == AppendLine(p) \/ AppendNewline(p) \/ RemoveRecord(p)
Starts(c) == PreToolUse(c) \/ PostToolUse(c)
Faults(p) == LoseAppend(p) \/ KillHook(p)

HookNext ==
    \/ SessionStart
    \/ \E c \in Calls : Starts(c) \/ CallStep(c)
    \/ \E p \in Hooks : HookStep(p) \/ Faults(p)
    \/ StopHook \/ RemoveDirectory

HookSpec == HookInit /\ [][HookNext]_hookVars

-----------------------------------------------------------------------------
Spooled(c) == \E event \in spooled : event.of = c

\* hook.rs: an open span disappears from disk only after an event that closes
\* it was appended -- whoever closed it, in whatever order PostToolUse and the
\* sweep ran, and whichever of them died or failed half-way.  The one hole is
\* named: a sweep that reads the record while PreToolUse is still writing it
\* takes it for a corrupt file.
NoSpanForgotten ==
    \A c \in opened : openspans[c] = "absent" => Spooled(c) \/ c \in misread

\* hook.rs: no record stays on disk for ever; the next Stop takes what an
\* interrupted call, a failed emit or a dead hook left behind, half-written
\* files included.
OpenSpansDrain == \A c \in Calls : (openspans[c] # "absent") ~> (openspans[c] = "absent")

\* The comment of `emit` (hook.rs): "A single write keeps each line complete".
\* No line of the spool file ever holds two events.
LinesStayWhole == ~glued
=============================================================================
