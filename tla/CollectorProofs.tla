--------------------------- MODULE CollectorProofs ---------------------------
(***************************************************************************)
(* Theorems about what the collectors leave in the spool: HookSpans,       *)
(* OpenCodeCollector and OtlpReceiver.                                     *)
(***************************************************************************)
EXTENDS HookSpans, OpenCodeCollector, OtlpReceiver, FiniteSetTheorems, SequenceTheorems, TLAPS

-----------------------------------------------------------------------------
(* Part one.  HookSpans, for any calls of a session and any number of kills
   and lost appends. *)

-----------------------------------------------------------------------------
(* The processes are told apart by what they do and for which call. *)

LEMMA HooksDiffer ==
  ASSUME NEW c \in Calls
  PROVE  /\ Pre(c) \in Hooks /\ Post(c) \in Hooks /\ Sweep \in Hooks /\ Boot \in Hooks
         /\ Pre(c) # Sweep /\ Post(c) # Sweep /\ Boot # Sweep
         /\ Pre(c) # Boot /\ Post(c) # Boot
         /\ \A d \in Calls : Pre(c) # Post(d) /\ (Pre(c) = Pre(d) => c = d)
  BY DEF Hooks, Pre, Post, Sweep, Boot

-----------------------------------------------------------------------------
(* Types *)

HookPlaces == {"idle", "done", "create", "write", "visit", "append", "newline", "remove"}
HookKinds == {"boot", "meta", "closed", "unknown", "corrupt"}
HookEvents == [of : Calls \cup {Session}, kind : HookKinds]

\* Every variable of the model is in its range.
HookTypeOK ==
  /\ at \in [Hooks -> HookPlaces]
  /\ out \in [Hooks -> Seq(HookEvents)]
  /\ listed \subseteq Calls
  /\ openspans \in [Calls -> {"absent", "empty", "record"}]
  /\ dir \in BOOLEAN /\ lineOpen \in BOOLEAN /\ glued \in BOOLEAN
  /\ spooled \subseteq HookEvents
  /\ opened \subseteq Calls /\ misread \subseteq Calls

\* A process that appends or removes has the event in hand.
HasEvent == \A p \in Hooks : at[p] \in {"append", "newline", "remove"} => out[p] # <<>>

HookTypeInv == HookTypeOK /\ HasEvent

LEMMA TypeInvInit == HookInit => HookTypeInv
<1>. SUFFICES ASSUME HookInit PROVE HookTypeInv
  OBVIOUS
<1>. USE DEF HookInit
<1>1. at \in [Hooks -> HookPlaces] /\ HasEvent
  BY DEF HookPlaces, HasEvent
<1>2. <<>> \in Seq(HookEvents)
  OBVIOUS
<1>3. out \in [Hooks -> Seq(HookEvents)]
  BY <1>2
<1>4. QED
  BY <1>1, <1>3 DEF HookTypeInv, HookTypeOK

LEMMA Ends ==
  ASSUME NEW S, NEW s \in Seq(S), s # <<>>
  PROVE  Head(s) \in S /\ Tail(s) \in Seq(S) /\ (Len(s) > 1 => Tail(s) # <<>>)
<1>. DEFINE rest == Tail(s)
<1>1. Head(s) \in S /\ rest \in Seq(S) /\ Len(rest) = Len(s) - 1 /\ Len(s) \in Nat
  BY HeadTailProperties
<1>. HIDE DEF rest
<1>2. Len(s) > 1 => Len(rest) > 0
  BY <1>1
<1>3. Len(s) > 1 => rest # <<>>
  BY <1>2, EmptySeq
<1>4. QED
  BY <1>1, <1>3 DEF rest

LEMMA EventTyped ==
  ASSUME NEW c \in Calls, NEW kind \in HookKinds
  PROVE  Event(c, kind) \in HookEvents
  BY DEF Event, HookEvents

LEMMA ClosedTyped ==
  ASSUME NEW c \in Calls, NEW kind \in HookKinds
  PROVE  ClosedAs(c, kind) \in HookEvents
  BY EventTyped DEF ClosedAs, HookKinds

\* A process that ends has nothing in hand.
LEMMA ForgetTyped ==
  ASSUME HookTypeInv, NEW p \in Hooks, Goto(p, End(p)), Forget(p)
  PROVE  /\ at' \in [Hooks -> HookPlaces] /\ out' \in [Hooks -> Seq(HookEvents)] /\ listed' \subseteq Calls
         /\ HasEvent'
<1>. USE DEF HookTypeInv, HookTypeOK
<1>1. End(p) \in {"idle", "done"} /\ at' = [at EXCEPT ![p] = End(p)]
  BY DEF End, Goto
<1>2. <<>> \in Seq(HookEvents) /\ out' = [out EXCEPT ![p] = <<>>]
  BY DEF Forget
<1>3. at' \in [Hooks -> HookPlaces]
  BY <1>1 DEF HookPlaces
<1>4. out' \in [Hooks -> Seq(HookEvents)]
  BY <1>2
<1>5. listed' \subseteq Calls
  BY DEF Forget
<1>6. HasEvent'
  BY <1>1, <1>2 DEF HasEvent
<1>7. QED
  BY <1>3, <1>4, <1>5, <1>6

LEMMA TypeStep ==
  ASSUME HookTypeInv, [HookNext]_hookVars
  PROVE  HookTypeInv'
<1>. USE DEF HookTypeInv, HookTypeOK, HasEvent, Goto
<1>1. CASE SessionStart
  <2>1. <<Event(Session, "boot"), Event(Session, "meta")>> \in Seq(HookEvents)
    BY DEF Event, HookEvents, HookKinds
  <2>2. <<Event(Session, "boot"), Event(Session, "meta")>> # <<>>
    OBVIOUS
  <2>3. QED
    BY <1>1, <2>1, <2>2 DEF SessionStart, HookPlaces, spoolVars
<1>2. ASSUME NEW c \in Calls, PreToolUse(c)
      PROVE  HookTypeInv'
  BY <1>2 DEF PreToolUse, HookPlaces, spoolVars
<1>3. ASSUME NEW c \in Calls, PostToolUse(c)
      PROVE  HookTypeInv'
  <2>1. <<ClosedAs(c, "closed")>> \in Seq(HookEvents) /\ <<ClosedAs(c, "closed")>> # <<>>
    BY ClosedTyped DEF HookKinds
  <2>2. QED
    BY <1>3, <2>1 DEF PostToolUse, HookPlaces, spoolVars
<1>4. ASSUME NEW c \in Calls, CreateRecord(c)
      PROVE  HookTypeInv'
  BY <1>4 DEF CreateRecord, HookPlaces, spoolVars
<1>5. ASSUME NEW c \in Calls, WriteRecord(c)
      PROVE  HookTypeInv'
  BY <1>5 DEF WriteRecord, HookPlaces, spoolVars
<1>6. ASSUME NEW c \in Calls, VisitFile(c)
      PROVE  HookTypeInv'
  <2>1. /\ <<ClosedAs(c, "unknown")>> \in Seq(HookEvents) /\ <<ClosedAs(c, "unknown")>> # <<>>
        /\ <<Event(c, "corrupt")>> \in Seq(HookEvents) /\ <<Event(c, "corrupt")>> # <<>>
    BY ClosedTyped, EventTyped DEF HookKinds
  <2>2. CASE Observed(c)
    BY <1>6, <2>1, <2>2 DEF VisitFile, HookPlaces, spoolVars
  <2>3. CASE ~Observed(c)
    BY <1>6, <2>1, <2>3 DEF VisitFile, HookPlaces, spoolVars
  <2>4. QED
    BY <2>2, <2>3
<1>7. ASSUME NEW p \in Hooks, AppendLine(p)
      PROVE  HookTypeInv'
  <2>1. out[p] \in Seq(HookEvents) /\ out[p] # <<>>
    BY <1>7 DEF AppendLine
  <2>2. Head(out[p]) \in HookEvents
    BY <2>1, Ends
  <2>3. QED
    BY <1>7, <2>2 DEF AppendLine, HookPlaces
<1>8. ASSUME NEW p \in Hooks, AppendNewline(p)
      PROVE  HookTypeInv'
  <2>1. out[p] \in Seq(HookEvents) /\ out[p] # <<>>
    BY <1>8 DEF AppendNewline
  <2>2. Tail(out[p]) \in Seq(HookEvents) /\ (Len(out[p]) > 1 => Tail(out[p]) # <<>>)
    BY <2>1, Ends
  <2>3. UNCHANGED <<spooled, glued, listed, openspans, dir, opened, misread>> /\ lineOpen' = FALSE
    BY <1>8 DEF AppendNewline
  <2>4. CASE p = Boot /\ Len(out[p]) > 1
    <3>1. at' = [at EXCEPT ![p] = "append"] /\ out' = [out EXCEPT ![p] = Tail(out[p])]
      BY <1>8, <2>4 DEF AppendNewline
    <3>2. QED
      BY <2>2, <2>3, <2>4, <3>1 DEF HookPlaces
  <2>5. CASE p = Boot /\ ~(Len(out[p]) > 1)
    <3>1. at' = [at EXCEPT ![p] = "done"] /\ out' = [out EXCEPT ![p] = Tail(out[p])]
      BY <1>8, <2>5 DEF AppendNewline
    <3>2. QED
      BY <2>2, <2>3, <3>1 DEF HookPlaces
  <2>6. CASE p # Boot
    <3>1. at' = [at EXCEPT ![p] = "remove"] /\ out' = out
      BY <1>8, <2>6 DEF AppendNewline
    <3>2. QED
      BY <2>1, <2>3, <3>1 DEF HookPlaces
  <2>7. QED
    BY <2>4, <2>5, <2>6
<1>9. ASSUME NEW p \in Hooks, RemoveRecord(p)
      PROVE  HookTypeInv'
  <2>1. at' \in [Hooks -> HookPlaces] /\ listed' \subseteq Calls
    BY <1>9 DEF RemoveRecord, HookPlaces
  <2>2. openspans' \in [Calls -> {"absent", "empty", "record"}]
    BY <1>9 DEF RemoveRecord, Removes
  <2>3. <<>> \in Seq(HookEvents) /\ out' = [out EXCEPT ![p] = <<>>]
    BY <1>9 DEF RemoveRecord
  <2>4. out' \in [Hooks -> Seq(HookEvents)]
    BY <2>3
  <2>5. HasEvent'
    BY <1>9 DEF RemoveRecord
  <2>6. QED
    BY <1>9, <2>1, <2>2, <2>4, <2>5 DEF RemoveRecord, spoolVars
<1>10. ASSUME NEW p \in Hooks, LoseAppend(p)
       PROVE  HookTypeInv'
  BY <1>10, ForgetTyped DEF LoseAppend, AfterLostAppend, spoolVars
<1>11. ASSUME NEW p \in Hooks, KillHook(p)
       PROVE  HookTypeInv'
  BY <1>11, ForgetTyped DEF KillHook, spoolVars
<1>12. CASE StopHook
  BY <1>12 DEF StopHook, HookPlaces, spoolVars
<1>13. CASE RemoveDirectory
  BY <1>13 DEF RemoveDirectory, HookPlaces, spoolVars
<1>14. CASE UNCHANGED hookVars
  BY <1>14 DEF hookVars
<1>15. QED
  BY <1>1, <1>2, <1>3, <1>4, <1>5, <1>6, <1>7, <1>8, <1>9, <1>10, <1>11, <1>12, <1>13, <1>14
  DEF HookNext, Starts, CallStep, HookStep, Faults

\* The model is typed: every variable stays in its range (hook.rs, handle).
THEOREM HookTypeCorrect == HookSpec => []HookTypeOK
<1>1. HookTypeInv /\ [HookNext]_hookVars => HookTypeInv'
  BY TypeStep
<1>2. HookTypeInv => HookTypeOK
  BY DEF HookTypeInv
<1>3. QED
  BY TypeInvInit, <1>1, <1>2, PTL DEF HookSpec

-----------------------------------------------------------------------------
(* No open span is forgotten.  NoSpanForgotten speaks of what is gone; the  *)
(* invariant adds why a process may take it away: the event it holds has    *)
(* been appended, or the file had been seen unreadable, or it was gone      *)
(* before.  A file once made and gone never comes back.                     *)

\* c's PreToolUse is past the creation of its file, or over.
Past(c) == at[Pre(c)] \in {"write", "done"}
Settled(c) == Spooled(c) \/ c \in misread

FilesWereMade ==
  /\ \A c \in Calls : openspans[c] # "absent" => Past(c)
  /\ \A c \in listed : Past(c)

GoneIsSettled ==
  \A c \in Calls :
    openspans[c] = "absent" /\ (c \in opened \/ at[Pre(c)] = "write") => Settled(c)

\* p may remove the file of its event.
MayRemove(p) ==
  LET event == Head(out[p]) IN
    \/ event \in spooled
    \/ event.of \in misread
    \/ event.of \in Calls /\ openspans[event.of] = "absent" /\ Past(event.of)

AppendedFirst ==
  \A p \in Hooks : /\ (at[p] = "newline" => Head(out[p]) \in spooled)
                    /\ (at[p] = "remove" => MayRemove(p))

HookInv == HookTypeInv /\ FilesWereMade /\ GoneIsSettled /\ AppendedFirst

LEMMA HookInvInit == HookInit => HookInv
<1>. SUFFICES ASSUME HookInit PROVE HookInv
  OBVIOUS
<1>1. HookTypeInv
  BY TypeInvInit
<1>2. \A p \in Hooks : at[p] = "idle"
  BY DEF HookInit
<1>3. FilesWereMade /\ GoneIsSettled
  BY <1>2, HooksDiffer DEF HookInit, FilesWereMade, GoneIsSettled
<1>4. AppendedFirst
  BY <1>2 DEF AppendedFirst
<1>5. QED
  BY <1>1, <1>3, <1>4 DEF HookInv

\* A step that adds no file, no opened span and no listed file, and after which
\* no more calls are writing, keeps what is about files.
LEMMA FilesUntouched ==
  ASSUME HookInv,
         \A c \in Calls : (Past(c) => Past(c)') /\ (at'[Pre(c)] = "write" => at[Pre(c)] = "write"),
         listed' \subseteq listed, openspans' = openspans,
         opened' = opened, spooled \subseteq spooled', misread \subseteq misread'
  PROVE  FilesWereMade' /\ GoneIsSettled' /\ (\A q \in Hooks : MayRemove(q) /\ out'[q] = out[q] => MayRemove(q)')
<1>1. listed \subseteq Calls /\ opened \subseteq Calls
  BY DEF HookInv, HookTypeInv, HookTypeOK
<1>2. FilesWereMade'
  BY <1>1 DEF HookInv, FilesWereMade
<1>3. \A c \in Calls : Settled(c) => Settled(c)'
  BY DEF Settled, Spooled
<1>4. GoneIsSettled'
  BY <1>3 DEF HookInv, GoneIsSettled
<1>5. ASSUME NEW q \in Hooks, MayRemove(q), out'[q] = out[q]
      PROVE  MayRemove(q)'
  BY <1>5 DEF MayRemove
<1>6. QED
  BY <1>2, <1>4, <1>5

\* Only the process that moves needs a new reason to hold what it holds.
LEMMA OnlyTheMover ==
  ASSUME HookInv, NEW p \in Hooks, NEW there,
         at' = [at EXCEPT ![p] = there],
         \A q \in Hooks : q # p => out'[q] = out[q],
         spooled \subseteq spooled',
         \A q \in Hooks : q # p /\ MayRemove(q) => MayRemove(q)',
         there = "newline" => Head(out'[p]) \in spooled',
         there = "remove" => MayRemove(p)'
  PROVE  AppendedFirst'
<1>1. at'[p] = there /\ \A q \in Hooks : q # p => at'[q] = at[q]
  BY DEF HookInv, HookTypeInv, HookTypeOK
<1>2. ASSUME NEW q \in Hooks, q # p
      PROVE  (at'[q] = "newline" => Head(out'[q]) \in spooled') /\ (at'[q] = "remove" => MayRemove(q)')
  BY <1>1, <1>2 DEF HookInv, AppendedFirst
<1>3. QED
  BY <1>1, <1>2 DEF AppendedFirst

\* The calls' own processes stay where they are, or end, when another moves or
\* when one of them ends.
LEMMA CallsStay ==
  ASSUME HookInv, NEW p \in Hooks, NEW there,
         at' = [at EXCEPT ![p] = there],
         \/ there = "done"
         \/ there # "write" /\ at[p] \notin {"write", "done"}
         \/ \A c \in Calls : p # Pre(c)
  PROVE  \A c \in Calls : (Past(c) => Past(c)') /\ (at'[Pre(c)] = "write" => at[Pre(c)] = "write")
<1>1. at \in [Hooks -> HookPlaces]
  BY DEF HookInv, HookTypeInv, HookTypeOK
<1>2. \A c \in Calls : Pre(c) \in Hooks
  BY HooksDiffer
<1>3. QED
  BY <1>1, <1>2 DEF Past

\* The step of a process that takes away no file and is none of PreToolUse's.
LEMMA QuietMove ==
  ASSUME HookInv, NEW p \in Hooks, NEW there,
         Goto(p, there),
         \/ there = "done"
         \/ there # "write" /\ at[p] \notin {"write", "done"}
         \/ \A c \in Calls : p # Pre(c),
         \A q \in Hooks : q # p => out'[q] = out[q],
         listed' \subseteq listed, openspans' = openspans,
         opened' = opened, spooled \subseteq spooled', misread \subseteq misread',
         there = "newline" => Head(out'[p]) \in spooled',
         there = "remove" => MayRemove(p)'
  PROVE  FilesWereMade' /\ GoneIsSettled' /\ AppendedFirst'
<1>1. at' = [at EXCEPT ![p] = there]
  BY DEF Goto
<1>2. \A c \in Calls : (Past(c) => Past(c)') /\ (at'[Pre(c)] = "write" => at[Pre(c)] = "write")
  BY <1>1, CallsStay
<1>3. FilesWereMade' /\ GoneIsSettled' /\ (\A q \in Hooks : MayRemove(q) /\ out'[q] = out[q] => MayRemove(q)')
  BY <1>2, FilesUntouched
<1>4. AppendedFirst'
  BY <1>1, <1>3, OnlyTheMover
<1>5. QED
  BY <1>3, <1>4

LEMMA HookInvStep ==
  ASSUME HookInv, [HookNext]_hookVars
  PROVE  HookInv'
<1>. USE DEF Goto
<1>0. /\ HookTypeInv' /\ HookTypeOK /\ HasEvent
      /\ FilesWereMade /\ GoneIsSettled /\ AppendedFirst
  BY TypeStep DEF HookInv, HookTypeInv
<1>. DEFINE Kept == FilesWereMade' /\ GoneIsSettled' /\ AppendedFirst'
<1>a. Boot \in Hooks /\ Sweep \in Hooks /\ \A c \in Calls : Pre(c) # Boot /\ Pre(c) # Sweep
  BY HooksDiffer DEF Hooks
<1>b. \A c \in Calls : Pre(c) \in Hooks /\ Post(c) \in Hooks /\ \A d \in Calls : Pre(d) # Post(c)
  BY HooksDiffer
<1>1. ASSUME SessionStart
      PROVE  Kept
  <2>1. Goto(Boot, "append") /\ \A q \in Hooks : q # Boot => out'[q] = out[q]
    BY <1>0, <1>1 DEF SessionStart, HookTypeOK
  <2>2. QED
    BY <1>a, <1>1, <2>1, QuietMove DEF SessionStart, spoolVars
<1>2. ASSUME NEW c \in Calls, PreToolUse(c)
      PROVE  Kept
  <2>1. Goto(Pre(c), "create") /\ at[Pre(c)] = "idle"
    BY <1>2 DEF PreToolUse
  <2>2. QED
    BY <1>b, <1>2, <2>1, QuietMove DEF PreToolUse, spoolVars
<1>3. ASSUME NEW c \in Calls, PostToolUse(c)
      PROVE  Kept
  <2>1. Goto(Post(c), "append") /\ \A q \in Hooks : q # Post(c) => out'[q] = out[q]
    BY <1>0, <1>3 DEF PostToolUse, HookTypeOK
  <2>2. QED
    BY <1>b, <1>3, <2>1, QuietMove DEF PostToolUse, spoolVars
<1>4. ASSUME NEW p \in Hooks, AppendLine(p)
      PROVE  Kept
  <2>1. Goto(p, "newline") /\ at[p] = "append" /\ out' = out
    BY <1>4 DEF AppendLine
  <2>2. spooled \subseteq spooled' /\ Head(out'[p]) \in spooled'
    BY <1>4 DEF AppendLine
  <2>3. QED
    BY <1>4, <2>1, <2>2, QuietMove DEF AppendLine
<1>5. ASSUME NEW p \in Hooks, AppendNewline(p)
      PROVE  Kept
  <2>1. Head(out[p]) \in spooled
    BY <1>0, <1>5 DEF AppendNewline, AppendedFirst
  <2>2. CASE p = Boot
    <3>1. PICK there \in {"append", "done"} : Goto(p, there)
      BY <1>5, <2>2 DEF AppendNewline
    <3>2. \A q \in Hooks : q # p => out'[q] = out[q]
      BY <1>0, <1>5, <2>2 DEF AppendNewline, HookTypeOK
    <3>3. QED
      BY <1>5, <3>1, <3>2, QuietMove DEF AppendNewline
  <2>3. CASE p # Boot
    <3>1. Goto(p, "remove") /\ out' = out
      BY <1>5, <2>3 DEF AppendNewline
    <3>2. MayRemove(p)'
      BY <1>5, <2>1, <3>1 DEF AppendNewline, MayRemove
    <3>3. QED
      BY <1>5, <3>1, <3>2, QuietMove DEF AppendNewline
  <2>4. QED
    BY <2>2, <2>3
<1>6. ASSUME NEW p \in Hooks, Goto(p, End(p)), Forget(p),
             UNCHANGED <<openspans, spooled, opened, misread>>
      PROVE  Kept
  <2>1. End(p) = "done" \/ (End(p) = "idle" /\ \A c \in Calls : p # Pre(c))
    BY <1>a DEF End
  <2>2. listed' \subseteq listed /\ \A q \in Hooks : q # p => out'[q] = out[q]
    BY <1>0, <1>6 DEF Forget, HookTypeOK
  <2>3. QED
    BY <1>6, <2>1, <2>2, QuietMove
<1>7. ASSUME NEW p \in Hooks, LoseAppend(p)
      PROVE  Kept
  BY <1>6, <1>7 DEF LoseAppend, AfterLostAppend, spoolVars
<1>8. ASSUME NEW p \in Hooks, KillHook(p)
      PROVE  Kept
  BY <1>6, <1>8 DEF KillHook, spoolVars
<1>9. ASSUME RemoveDirectory
      PROVE  Kept
  <2>1. Goto(Sweep, "idle") /\ out' = out /\ listed' = listed
    BY <1>9 DEF RemoveDirectory
  <2>2. QED
    BY <1>a, <1>9, <2>1, QuietMove DEF RemoveDirectory, spoolVars
<1>10. ASSUME NEW c \in Calls, CreateRecord(c)
       PROVE  Kept
  <2>1. at[Pre(c)] = "create" /\ UNCHANGED <<out, listed, spooled, opened, misread>>
    BY <1>10 DEF CreateRecord, spoolVars
  <2>2. CASE ~dir
    <3>1. Goto(Pre(c), "done") /\ openspans' = openspans
      BY <1>10, <2>2 DEF CreateRecord
    <3>2. QED
      BY <1>b, <2>1, <3>1, QuietMove
  <2>3. CASE dir
    <3>1. /\ at' = [at EXCEPT ![Pre(c)] = "write"]
          /\ openspans' = [openspans EXCEPT ![c] = "empty"]
      BY <1>10, <2>3 DEF CreateRecord
    <3>2. /\ at'[Pre(c)] = "write"
          /\ \A d \in Calls : d # c => at'[Pre(d)] = at[Pre(d)]
      BY <1>0, <1>b, <3>1, HooksDiffer DEF HookTypeOK
    <3>3. openspans'[c] = "empty" /\ \A d \in Calls : d # c => openspans'[d] = openspans[d]
      BY <1>0, <3>1 DEF HookTypeOK
    <3>4. FilesWereMade'
      BY <1>0, <2>1, <3>2, <3>3 DEF FilesWereMade, Past, HookTypeOK
    <3>5. GoneIsSettled'
      BY <1>0, <2>1, <3>2, <3>3 DEF GoneIsSettled, Settled, Spooled
    <3>6. \A q \in Hooks : MayRemove(q) => MayRemove(q)'
      BY <2>1, <3>2, <3>3 DEF MayRemove, Past
    <3>7. AppendedFirst'
      BY <1>b, <2>1, <3>1, <3>6, OnlyTheMover
    <3>8. QED
      BY <3>4, <3>5, <3>7
  <2>4. QED
    BY <1>0, <2>2, <2>3 DEF HookTypeOK
<1>11. ASSUME NEW c \in Calls, WriteRecord(c)
       PROVE  Kept
  <2>1. /\ at[Pre(c)] = "write" /\ at' = [at EXCEPT ![Pre(c)] = "done"]
        /\ opened' = opened \cup {c} /\ UNCHANGED <<out, listed, spooled, misread>>
    BY <1>11 DEF WriteRecord, spoolVars
  <2>2. /\ at'[Pre(c)] = "done"
        /\ \A d \in Calls : d # c => at'[Pre(d)] = at[Pre(d)]
    BY <1>0, <1>b, <2>1, HooksDiffer DEF HookTypeOK
  <2>3. \A d \in Calls : openspans'[d] = "absent" <=> openspans[d] = "absent"
    BY <1>0, <1>11 DEF WriteRecord, HookTypeOK
  <2>4. FilesWereMade'
    BY <1>0, <2>1, <2>2, <2>3 DEF FilesWereMade, Past, HookTypeOK
  <2>5. GoneIsSettled'
    BY <1>0, <2>1, <2>2, <2>3 DEF GoneIsSettled, Settled, Spooled
  <2>6. \A q \in Hooks : MayRemove(q) => MayRemove(q)'
    BY <2>1, <2>2, <2>3 DEF MayRemove, Past
  <2>7. AppendedFirst'
    BY <1>b, <2>1, <2>6, OnlyTheMover
  <2>8. QED
    BY <2>4, <2>5, <2>7
<1>12. ASSUME NEW c \in Calls, VisitFile(c)
       PROVE  Kept
  <2>1. c \in listed /\ UNCHANGED <<listed, openspans, spooled, opened>>
    BY <1>12 DEF VisitFile, spoolVars
  <2>2. misread \subseteq misread' /\ \A q \in Hooks : q # Sweep => out'[q] = out[q]
    BY <1>0, <1>12 DEF VisitFile, HookTypeOK
  <2>3. CASE Observed(c)
    <3>1. Goto(Sweep, "append")
      BY <1>12, <2>3 DEF VisitFile
    <3>2. QED
      BY <1>a, <2>1, <2>2, <3>1, QuietMove
  <2>4. CASE ~Observed(c)
    <3>1. /\ Goto(Sweep, "remove") /\ out'[Sweep] = <<Event(c, "corrupt")>>
          /\ openspans[c] = "empty" => c \in misread'
      BY <1>0, <1>a, <1>12, <2>4 DEF VisitFile, HookTypeOK
    <3>2. Head(out'[Sweep]).of = c
      BY <3>1 DEF Event
    <3>3. openspans[c] \in {"empty", "absent"}
      BY <1>0, <2>4 DEF Observed, HookTypeOK
    <3>4. Past(c)'
      BY <1>0, <1>a, <1>b, <2>1, <3>1 DEF FilesWereMade, Past, HookTypeOK
    <3>5. MayRemove(Sweep)'
      BY <2>1, <3>1, <3>2, <3>3, <3>4 DEF MayRemove
    <3>6. QED
      BY <1>a, <2>1, <2>2, <3>1, <3>5, QuietMove
  <2>5. QED
    BY <2>3, <2>4
<1>13. ASSUME NEW p \in Hooks, RemoveRecord(p)
       PROVE  Kept
  <2>. DEFINE gone == Head(out[p]).of
  <2>1. /\ at[p] = "remove" /\ MayRemove(p)
        /\ UNCHANGED <<spooled, opened, misread>> /\ listed' \subseteq listed
    BY <1>0, <1>13 DEF RemoveRecord, AppendedFirst, spoolVars
  <2>2. at' = [at EXCEPT ![p] = IF p = Sweep THEN "visit" ELSE "done"]
    BY <1>13 DEF RemoveRecord
  <2>3. \A c \in Calls : (Past(c) => Past(c)') /\ (at'[Pre(c)] = "write" => at[Pre(c)] = "write")
    BY <1>a, <2>2, CallsStay
  <2>4. \A c \in Calls : openspans'[c] = IF c = gone THEN "absent" ELSE openspans[c]
    BY <1>0, <1>13 DEF RemoveRecord, Removes, HookTypeOK
  <2>5. \A q \in Hooks : q # p => out'[q] = out[q]
    BY <1>0, <1>13 DEF RemoveRecord, HookTypeOK
  <2>6. FilesWereMade'
    BY <1>0, <2>1, <2>3, <2>4 DEF FilesWereMade, HookTypeOK
  <2>7. gone \in Calls => Settled(gone) \/ openspans[gone] = "absent"
    BY <2>1 DEF MayRemove, Settled, Spooled
  <2>8. GoneIsSettled'
    BY <1>0, <2>1, <2>3, <2>4, <2>7 DEF GoneIsSettled, Settled, Spooled
  <2>9. \A q \in Hooks : q # p /\ MayRemove(q) => MayRemove(q)'
    BY <2>1, <2>3, <2>4, <2>5 DEF MayRemove
  <2>10. AppendedFirst'
    <3>. DEFINE there == IF p = Sweep THEN "visit" ELSE "done"
    <3>1. there # "newline" /\ there # "remove" /\ spooled \subseteq spooled'
      BY <2>1
    <3>2. at' = [at EXCEPT ![p] = there]
      BY <2>2
    <3>. HIDE DEF there
    <3>3. QED
      BY <2>5, <2>9, <3>1, <3>2, OnlyTheMover
  <2>11. QED
    BY <2>6, <2>8, <2>10
<1>14. ASSUME StopHook
       PROVE  Kept
  <2>1. /\ at' = [at EXCEPT ![Sweep] = "visit"] /\ listed' = {c \in Calls : openspans[c] # "absent"}
        /\ UNCHANGED <<out, openspans, spooled, opened, misread>>
    BY <1>14 DEF StopHook, spoolVars
  <2>2. \A c \in Calls : at'[Pre(c)] = at[Pre(c)]
    BY <1>0, <1>a, <1>b, <2>1 DEF HookTypeOK
  <2>3. FilesWereMade' /\ GoneIsSettled'
    BY <1>0, <2>1, <2>2 DEF FilesWereMade, GoneIsSettled, Past, Settled, Spooled
  <2>4. \A q \in Hooks : MayRemove(q) => MayRemove(q)'
    BY <2>1, <2>2 DEF MayRemove, Past
  <2>5. AppendedFirst'
    BY <1>a, <2>1, <2>4, OnlyTheMover
  <2>6. QED
    BY <2>3, <2>5
<1>15. ASSUME UNCHANGED hookVars
       PROVE  Kept
  BY <1>0, <1>15 DEF hookVars, FilesWereMade, GoneIsSettled, AppendedFirst, Past, Settled, Spooled, MayRemove
<1>16. Kept
  BY <1>1, <1>2, <1>3, <1>4, <1>5, <1>7, <1>8, <1>9, <1>10, <1>11, <1>12, <1>13, <1>14, <1>15
  DEF HookNext, Starts, CallStep, HookStep, Faults
<1>17. QED
  BY <1>0, <1>16 DEF HookInv

\* A record leaves the disk only after an event that closes its span was
\* appended, whoever removes it and whatever was killed or failed (hook.rs,
\* handle and emit), but for one a sweep met before it was written.
THEOREM NoOpenSpanIsForgotten == HookSpec => []NoSpanForgotten
<1>1. HookInv /\ [HookNext]_hookVars => HookInv'
  BY HookInvStep
<1>2. HookInv => NoSpanForgotten
  BY DEF HookInv, HookTypeInv, HookTypeOK, GoneIsSettled, Settled, NoSpanForgotten
<1>3. QED
  BY HookInvInit, <1>1, <1>2, PTL DEF HookSpec

-----------------------------------------------------------------------------
(* Part two.  OpenCodeCollector, for any stream, any number of collectors and
   overrides, and any number of faults and restarts. *)

-----------------------------------------------------------------------------
(* What a collector that stands somewhere in the stream is answerable for *)

\* Every settlement up to `after` is in the spool, and so is every start up to there
\* that is not among the remembered ones -- but for what an operator skipped.
Covers(inSpool, skip, after, starts) ==
  /\ \A i \in DOMAIN Log : \A j \in 1..(i - 1) :
       /\ Log[i].kind = "settle" /\ Log[i].seq > 0 /\ Log[i].seq <= after
       /\ Log[j].kind = "start" /\ Log[j].key = Log[i].key /\ Log[j].seq > skip
       => Log[i].key \in inSpool
  /\ \A j \in DOMAIN Log :
       Log[j].kind = "start" /\ Log[j].seq > skip /\ Log[j].seq <= after
         => Log[j].key \in starts \cup inSpool

LEMMA LogType ==
  /\ Len(Log) \in Nat /\ DOMAIN Log = 1..Len(Log)
  /\ \A i \in DOMAIN Log : Log[i].seq \in Nat /\ Log[i].key \in LogKeys
<1>. DEFINE LogEvents == [seq : Nat, kind : {"start", "settle", "faulty", "quiet", "foreign"},
                       key : LogKeys]
<1>1. Log \in Seq(LogEvents)
  BY LogAssumption
<1>2. \A event \in LogEvents : event.seq \in Nat /\ event.key \in LogKeys
  OBVIOUS
<1>. HIDE DEF LogEvents
<1>3. Len(Log) \in Nat /\ DOMAIN Log = 1..Len(Log) /\ \A i \in DOMAIN Log : Log[i] \in LogEvents
  BY <1>1
<1>4. QED
  BY <1>2, <1>3

\* More in the spool and more skipped: the less there is to answer for.
LEMMA CoversStays ==
  ASSUME NEW inSpool, NEW inSpool2, inSpool \subseteq inSpool2,
         NEW skip \in Nat, NEW skip2 \in Nat, skip <= skip2,
         NEW after, NEW starts, Covers(inSpool, skip, after, starts)
  PROVE  Covers(inSpool2, skip2, after, starts)
<1>1. \A j \in DOMAIN Log : Log[j].seq > skip2 => Log[j].seq > skip
  BY LogType
<1>2. \A i \in DOMAIN Log : \A j \in 1..(i - 1) : j \in DOMAIN Log
  BY LogType
<1>3. QED
  BY <1>1, <1>2 DEF Covers

\* Whoever starts at a sequence that was skipped answers for nothing.
LEMMA NothingToCover ==
  ASSUME NEW inSpool, NEW skip \in Nat, NEW after \in Nat, after <= skip
  PROVE  Covers(inSpool, skip, after, {})
<1>1. ASSUME NEW i \in DOMAIN Log, NEW j \in 1..(i - 1), Log[i].kind = "settle",
             Log[i].seq > 0, Log[i].seq <= after, Log[j].kind = "start", Log[j].seq > skip
      PROVE  FALSE
  <2>1. i \in OwnEvents /\ j \in OwnEvents /\ j < i
    BY <1>1, LogType DEF OwnEvents
  <2>2. Log[j].seq < Log[i].seq
    BY <1>1, <2>1, OrderAssumption
  <2>3. Log[i].seq \in Nat /\ Log[j].seq \in Nat
    BY <2>1, LogType DEF OwnEvents
  <2>4. QED
    BY <1>1, <2>2, <2>3
<1>2. \A j \in DOMAIN Log : ~(Log[j].seq > skip /\ Log[j].seq <= after)
  BY LogType
<1>3. QED
  BY <1>1, <1>2 DEF Covers

\* A remembered start is forgotten only for the fact that settles it.
LEMMA StartsKept ==
  ASSUME NEW event, NEW inSpool, NEW starts, ToSet(Facts(event, starts)) \subseteq inSpool
  PROVE  starts \cup inSpool \subseteq Normalized(event, starts) \cup inSpool
<1>1. CASE SettlesPending(event, starts)
  <2>1. Facts(event, starts) = <<event.key>>
    BY <1>1 DEF Facts
  <2>2. event.key \in inSpool
    BY <2>1 DEF ToSet
  <2>3. Normalized(event, starts) = starts \ {event.key}
    BY <1>1 DEF Normalized, SettlesPending
  <2>4. QED
    BY <2>2, <2>3
<1>2. CASE ~SettlesPending(event, starts)
  BY <1>2 DEF Normalized, SettlesPending
<1>3. QED
  BY <1>1, <1>2

LEMMA CoversHere ==
  ASSUME NEW event, NEW inSpool, NEW starts, ToSet(Facts(event, starts)) \subseteq inSpool,
         NEW skip, NEW after, Covers(inSpool, skip, after, starts)
  PROVE  Covers(inSpool, skip, after, Normalized(event, starts))
  BY StartsKept DEF Covers

\* One event further: with its facts inSpool and its start remembered a collector
\* answers for everything up to it.
LEMMA CoversNext ==
  ASSUME NEW n \in DOMAIN Log, NEW after \in Nat,
         Log[n].kind # "foreign", Log[n].seq > after,
         \A i \in 1..(n - 1) : Log[i].kind # "foreign" => Log[i].seq <= after,
         NEW inSpool, NEW starts, ToSet(Facts(Log[n], starts)) \subseteq inSpool,
         NEW skip \in Nat, Covers(inSpool, skip, after, starts)
  PROVE  Covers(inSpool, skip, Log[n].seq, Normalized(Log[n], starts))
<1>1. ASSUME NEW i \in OwnEvents, Log[i].seq <= Log[n].seq, Log[i].seq > after
      PROVE  i = n
  <2>1. /\ i \in DOMAIN Log /\ i \in Nat /\ n \in Nat /\ n \in OwnEvents
        /\ Log[i].seq \in Nat /\ Log[n].seq \in Nat
    BY LogType DEF OwnEvents
  <2>2. ~(i < n)
    <3>1. ASSUME i < n PROVE FALSE
      <4>1. i \in 1..(n - 1) /\ Log[i].kind # "foreign"
        BY <2>1, <3>1, LogType DEF OwnEvents
      <4>2. QED
        BY <1>1, <2>1, <4>1
    <3>2. QED
      BY <3>1
  <2>3. ~(n < i)
    <3>1. Log[i].seq > 0
      BY <1>1, <2>1
    <3>2. n < i => Log[n].seq < Log[i].seq
      BY <2>1, <3>1, OrderAssumption
    <3>3. QED
      BY <1>1, <2>1, <3>2
  <2>4. QED
    BY <2>1, <2>2, <2>3
<1>2. Covers(inSpool, skip, after, Normalized(Log[n], starts))
  BY CoversHere
<1>3. ASSUME NEW i \in DOMAIN Log, NEW j \in 1..(i - 1),
             Log[i].kind = "settle", Log[i].seq > 0, Log[i].seq <= Log[n].seq,
             Log[j].kind = "start", Log[j].key = Log[i].key, Log[j].seq > skip
      PROVE  Log[i].key \in inSpool
  <2>1. CASE Log[i].seq <= after
    BY <1>2, <1>3, <2>1 DEF Covers
  <2>2. CASE Log[i].seq > after
    <3>1. i = n
      BY <1>1, <1>3, <2>2 DEF OwnEvents
    <3>2. j \in DOMAIN Log /\ Log[j].seq <= after
      BY <1>3, <3>1, LogType
    <3>3. Log[i].key \in starts \cup inSpool
      BY <1>3, <3>2 DEF Covers
    <3>4. CASE Log[i].key \in starts
      <4>1. Facts(Log[n], starts) = <<Log[i].key>>
        BY <1>3, <3>1, <3>4 DEF Facts, SettlesPending
      <4>2. QED
        BY <4>1 DEF ToSet
    <3>5. QED
      BY <3>3, <3>4
  <2>3. QED
    BY <2>1, <2>2, LogType
<1>4. ASSUME NEW j \in DOMAIN Log,
             Log[j].kind = "start", Log[j].seq > skip, Log[j].seq <= Log[n].seq
      PROVE  Log[j].key \in Normalized(Log[n], starts) \cup inSpool
  <2>1. CASE Log[j].seq <= after
    BY <1>2, <1>4, <2>1 DEF Covers
  <2>2. CASE Log[j].seq > after
    <3>1. j = n
      BY <1>1, <1>4, <2>2 DEF OwnEvents
    <3>2. QED
      BY <1>4, <3>1 DEF Normalized
  <2>3. QED
    BY <2>1, <2>2, LogType
<1>5. QED
  BY <1>3, <1>4 DEF Covers

-----------------------------------------------------------------------------
(* The invariant *)

Steps == {"off", "meta", "connect", "read", "append", "save"}

\* Every variable of the model is in its range.
OcTypeOK ==
  /\ pc \in [Collectors -> Steps]
  /\ latest \in [Collectors -> Nat]
  /\ pending \in [Collectors -> SUBSET LogKeys]
  /\ before \in [Collectors -> SUBSET LogKeys]
  /\ position \in [Collectors -> OcPosition]
  /\ cursor = None \/ cursor \in [after : Nat, pending : SUBSET LogKeys]
  /\ ocSpool \in Seq({"meta", "torn"} \cup LogKeys)
  /\ skipped \in Nat
  /\ ocFaults \in [faults : 0..MaxFaults, starts : 0..MaxStarts]

Busy(c) == pc[c] \in {"append", "save"}

\* What c falls back to when the event in its hand cannot be dealt with.
Memory(c) == IF Busy(c) THEN before[c] ELSE pending[c]

CoversNow(after, starts) == Covers(ToSet(ocSpool), skipped, after, starts)

\* All that c has left behind in the stream is within its sequence.
Reached(c) ==
  pc[c] \in {"read", "append", "save"} =>
    \A i \in 1..position[c] : Log[i].kind # "foreign" => Log[i].seq <= latest[c]

\* The event in hand: normalized, and once it is to be saved its facts are appended.
InHand(c) ==
  /\ Busy(c) => /\ position[c] < Len(Log) /\ Processed(OcEvent(c), latest[c])
                /\ pending[c] = Normalized(OcEvent(c), before[c])
  /\ pc[c] = "save" => /\ OcEvent(c).seq # 0
                       /\ ToSet(Facts(OcEvent(c), before[c])) \subseteq ToSet(ocSpool)

CollectorInv(c) ==
  /\ pc[c] # "off" => CoversNow(latest[c], Memory(c))
  /\ Reached(c)
  /\ InHand(c)

CursorInv == cursor # None => CoversNow(cursor.after, cursor.pending)

OcInv == OcTypeOK /\ CursorInv /\ \A c \in Collectors : CollectorInv(c)

LEMMA OcInvInit == OcInit => OcInv
<1>. SUFFICES ASSUME OcInit PROVE OcInv
  OBVIOUS
<1>1. <<>> \in Seq({"meta", "torn"} \cup LogKeys) /\ 0 \in OcPosition
  BY LogType DEF OcPosition
<1>2. OcTypeOK
  BY <1>1, BoundsAssumption DEF OcInit, OcTypeOK, Steps
<1>3. QED
  BY <1>2 DEF OcInit, OcInv, CursorInv, CollectorInv, Reached, InHand, Busy

\* What is in the spool stays there.
LEMMA FactsStay ==
  ASSUME NEW S, NEW spool \in Seq(S), NEW more \in Seq(S)
  PROVE  ToSet(spool \o more) = ToSet(spool) \cup ToSet(more)
<1>1. /\ Len(spool) \in Nat /\ Len(more) \in Nat
      /\ DOMAIN spool = 1..Len(spool) /\ DOMAIN more = 1..Len(more)
      /\ DOMAIN (spool \o more) = 1..(Len(spool) + Len(more))
      /\ \A i \in 1..Len(spool) : (spool \o more)[i] = spool[i]
      /\ \A i \in 1..Len(more) : (spool \o more)[Len(spool) + i] = more[i]
  OBVIOUS
<1>2. ASSUME NEW i \in 1..(Len(spool) + Len(more)), ~(i \in 1..Len(spool))
      PROVE  \E k \in 1..Len(more) : i = Len(spool) + k
  <2>1. i - Len(spool) \in 1..Len(more) /\ i = Len(spool) + (i - Len(spool))
    BY <1>1, <1>2
  <2>2. QED
    BY <2>1
<1>3. ToSet(spool \o more) \subseteq ToSet(spool) \cup ToSet(more)
  BY <1>1, <1>2, SMTT(30) DEF ToSet
<1>4. \A i \in 1..Len(spool) : i \in DOMAIN (spool \o more)
  BY <1>1
<1>5. \A i \in 1..Len(more) : Len(spool) + i \in DOMAIN (spool \o more)
  BY <1>1
<1>6. QED
  BY <1>1, <1>3, <1>4, <1>5, SMTT(30) DEF ToSet

LEMMA FactsType ==
  ASSUME NEW i \in DOMAIN Log, NEW starts
  PROVE  Facts(Log[i], starts) \in Seq({"meta", "torn"} \cup LogKeys)
<1>1. Log[i].key \in {"meta", "torn"} \cup LogKeys
  BY LogType
<1>2. QED
  BY <1>1 DEF Facts

LEMMA NormalizedType ==
  ASSUME NEW i \in DOMAIN Log, NEW starts \in SUBSET LogKeys
  PROVE  Normalized(Log[i], starts) \in SUBSET LogKeys
  BY LogType DEF Normalized

LEMMA MaxOfTwo ==
  ASSUME NEW a \in Nat, NEW b \in Nat
  PROVE  Max({a, b}) \in Nat /\ a <= Max({a, b}) /\ b <= Max({a, b})
<1>1. \E x \in {a, b} : \A y \in {a, b} : x >= y
  OBVIOUS
<1>2. QED
  BY <1>1 DEF Max

\* Nothing is taken from the spool, and what was skipped stays skipped.
Onward == ToSet(ocSpool) \subseteq ToSet(ocSpool)' /\ skipped <= skipped'

LEMMA CoversOn ==
  ASSUME OcTypeOK, OcTypeOK', Onward, NEW after, NEW starts,
         Covers(ToSet(ocSpool), skipped, after, starts)
  PROVE  Covers(ToSet(ocSpool)', skipped', after, starts)
  BY CoversStays DEF Onward, OcTypeOK

\* A step of one collector leaves what the others answer for alone.
LEMMA OneMoves ==
  ASSUME OcInv, OcTypeOK', Onward, NEW c \in Collectors,
         \A d \in Collectors : d # c =>
           /\ pc'[d] = pc[d] /\ latest'[d] = latest[d] /\ pending'[d] = pending[d]
           /\ before'[d] = before[d] /\ position'[d] = position[d],
         CollectorInv(c)', CursorInv'
  PROVE  OcInv'
<1>1. ASSUME NEW d \in Collectors, d # c
      PROVE  CollectorInv(d)'
  <2>1. /\ pc'[d] = pc[d] /\ latest'[d] = latest[d] /\ pending'[d] = pending[d]
        /\ before'[d] = before[d] /\ position'[d] = position[d]
    BY <1>1
  <2>2. CollectorInv(d) /\ OcTypeOK
    BY DEF OcInv
  <2>3. Memory(d)' = Memory(d) /\ OcEvent(d)' = OcEvent(d)
    BY <2>1 DEF Memory, Busy, OcEvent
  <2>4. (pc[d] # "off" => CoversNow(latest[d], Memory(d)))'
    BY <2>1, <2>2, <2>3, CoversOn DEF CollectorInv, CoversNow
  <2>5. Reached(d)'
    BY <2>1, <2>2 DEF CollectorInv, Reached
  <2>6. InHand(d)'
    BY <2>1, <2>2, <2>3 DEF CollectorInv, InHand, Busy, Onward
  <2>7. QED
    BY <2>4, <2>5, <2>6 DEF CollectorInv
<1>2. QED
  BY <1>1 DEF OcInv

LEMMA SameCursor ==
  ASSUME OcInv, OcTypeOK', Onward, UNCHANGED cursor
  PROVE  CursorInv'
  BY CoversOn DEF OcInv, CursorInv, CoversNow

\* A collector that stands where it stood, with nothing in hand.
LEMMA StandsStill ==
  ASSUME OcInv, OcTypeOK', Onward, NEW c \in Collectors,
         pc[c] # "off", pc'[c] \in {"off", "meta", "connect"},
         latest'[c] = latest[c], pending'[c] = Memory(c)
  PROVE  CollectorInv(c)'
<1>1. CoversNow(latest[c], Memory(c)) /\ OcTypeOK
  BY DEF OcInv, CollectorInv
<1>2. Memory(c)' = Memory(c)
  BY DEF Memory, Busy
<1>3. CoversNow(latest[c], Memory(c))'
  BY <1>1, <1>2, CoversOn DEF CoversNow
<1>4. QED
  BY <1>3 DEF CollectorInv, Reached, InHand, Busy

\* The event in hand, dealt with: what a saved cursor answers for.
LEMMA HandCovers ==
  ASSUME OcInv, NEW c \in Collectors, pc[c] = "save"
  PROVE  /\ OcEvent(c).seq \in Nat /\ OcEvent(c).seq > latest[c]
         /\ CoversNow(OcEvent(c).seq, pending[c])
<1>. DEFINE n == position[c] + 1
<1>1. /\ OcTypeOK /\ CollectorInv(c) /\ Busy(c)
      /\ position[c] \in 0..Len(Log) /\ latest[c] \in Nat /\ skipped \in Nat
  BY DEF OcInv, OcTypeOK, OcPosition, Busy
<1>2. /\ position[c] < Len(Log) /\ Processed(OcEvent(c), latest[c]) /\ OcEvent(c).seq # 0
      /\ pending[c] = Normalized(OcEvent(c), before[c])
      /\ ToSet(Facts(OcEvent(c), before[c])) \subseteq ToSet(ocSpool)
      /\ Covers(ToSet(ocSpool), skipped, latest[c], before[c])
  BY <1>1 DEF CollectorInv, InHand, CoversNow, Memory
<1>3. n \in DOMAIN Log /\ OcEvent(c) = Log[n] /\ Log[n].seq \in Nat
  BY <1>1, <1>2, LogType DEF OcEvent
<1>4. Log[n].kind # "foreign" /\ Log[n].seq > latest[c]
  BY <1>2, <1>3 DEF Processed
<1>5. \A i \in 1..(n - 1) : Log[i].kind # "foreign" => Log[i].seq <= latest[c]
  BY <1>1 DEF CollectorInv, Reached
<1>. HIDE DEF n
<1>6. Covers(ToSet(ocSpool), skipped, Log[n].seq, Normalized(Log[n], before[c]))
  BY <1>1, <1>2, <1>3, <1>4, <1>5, CoversNext
<1>7. QED
  BY <1>2, <1>3, <1>4, <1>6 DEF CoversNow

\* A cursor file that was replaced answers for what is inSpool.
LEMMA NewCursor ==
  ASSUME OcInv, OcTypeOK', Onward, NEW c \in Collectors, pc[c] = "save", ReplaceCursor(c)
  PROVE  CursorInv'
<1>1. CoversNow(OcEvent(c).seq, pending[c]) /\ OcTypeOK
  BY HandCovers DEF OcInv
<1>2. cursor'.after = OcEvent(c).seq /\ cursor'.pending = pending[c]
  BY DEF ReplaceCursor, SavedPending
<1>3. QED
  BY <1>1, <1>2, CoversOn DEF CursorInv, CoversNow

LEMMA NewCursorType ==
  ASSUME OcInv, NEW c \in Collectors, pc[c] = "save", ReplaceCursor(c)
  PROVE  cursor' \in [after : Nat, pending : SUBSET LogKeys]
<1>1. OcEvent(c).seq \in Nat /\ pending[c] \in SUBSET LogKeys
  BY HandCovers DEF OcInv, OcTypeOK
<1>2. QED
  BY <1>1 DEF ReplaceCursor, SavedPending

-----------------------------------------------------------------------------
(* Steps *)

\* A step that leaves the spool as it is.
LEMMA SpoolSame ==
  ASSUME OcTypeOK, UNCHANGED <<ocSpool, skipped>>
  PROVE  Onward
  BY DEF Onward, OcTypeOK

\* A step that appends to the spool.
LEMMA SpoolAppended ==
  ASSUME OcTypeOK, NEW more \in Seq({"meta", "torn"} \cup LogKeys),
         ocSpool' = ocSpool \o more, UNCHANGED skipped
  PROVE  /\ Onward /\ ocSpool' \in Seq({"meta", "torn"} \cup LogKeys)
         /\ ToSet(more) \subseteq ToSet(ocSpool')
<1>. DEFINE Entries == {"meta", "torn"} \cup LogKeys
<1>1. ocSpool \in Seq(Entries) /\ skipped \in Nat
  BY DEF OcTypeOK
<1>. HIDE DEF Entries
<1>2. more \in Seq(Entries)
  BY DEF Entries
<1>3. ToSet(ocSpool \o more) = ToSet(ocSpool) \cup ToSet(more)
  BY <1>1, <1>2, FactsStay
<1>4. ocSpool' \in Seq(Entries)
  BY <1>1, <1>2
<1>5. QED
  BY <1>1, <1>3, <1>4 DEF Onward, Entries

LEMMA FaultType ==
  ASSUME OcTypeOK, Fault
  PROVE  ocFaults' \in [faults : 0..MaxFaults, starts : 0..MaxStarts]
<1>1. /\ ocFaults \in [faults : 0..MaxFaults, starts : 0..MaxStarts]
      /\ ocFaults.faults < MaxFaults
      /\ ocFaults' = [ocFaults EXCEPT !.faults = ocFaults.faults + 1]
  BY DEF Fault, OcTypeOK
<1>2. ocFaults.faults + 1 \in 0..MaxFaults
  BY <1>1, BoundsAssumption
<1>3. QED
  BY <1>1, <1>2

LEMMA StartStep ==
  ASSUME OcInv, NEW c \in Collectors, CollectorStart(c)
  PROVE  OcInv'
<1>1. PICK after \in Overrides \cup {None} : StartCollector(c, after)
  BY DEF CollectorStart
<1>. DEFINE from == InitialState(after)
<1>2. OcTypeOK /\ CursorInv /\ skipped \in Nat
  BY DEF OcInv, OcTypeOK
<1>3. /\ pc' = [pc EXCEPT ![c] = "meta"] /\ latest' = [latest EXCEPT ![c] = from.after]
      /\ pending' = [pending EXCEPT ![c] = from.pending]
      /\ skipped' = IF after = None THEN skipped ELSE Max({skipped, after})
      /\ UNCHANGED <<before, position, cursor, ocSpool>>
  BY <1>1 DEF StartCollector, OcGoto
<1>4. skipped' \in Nat /\ skipped <= skipped' /\ (after # None => after \in Nat /\ after <= skipped')
  BY <1>2, <1>3, BoundsAssumption, MaxOfTwo
<1>5. from.after \in Nat /\ from.pending \in SUBSET LogKeys
      /\ Covers(ToSet(ocSpool), skipped', from.after, from.pending)
  <2>1. CASE after = None /\ cursor = None
    <3>1. from.after = 0 /\ from.pending = {}
      BY <2>1 DEF InitialState, LoadedCursor
    <3>2. 0 <= skipped'
      BY <1>4
    <3>3. QED
      BY <1>4, <3>1, <3>2, NothingToCover
  <2>2. CASE after = None /\ cursor # None
    <3>1. from = cursor /\ skipped' = skipped
      BY <1>3, <2>2 DEF InitialState, LoadedCursor
    <3>2. QED
      BY <1>2, <2>2, <3>1 DEF CursorInv, CoversNow, OcTypeOK
  <2>3. CASE after # None
    <3>1. from.after = after /\ from.pending = {}
      BY <2>3 DEF InitialState
    <3>2. QED
      BY <1>4, <2>3, <3>1, NothingToCover
  <2>4. QED
    BY <2>1, <2>2, <2>3
<1>. HIDE DEF from
<1>6. ocFaults' \in [faults : 0..MaxFaults, starts : 0..MaxStarts]
  <2>1. /\ ocFaults \in [faults : 0..MaxFaults, starts : 0..MaxStarts]
        /\ ocFaults.starts < MaxStarts
        /\ ocFaults' = [ocFaults EXCEPT !.starts = ocFaults.starts + 1]
    BY <1>1, <1>2 DEF StartCollector, OcTypeOK
  <2>2. ocFaults.starts + 1 \in 0..MaxStarts
    BY <2>1, BoundsAssumption
  <2>3. QED
    BY <2>1, <2>2
<1>7. OcTypeOK'
  BY <1>2, <1>3, <1>4, <1>5, <1>6 DEF OcTypeOK, Steps
<1>8. Onward
  BY <1>3, <1>4 DEF Onward
<1>9. pc'[c] = "meta" /\ latest'[c] = from.after /\ pending'[c] = from.pending
  BY <1>2, <1>3 DEF OcTypeOK
<1>10. CollectorInv(c)'
  BY <1>3, <1>5, <1>9 DEF CollectorInv, CoversNow, Memory, Busy, Reached, InHand
<1>11. CursorInv'
  BY <1>3, <1>7, <1>8, SameCursor
<1>12. QED
  BY <1>2, <1>3, <1>7, <1>8, <1>10, <1>11, OneMoves DEF OcTypeOK

LEMMA QuietStep ==
  ASSUME OcInv, NEW c \in Collectors,
         EmitSessionMeta(c) \/ LoseSessionMeta(c) \/ Disconnect(c)
  PROVE  OcInv'
<1>1. OcTypeOK
  BY DEF OcInv
<1>2. Onward /\ ocSpool' \in Seq({"meta", "torn"} \cup LogKeys)
  <2>1. CASE UNCHANGED ocSpool
    BY <1>1, <2>1, SpoolSame DEF EmitSessionMeta, LoseSessionMeta, Disconnect, OcTypeOK
  <2>2. CASE ocSpool = <<>> /\ ocSpool' = <<"meta">> /\ UNCHANGED skipped
    <3>1. ocSpool' = ocSpool \o <<"meta">>
      BY <2>2
    <3>2. <<"meta">> \in Seq({"meta", "torn"} \cup LogKeys)
      OBVIOUS
    <3>3. QED
      BY <1>1, <2>2, <3>1, <3>2, SpoolAppended
  <2>3. QED
    BY <2>1, <2>2 DEF EmitSessionMeta, LoseSessionMeta, Disconnect
<1>3. \E step \in {"off", "connect"} : pc' = [pc EXCEPT ![c] = step]
  BY DEF EmitSessionMeta, LoseSessionMeta, Disconnect, OcGoto
<1>4. /\ UNCHANGED <<latest, pending, before, position, cursor, skipped>>
      /\ pc[c] \in {"meta", "read"}
  BY DEF EmitSessionMeta, LoseSessionMeta, Disconnect
<1>5. ocFaults' \in [faults : 0..MaxFaults, starts : 0..MaxStarts]
  BY <1>1, FaultType DEF EmitSessionMeta, LoseSessionMeta, Disconnect, OcTypeOK
<1>6. OcTypeOK'
  BY <1>1, <1>2, <1>3, <1>4, <1>5 DEF OcTypeOK, Steps
<1>7. CollectorInv(c)'
  <2>1. pc'[c] \in {"off", "connect"} /\ pending'[c] = Memory(c)
    BY <1>1, <1>3, <1>4 DEF Memory, Busy, OcTypeOK
  <2>2. QED
    BY <1>2, <1>4, <1>6, <2>1, StandsStill
<1>8. CursorInv'
  BY <1>2, <1>4, <1>6, SameCursor
<1>9. QED
  BY <1>1, <1>2, <1>3, <1>4, <1>6, <1>7, <1>8, OneMoves DEF OcTypeOK

LEMMA ConnectStep ==
  ASSUME OcInv, NEW c \in Collectors, Connect(c)
  PROVE  OcInv'
<1>1. OcTypeOK /\ CollectorInv(c)
  BY DEF OcInv
<1>2. PICK from \in OcPosition : /\ \A i \in 1..from : Log[i].seq <= latest[c]
                                 /\ position' = [position EXCEPT ![c] = from]
  BY DEF Connect
<1>3. /\ pc[c] = "connect" /\ pc' = [pc EXCEPT ![c] = "read"]
      /\ UNCHANGED <<latest, pending, before, cursor, ocSpool, skipped, ocFaults>>
  BY DEF Connect, OcGoto
<1>4. OcTypeOK' /\ pc'[c] = "read" /\ position'[c] = from
  BY <1>1, <1>2, <1>3 DEF OcTypeOK, Steps
<1>5. Onward
  BY <1>1, <1>3, SpoolSame
<1>6. CollectorInv(c)'
  <2>1. Covers(ToSet(ocSpool), skipped, latest[c], pending[c])
    BY <1>1, <1>3 DEF CollectorInv, CoversNow, Memory, Busy
  <2>2. QED
    BY <1>2, <1>3, <1>4, <2>1 DEF CollectorInv, CoversNow, Memory, Busy, Reached, InHand
<1>7. CursorInv'
  BY <1>3, <1>4, <1>5, SameCursor
<1>8. QED
  BY <1>1, <1>2, <1>3, <1>4, <1>5, <1>6, <1>7, OneMoves DEF OcTypeOK

LEMMA ProcessStep ==
  ASSUME OcInv, NEW c \in Collectors, ProcessEvent(c)
  PROVE  OcInv'
<1>. DEFINE n == position[c] + 1
<1>1. OcTypeOK /\ CollectorInv(c) /\ position[c] \in 0..Len(Log)
  BY DEF OcInv, OcTypeOK, OcPosition
<1>2. /\ pc[c] = "read" /\ position[c] < Len(Log)
      /\ UNCHANGED <<latest, cursor, ocSpool, skipped, ocFaults>>
  BY DEF ProcessEvent
<1>3. n \in DOMAIN Log /\ n \in OcPosition /\ OcEvent(c) = Log[n]
  BY <1>1, <1>2, LogType DEF OcEvent, OcPosition
<1>4. Onward
  BY <1>1, <1>2, SpoolSame
<1>5. Covers(ToSet(ocSpool), skipped, latest[c], pending[c])
  BY <1>1, <1>2 DEF CollectorInv, CoversNow, Memory, Busy
<1>6. CASE Processed(Log[n], latest[c])
  <2>1. /\ before' = [before EXCEPT ![c] = pending[c]]
        /\ pending' = [pending EXCEPT ![c] = Normalized(Log[n], pending[c])]
        /\ pc' = [pc EXCEPT ![c] = "append"] /\ UNCHANGED position
    BY <1>6 DEF ProcessEvent, OcGoto
  <2>2. Normalized(Log[n], pending[c]) \in SUBSET LogKeys
    BY <1>1, <1>3, NormalizedType DEF OcTypeOK
  <2>3. OcTypeOK'
    BY <1>1, <1>2, <2>1, <2>2 DEF OcTypeOK, Steps
  <2>4. /\ pc'[c] = "append" /\ before'[c] = pending[c]
        /\ pending'[c] = Normalized(Log[n], pending[c]) /\ OcEvent(c)' = Log[n]
    BY <1>1, <2>1 DEF OcTypeOK, OcEvent
  <2>5. CollectorInv(c)'
    <3>1. (CoversNow(latest[c], Memory(c)))'
      BY <1>2, <1>5, <2>4 DEF CoversNow, Memory, Busy
    <3>2. Reached(c)'
      BY <1>1, <1>2, <2>1 DEF CollectorInv, Reached
    <3>3. InHand(c)'
      BY <1>2, <1>6, <2>1, <2>4 DEF InHand, Busy
    <3>4. QED
      BY <3>1, <3>2, <3>3 DEF CollectorInv
  <2>6. CursorInv'
    BY <1>2, <1>4, <2>3, SameCursor
  <2>7. QED
    BY <1>1, <1>2, <1>4, <2>1, <2>3, <2>5, <2>6, OneMoves DEF OcTypeOK
<1>7. CASE ~Processed(Log[n], latest[c])
  <2>1. position' = [position EXCEPT ![c] = n] /\ UNCHANGED <<before, pending, pc>>
    BY <1>7 DEF ProcessEvent
  <2>2. OcTypeOK' /\ position'[c] = n
    BY <1>1, <1>2, <1>3, <2>1 DEF OcTypeOK
  <2>3. Log[n].kind # "foreign" => Log[n].seq <= latest[c]
    BY <1>1, <1>3, <1>7, LogType DEF Processed, OcTypeOK
  <2>4. Reached(c)'
    <3>1. \A i \in 1..n : i = n \/ i \in 1..position[c]
      BY <1>1
    <3>2. QED
      BY <1>1, <1>2, <2>1, <2>2, <2>3, <3>1 DEF CollectorInv, Reached
  <2>5. CollectorInv(c)'
    BY <1>2, <1>5, <2>1, <2>4 DEF CollectorInv, CoversNow, Memory, InHand, Busy
  <2>6. CursorInv'
    BY <1>2, <1>4, <2>2, SameCursor
  <2>7. QED
    BY <1>1, <1>2, <1>4, <2>1, <2>2, <2>5, <2>6, OneMoves DEF OcTypeOK
<1>8. QED
  BY <1>6, <1>7

LEMMA AppendStep ==
  ASSUME OcInv, NEW c \in Collectors, AppendFacts(c)
  PROVE  OcInv'
<1>. DEFINE n == position[c] + 1
            facts == Facts(Log[n], before[c])
<1>1. OcTypeOK /\ CollectorInv(c) /\ position[c] \in 0..Len(Log)
  BY DEF OcInv, OcTypeOK, OcPosition
<1>2. /\ pc[c] = "append" /\ ocSpool' = ocSpool \o Facts(OcEvent(c), before[c])
      /\ UNCHANGED <<latest, pending, before, cursor, skipped, ocFaults>>
  BY DEF AppendFacts
<1>3. /\ Processed(OcEvent(c), latest[c]) /\ pending[c] = Normalized(OcEvent(c), before[c])
      /\ n \in DOMAIN Log /\ n \in OcPosition /\ OcEvent(c) = Log[n]
  BY <1>1, <1>2, LogType DEF CollectorInv, InHand, Busy, OcEvent, OcPosition
<1>4. Onward /\ ocSpool' \in Seq({"meta", "torn"} \cup LogKeys)
      /\ ToSet(facts) \subseteq ToSet(ocSpool')
  BY <1>1, <1>2, <1>3, FactsType, SpoolAppended
<1>5. Covers(ToSet(ocSpool'), skipped', latest[c], before[c])
  <2>1. Covers(ToSet(ocSpool), skipped, latest[c], before[c])
    BY <1>1, <1>2 DEF CollectorInv, CoversNow, Memory, Busy
  <2>2. ToSet(ocSpool) \subseteq ToSet(ocSpool') /\ skipped \in Nat /\ skipped' = skipped
    BY <1>1, <1>2, <1>4 DEF Onward, OcTypeOK
  <2>3. QED
    BY <2>1, <2>2, CoversStays
<1>6. CASE Log[n].seq = 0
  <2>1. pc' = [pc EXCEPT ![c] = "read"] /\ position' = [position EXCEPT ![c] = n]
    BY <1>3, <1>6 DEF AppendFacts, OcGoto
  <2>2. OcTypeOK' /\ pc'[c] = "read" /\ position'[c] = n
    BY <1>1, <1>2, <1>3, <1>4, <2>1 DEF OcTypeOK, Steps
  <2>3. Covers(ToSet(ocSpool'), skipped', latest[c], pending[c])
    BY <1>3, <1>4, <1>5, CoversHere
  <2>4. Reached(c)'
    <3>1. \A i \in 1..n : i = n \/ i \in 1..position[c]
      BY <1>1
    <3>2. Log[n].seq <= latest[c]
      BY <1>1, <1>6 DEF OcTypeOK
    <3>3. QED
      BY <1>1, <1>2, <2>2, <3>1, <3>2 DEF CollectorInv, Reached
  <2>5. CollectorInv(c)'
    BY <1>2, <2>2, <2>3, <2>4 DEF CollectorInv, CoversNow, Memory, InHand, Busy
  <2>6. CursorInv'
    BY <1>2, <1>4, <2>2, SameCursor
  <2>7. QED
    BY <1>1, <1>2, <1>4, <2>1, <2>2, <2>5, <2>6, OneMoves DEF OcTypeOK
<1>7. CASE Log[n].seq # 0
  <2>1. pc' = [pc EXCEPT ![c] = "save"] /\ UNCHANGED position
    BY <1>3, <1>7 DEF AppendFacts, OcGoto
  <2>2. OcTypeOK' /\ pc'[c] = "save" /\ OcEvent(c)' = Log[n]
    BY <1>1, <1>2, <1>3, <1>4, <2>1 DEF OcTypeOK, Steps, OcEvent
  <2>3. InHand(c)'
    BY <1>1, <1>2, <1>3, <1>4, <1>7, <2>1, <2>2 DEF CollectorInv, InHand, Busy
  <2>4. CollectorInv(c)'
    BY <1>1, <1>2, <1>5, <2>1, <2>2, <2>3 DEF CollectorInv, CoversNow, Memory, Reached, Busy
  <2>5. CursorInv'
    BY <1>2, <1>4, <2>2, SameCursor
  <2>6. QED
    BY <1>1, <1>2, <1>4, <2>1, <2>2, <2>4, <2>5, OneMoves DEF OcTypeOK
<1>8. QED
  BY <1>6, <1>7

LEMMA SaveStep ==
  ASSUME OcInv, NEW c \in Collectors, SaveCursor(c)
  PROVE  OcInv'
<1>. DEFINE n == position[c] + 1
<1>1. OcTypeOK /\ CollectorInv(c) /\ position[c] \in 0..Len(Log)
  BY DEF OcInv, OcTypeOK, OcPosition
<1>2. /\ pc[c] = "save" /\ ReplaceCursor(c)
      /\ latest' = [latest EXCEPT ![c] = OcEvent(c).seq]
      /\ position' = [position EXCEPT ![c] = n] /\ pc' = [pc EXCEPT ![c] = "read"]
      /\ UNCHANGED <<pending, before, ocSpool, skipped, ocFaults>>
  BY DEF SaveCursor, OcGoto
<1>3. /\ OcEvent(c).seq \in Nat /\ OcEvent(c).seq > latest[c]
      /\ CoversNow(OcEvent(c).seq, pending[c]) /\ OcEvent(c) = Log[n] /\ n \in OcPosition
  BY <1>1, <1>2, HandCovers DEF OcEvent, CollectorInv, InHand, Busy, OcPosition
<1>4. Onward
  BY <1>1, <1>2, SpoolSame
<1>5. cursor' \in [after : Nat, pending : SUBSET LogKeys]
  BY <1>2, NewCursorType
<1>6. OcTypeOK' /\ pc'[c] = "read" /\ position'[c] = n /\ latest'[c] = Log[n].seq
  BY <1>1, <1>2, <1>3, <1>5 DEF OcTypeOK, Steps
<1>7. CollectorInv(c)'
  <2>1. CoversNow(latest[c], Memory(c))'
    BY <1>2, <1>3, <1>6 DEF CoversNow, Memory, Busy
  <2>2. Reached(c)'
    <3>1. \A i \in 1..n : i = n \/ i \in 1..position[c]
      BY <1>1
    <3>2. \A i \in 1..position[c] : Log[i].kind # "foreign" => Log[i].seq <= latest[c]
      BY <1>1, <1>2 DEF CollectorInv, Reached
    <3>3. \A i \in 1..position[c] : Log[i].seq \in Nat /\ latest[c] \in Nat
      BY <1>1, LogType DEF OcTypeOK
    <3>4. \A i \in 1..n : Log[i].kind # "foreign" => Log[i].seq <= Log[n].seq
      BY <1>3, <3>1, <3>2, <3>3
    <3>5. QED
      BY <1>6, <3>4 DEF Reached
  <2>3. InHand(c)'
    BY <1>6 DEF InHand, Busy
  <2>4. QED
    BY <2>1, <2>2, <2>3 DEF CollectorInv
<1>8. CursorInv'
  BY <1>2, <1>4, <1>6, NewCursor
<1>9. QED
  BY <1>1, <1>2, <1>4, <1>6, <1>7, <1>8, OneMoves DEF OcTypeOK

LEMMA FailStep ==
  ASSUME OcInv, NEW c \in Collectors,
         FailSave(c) \/ \E torn \in BOOLEAN : FailAppend(c, torn)
  PROVE  OcInv'
<1>1. OcTypeOK
  BY DEF OcInv
<1>2. /\ Busy(c) /\ pending' = [pending EXCEPT ![c] = before[c]]
      /\ pc' = [pc EXCEPT ![c] = "connect"]
      /\ UNCHANGED <<latest, before, position, skipped>>
      /\ ocFaults' \in [faults : 0..MaxFaults, starts : 0..MaxStarts]
  BY <1>1, FaultType DEF FailSave, FailAppend, Restored, OcGoto, Busy
<1>3. Onward /\ ocSpool' \in Seq({"meta", "torn"} \cup LogKeys)
  <2>1. CASE UNCHANGED ocSpool
    BY <1>1, <1>2, <2>1, SpoolSame DEF OcTypeOK
  <2>2. CASE ocSpool' = Append(ocSpool, "torn")
    <3>1. ocSpool' = ocSpool \o <<"torn">>
      BY <1>1, <2>2 DEF OcTypeOK
    <3>2. <<"torn">> \in Seq({"meta", "torn"} \cup LogKeys)
      OBVIOUS
    <3>3. QED
      BY <1>1, <1>2, <3>1, <3>2, SpoolAppended
  <2>3. QED
    BY <2>1, <2>2 DEF FailSave, FailAppend
<1>4. UNCHANGED cursor \/ (pc[c] = "save" /\ ReplaceCursor(c))
  BY DEF FailSave, FailAppend
<1>5. cursor' = None \/ cursor' \in [after : Nat, pending : SUBSET LogKeys]
  BY <1>1, <1>4, NewCursorType DEF OcTypeOK
<1>6. OcTypeOK'
  BY <1>1, <1>2, <1>3, <1>5 DEF OcTypeOK, Steps
<1>7. CollectorInv(c)'
  <2>1. pc[c] # "off" /\ pc'[c] = "connect" /\ pending'[c] = Memory(c) /\ latest'[c] = latest[c]
    BY <1>1, <1>2 DEF Memory, Busy, OcTypeOK
  <2>2. QED
    BY <1>3, <1>6, <2>1, StandsStill
<1>8. CursorInv'
  BY <1>3, <1>4, <1>6, SameCursor, NewCursor
<1>9. QED
  BY <1>1, <1>2, <1>3, <1>6, <1>7, <1>8, OneMoves DEF OcTypeOK

LEMMA KillStep ==
  ASSUME OcInv, NEW c \in Collectors, KillCollector(c)
  PROVE  OcInv'
<1>1. OcTypeOK
  BY DEF OcInv
<1>2. /\ pc' = [pc EXCEPT ![c] = "off"]
      /\ UNCHANGED <<latest, pending, before, position, ocSpool, skipped>>
      /\ ocFaults' \in [faults : 0..MaxFaults, starts : 0..MaxStarts]
  BY <1>1, FaultType DEF KillCollector, OcGoto
<1>3. UNCHANGED cursor \/ (pc[c] = "save" /\ ReplaceCursor(c))
  BY DEF KillCollector
<1>4. cursor' = None \/ cursor' \in [after : Nat, pending : SUBSET LogKeys]
  BY <1>1, <1>3, NewCursorType DEF OcTypeOK
<1>5. OcTypeOK' /\ pc'[c] = "off"
  BY <1>1, <1>2, <1>4 DEF OcTypeOK, Steps
<1>6. Onward
  BY <1>1, <1>2, SpoolSame
<1>7. CollectorInv(c)'
  BY <1>5 DEF CollectorInv, Reached, InHand, Busy
<1>8. CursorInv'
  BY <1>3, <1>5, <1>6, SameCursor, NewCursor
<1>9. QED
  BY <1>1, <1>2, <1>5, <1>6, <1>7, <1>8, OneMoves DEF OcTypeOK

LEMMA OcInvStep ==
  ASSUME OcInv, [OcNext]_ocVars
  PROVE  OcInv'
<1>1. CASE UNCHANGED ocVars
  BY <1>1
  DEF ocVars, OcInv, OcTypeOK, CursorInv, CollectorInv, CoversNow, Memory, Busy, Reached, InHand,
      OcEvent
<1>2. CASE \E c \in Collectors : CollectorStart(c)
  BY <1>2, StartStep
<1>3. CASE \E c \in Collectors : CollectorStep(c)
  BY <1>3, QuietStep, ConnectStep, ProcessStep, AppendStep, SaveStep DEF CollectorStep
<1>4. CASE \E c \in Collectors : CollectorFault(c)
  BY <1>4, QuietStep, FailStep, KillStep DEF CollectorFault
<1>5. QED
  BY <1>1, <1>2, <1>3, <1>4 DEF OcNext

LEMMA AlwaysOcInv == OcSpec => []OcInv
<1>1. OcInv /\ [OcNext]_ocVars => OcInv'
  BY OcInvStep
<1>2. QED
  BY OcInvInit, <1>1, PTL DEF OcSpec

\* The ranges of the collector's variables; a sequence in memory or in the cursor
\* file is a number, and the starts kept are keys of the stream (opencode.rs).
THEOREM OpenCodeTypeCorrect == OcSpec => []OcTypeOK
<1>1. OcInv => OcTypeOK
  BY DEF OcInv
<1>2. QED
  BY AlwaysOcInv, <1>1, PTL

\* Every settlement the cursor file has passed is in the spool, whatever failed,
\* was killed or ran beside it (opencode.rs, process_event, save_cursor;
\* collectors/opencode/README.md).
THEOREM CursorFollowsFacts == OcSpec => []FactsBeforeCursor
<1>1. ASSUME OcInv PROVE FactsBeforeCursor
  <2>1. ASSUME cursor # None, NEW i \in Settlements, Log[i].seq <= cursor.after
        PROVE  OcSpooled(i)
    <3>1. PICK j \in 1..(i - 1) : /\ Log[j].kind = "start" /\ Log[j].key = Log[i].key
                                  /\ Log[j].seq > skipped
      BY DEF Settlements
    <3>2. i \in DOMAIN Log /\ Log[i].kind = "settle" /\ Log[i].seq > 0
      BY LogType DEF Settlements
    <3>3. Covers(ToSet(ocSpool), skipped, cursor.after, cursor.pending)
      BY <1>1, <2>1 DEF OcInv, CursorInv, CoversNow
    <3>4. QED
      BY <2>1, <3>1, <3>2, <3>3 DEF Covers, OcSpooled
  <2>2. QED
    BY <2>1 DEF FactsBeforeCursor
<1>2. QED
  BY AlwaysOcInv, <1>1, PTL

-----------------------------------------------------------------------------
(* Part three.  What the receiver promises its exporters and its normalizers,
   for any number of them, of workers, batches, failures and stops, and any
   bounds of queue and cache. *)

-----------------------------------------------------------------------------
(* The normalizers *)

Agents == {"claude", "codex", "genai"}
LogRecord == [agent : STRING, kind : STRING, conv : STRING, ok : BOOLEAN]

\* An event is made only of a record whose agent is known.
LEMMA EventsHaveAgents ==
  ASSUME NEW record \in LogRecord, Verdict(record) = "event"
  PROVE  record.agent \in Agents
<1>. DEFINE verdicts == <<ClaudeCode(record), Codex(record), GenAi(record)>>
            claims == {i \in 1..3 : verdicts[i] # "notApplicable"}
<1>1. record.agent \notin Agents => \A i \in 1..3 : verdicts[i] = "notApplicable"
  BY DEF Agents, ClaudeCode, Codex, GenAi, LogRecord
<1>2. claims # {}
  BY DEF Verdict
<1>3. QED
  BY <1>1, <1>2

\* The records of a request are those of its batch, whichever try it is.
LEMMA SameRecords ==
  ASSUME NEW r
  PROVE  Records(r) = Records([from |-> r.from, batch |-> r.batch])
  BY DEF Records, BatchOf

Accepted == {r \in [from : Exporters, batch : Nat, try : Nat] :
               r.batch \in DOMAIN Batches[r.from]}

\* What the assumption on the batches says of one of them.
LEMMA BatchTypes ==
  ASSUME NEW r \in Accepted
  PROVE  /\ BatchOf(r).records \in Seq(LogRecord)
         /\ DOMAIN Records(r) = 1..Len(BatchOf(r).records)
         /\ \A i \in DOMAIN Records(r) : Records(r)[i] \in LogRecord
<1>1. /\ BatchOf(r).records \in Seq(LogRecord) /\ BatchOf(r).conv \in STRING
  <2>1. r.from \in Exporters /\ r.batch \in DOMAIN Batches[r.from]
    BY DEF Accepted
  <2>2. Batches[r.from] \in Seq([body : {"logs", "unparsed", "oversize", "cut", "other"},
                                 conv : STRING, records : Seq(LogRecord)])
    BY <2>1, OtlpAssumption DEF LogRecord
  <2>3. Batches[r.from][r.batch] \in
          [body : {"logs", "unparsed", "oversize", "cut", "other"},
           conv : STRING, records : Seq(LogRecord)]
    <3>. DEFINE Bs == [body : {"logs", "unparsed", "oversize", "cut", "other"},
                       conv : STRING, records : Seq(LogRecord)]
                s == Batches[r.from]
    <3>1. s \in Seq(Bs) /\ r.batch \in DOMAIN s
      BY <2>1, <2>2
    <3>. HIDE DEF Bs, s
    <3>2. s[r.batch] \in Bs
      BY <3>1
    <3>3. QED
      BY <3>2 DEF Bs, s
  <2>4. QED
    BY <2>3 DEF BatchOf
<1>2. \A i \in 1..Len(BatchOf(r).records) : BatchOf(r).records[i] \in LogRecord
  BY <1>1
<1>3. QED
  BY <1>1, <1>2 DEF Records, LogRecord

SpoolLines == [id : Exporters \X Nat \X Nat,
               file : {"otlp-cc", "otlp-codex", "otlp-genai"} \X STRING, known : BOOLEAN]

\* A record that becomes an event becomes a line of a spool file, with its own id.
LEMMA LineTypes ==
  ASSUME NEW r \in Accepted, NEW i \in DOMAIN Records(r),
         Verdict(Records(r)[i]) = "event"
  PROVE  Line(r, i) \in SpoolLines /\ Line(r, i).id = <<r.from, r.batch, i>>
<1>1. /\ Records(r)[i] \in LogRecord /\ i \in Nat
      /\ Records(r)[i].agent \in Agents /\ Records(r)[i].conv \in STRING
  BY BatchTypes, EventsHaveAgents DEF LogRecord
<1>2. CollectorOf(Records(r)[i].agent) \in {"otlp-cc", "otlp-codex", "otlp-genai"}
  BY <1>1 DEF CollectorOf, Agents
<1>3. ProviderKnown(Records(r)[i]) \in BOOLEAN
  BY DEF ProviderKnown
<1>4. r.from \in Exporters /\ r.batch \in Nat
  BY DEF Accepted
<1>5. QED
  BY <1>1, <1>2, <1>3, <1>4 DEF Line, EventId, SpoolLines

-----------------------------------------------------------------------------
(* Type correctness *)

Tasks == [request : Accepted, index : Nat \ {0}, lines : SUBSET SpoolLines]

OtlpTypeOK ==
    /\ serving \in {"up", "stopping", "down"}
    /\ waiting \in [Exporters -> BOOLEAN]
    /\ turn \in [Exporters -> Nat \ {0}] /\ tries \in [Exporters -> Nat]
    /\ queue \in Seq(Accepted)
    /\ worker \in [Workers -> Tasks \cup {NoRequest}]
    /\ announced \subseteq STRING /\ cache \in Seq(announced)
    /\ otlpSpool \subseteq SpoolLines
    /\ acked \subseteq Exporters \X Nat
    /\ otlpFaults \in Nat

LEMMA OtlpTypeInit == OtlpInit => OtlpTypeOK
  BY DEF OtlpInit, OtlpTypeOK

LEMMA RespondTypes ==
  ASSUME OtlpTypeOK, NEW r \in Accepted, NEW status, Respond(r, status)
  PROVE  /\ waiting' \in [Exporters -> BOOLEAN]
         /\ turn' \in [Exporters -> Nat \ {0}]
         /\ acked' \subseteq Exporters \X Nat
<1>1. r.from \in Exporters /\ r.batch \in Nat
  BY DEF Accepted
<1>2. waiting' \in [Exporters -> BOOLEAN]
  BY <1>1 DEF Respond, OtlpTypeOK
<1>3. turn' \in [Exporters -> Nat \ {0}]
  BY <1>1 DEF Respond, OtlpTypeOK
<1>4. acked' \subseteq Exporters \X Nat
  BY <1>1 DEF Respond, OtlpTypeOK
<1>5. QED
  BY <1>2, <1>3, <1>4

LEMMA HandledIsTask ==
  ASSUME OtlpTypeOK, NEW w \in Workers, Handling(w)
  PROVE  worker[w] \in Tasks /\ Request(w) \in Accepted
  BY DEF OtlpTypeOK, Handling, Request, Tasks

\* The cache and the set of what was announced, after one record.
LEMMA RememberTypes ==
  ASSUME OtlpTypeOK, NEW conv \in STRING
  PROVE  Remember(cache, conv) \in Seq(announced \cup {conv})
<1>1. cache \in Seq(announced \cup {conv})
  BY SeqMonotonic DEF OtlpTypeOK
<1>2. Append(cache, conv) \in Seq(announced \cup {conv})
  BY <1>1
<1>3. Len(cache) = CacheCap => Append(Tail(cache), conv) \in Seq(announced \cup {conv})
  <2>1. ASSUME Len(cache) = CacheCap
        PROVE  cache # <<>>
    BY <1>1, <2>1, OtlpAssumption
  <2>2. QED
    BY <1>1, <2>1
<1>4. QED
  BY <1>1, <1>2, <1>3 DEF Remember

LEMMA OtlpTypeInductive == OtlpTypeOK /\ [OtlpNext]_otlpVars => OtlpTypeOK'
<1>. SUFFICES ASSUME OtlpTypeOK, [OtlpNext]_otlpVars
              PROVE  OtlpTypeOK'
  OBVIOUS
<1>1. ASSUME NEW w \in Workers, TakeRequest(w)
      PROVE  OtlpTypeOK'
  <2>1. /\ Head(queue) \in Accepted /\ Tail(queue) \in Seq(Accepted)
    BY <1>1 DEF TakeRequest, OtlpTypeOK
  <2>2. [request |-> Head(queue), index |-> 1, lines |-> {}] \in Tasks
    BY <2>1 DEF Tasks
  <2>3. QED
    BY <1>1, <2>1, <2>2 DEF TakeRequest, OtlpTypeOK
<1>2. ASSUME NEW w \in Workers, RefuseBody(w)
      PROVE  OtlpTypeOK'
  <2>1. Request(w) \in Accepted
    BY <1>2, HandledIsTask DEF RefuseBody
  <2>2. PICK status : Respond(Request(w), status)
    BY <1>2 DEF RefuseBody
  <2>3. QED
    BY <1>2, <2>1, <2>2, RespondTypes DEF RefuseBody, Rest, OtlpTypeOK
<1>3. ASSUME NEW w \in Workers, NormalizeRecord(w)
      PROVE  OtlpTypeOK'
  <2>. DEFINE index == worker[w].index
              record == Records(Request(w))[index]
              lines == IF Verdict(record) = "event"
                       THEN worker[w].lines \cup {Line(Request(w), index)}
                       ELSE worker[w].lines
  <2>1. /\ worker[w] \in Tasks /\ Request(w) \in Accepted
        /\ index \in DOMAIN Records(Request(w)) /\ record \in LogRecord
    <3>1. worker[w] \in Tasks /\ Request(w) \in Accepted
      BY <1>3, HandledIsTask DEF NormalizeRecord, Normalizing
    <3>2. index \in 1..Len(BatchOf(Request(w)).records)
      BY <1>3, <3>1, BatchTypes DEF NormalizeRecord, Normalizing, Batch, Tasks
    <3>3. QED
      BY <3>1, <3>2, BatchTypes
  <2>2. lines \in SUBSET SpoolLines
    BY <2>1, LineTypes DEF Tasks
  <2>3. worker' = [worker EXCEPT ![w] = [request |-> Request(w), index |-> index + 1,
                                         lines |-> lines]]
    BY <1>3 DEF NormalizeRecord
  <2>4. worker' \in [Workers -> Tasks \cup {NoRequest}]
    BY <2>1, <2>2, <2>3 DEF Tasks, OtlpTypeOK
  <2>5. /\ announced' \subseteq STRING
        /\ cache' \in Seq(announced')
    BY <1>3, <2>1, RememberTypes DEF NormalizeRecord, LogRecord, OtlpTypeOK
  <2>6. QED
    BY <1>3, <2>4, <2>5 DEF NormalizeRecord, OtlpTypeOK
<1>4. ASSUME NEW w \in Workers, AppendEvent(w)
      PROVE  OtlpTypeOK'
  <2>1. worker[w] \in Tasks
    BY <1>4, HandledIsTask DEF AppendEvent, Appending
  <2>2. PICK line \in worker[w].lines :
          /\ otlpSpool' = otlpSpool \cup {line}
          /\ worker' = [worker EXCEPT ![w].lines = @ \ {line}]
    BY <1>4 DEF AppendEvent
  <2>3. worker' \in [Workers -> Tasks \cup {NoRequest}]
    BY <2>1, <2>2 DEF Tasks, OtlpTypeOK
  <2>4. QED
    BY <1>4, <2>1, <2>2, <2>3 DEF AppendEvent, Tasks, OtlpTypeOK
<1>5. ASSUME NEW w \in Workers, FailAppendEvent(w) \/ Accept(w)
      PROVE  OtlpTypeOK'
  <2>1. Request(w) \in Accepted
    BY <1>5, HandledIsTask DEF FailAppendEvent, Accept, Appending
  <2>2. PICK status : Respond(Request(w), status)
    BY <1>5 DEF FailAppendEvent, Accept
  <2>3. /\ waiting' \in [Exporters -> BOOLEAN] /\ turn' \in [Exporters -> Nat \ {0}]
        /\ acked' \subseteq Exporters \X Nat
    BY <2>1, <2>2, RespondTypes
  <2>4. /\ worker' \in [Workers -> Tasks \cup {NoRequest}] /\ otlpFaults' \in Nat
        /\ UNCHANGED <<serving, tries, queue, cache, announced, otlpSpool>>
    <3>1. CASE FailAppendEvent(w)
      BY <3>1 DEF FailAppendEvent, Rest, OtlpTypeOK
    <3>2. CASE Accept(w)
      BY <3>2 DEF Accept, Rest, OtlpTypeOK
    <3>3. QED
      BY <1>5, <3>1, <3>2
  <2>5. QED
    BY <2>3, <2>4 DEF OtlpTypeOK
<1>6. ASSUME NEW e \in Exporters, Export(e)
      PROVE  OtlpTypeOK'
  <2>. DEFINE r == [from |-> e, batch |-> turn[e], try |-> tries'[e]]
  <2>1. tries' \in [Exporters -> Nat]
    BY <1>6 DEF Export, OtlpTypeOK
  <2>2. r \in Accepted
    <3>1. Len(Batches[e]) \in Nat /\ DOMAIN Batches[e] = 1..Len(Batches[e])
      BY OtlpAssumption
    <3>2. turn[e] \in DOMAIN Batches[e]
      BY <1>6, <3>1 DEF Export, OtlpTypeOK
    <3>3. QED
      BY <2>1, <3>1, <3>2 DEF Accepted
  <2>3. /\ queue' \in Seq(Accepted) /\ waiting' \in [Exporters -> BOOLEAN]
    <3>1. \/ queue' = Append(queue, r) /\ waiting' = [waiting EXCEPT ![e] = TRUE]
          \/ queue' = queue /\ waiting' = waiting
      BY <1>6 DEF Export
    <3>2. queue' \in Seq(Accepted)
      <4>1. queue \in Seq(Accepted)
        BY DEF OtlpTypeOK
      <4>. HIDE DEF r
      <4>2. QED
        BY <2>2, <3>1, <4>1
    <3>3. waiting' \in [Exporters -> BOOLEAN]
      BY <1>6 DEF Export, OtlpTypeOK
    <3>4. QED
      BY <3>2, <3>3
  <2>4. QED
    BY <1>6, <2>1, <2>3 DEF Export, OtlpTypeOK
<1>7. ASSUME NEW e \in Exporters, TimeOut(e) \/ GiveUp(e)
      PROVE  OtlpTypeOK'
  <2>1. CASE TimeOut(e)
    BY <2>1 DEF TimeOut, OtlpTypeOK
  <2>2. CASE GiveUp(e)
    BY <2>2 DEF GiveUp, OtlpTypeOK
  <2>3. QED
    BY <1>7, <2>1, <2>2
<1>8. CASE StopServer \/ RestartServer
  <2>1. CASE StopServer
    BY <2>1 DEF StopServer, OtlpTypeOK
  <2>2. CASE RestartServer
    BY <2>2 DEF RestartServer, OtlpTypeOK
  <2>3. QED
    BY <1>8, <2>1, <2>2
<1>9. CASE ExitServer
  BY <1>9 DEF ExitServer, OtlpTypeOK
<1>10. CASE UNCHANGED otlpVars
  BY <1>10 DEF otlpVars, OtlpTypeOK
<1>11. QED
  BY <1>1, <1>2, <1>3, <1>4, <1>5, <1>6, <1>7, <1>8, <1>9, <1>10
  DEF OtlpNext, WorkerStep, ExporterStep

\* Every reachable state of the receiver has the types its code declares.
THEOREM OtlpTypeCorrect == OtlpSpec => []OtlpTypeOK
<1>1. QED
  BY OtlpTypeInit, OtlpTypeInductive, PTL DEF OtlpSpec

-----------------------------------------------------------------------------
(* What was acknowledged is in the spool: until a request is answered, each *)
(* of its records that became an event is among the lines to write or       *)
(* already written, and a 200 is given only when no line is left.           *)

Saved(r, i, lines) == \E l \in lines : l.id = EventId(r, i)

NothingDropped ==
    \A w \in Workers : Handling(w) /\ Batch(w).body = "logs" =>
        \A i \in DOMAIN Records(Request(w)) :
            i < worker[w].index /\ Verdict(Records(Request(w))[i]) = "event"
                => Saved(Request(w), i, worker[w].lines \cup otlpSpool)

LEMMA SpoolGrows == [OtlpNext]_otlpVars => otlpSpool \subseteq otlpSpool'
  BY DEF OtlpNext, WorkerStep, ExporterStep, TakeRequest, RefuseBody, NormalizeRecord,
         AppendEvent, Accept, FailAppendEvent, Export, TimeOut, GiveUp, StopServer,
         ExitServer, RestartServer, otlpVars

\* A worker that does not move keeps what it has, however the spool grows.
LEMMA OthersKeep ==
  ASSUME OtlpTypeOK, NothingDropped, otlpSpool \subseteq otlpSpool',
         NEW v \in Workers, worker'[v] = worker[v]
  PROVE  (Handling(v) /\ Batch(v).body = "logs" =>
            \A i \in DOMAIN Records(Request(v)) :
              i < worker[v].index /\ Verdict(Records(Request(v))[i]) = "event"
                => Saved(Request(v), i, worker[v].lines \cup otlpSpool))'
<1>. DEFINE r == worker[v].request
<1>1. ASSUME Handling(v)', Batch(v)'.body = "logs",
             NEW i \in DOMAIN Records(r), i < worker[v].index, Verdict(Records(r)[i]) = "event"
      PROVE  Saved(r, i, worker[v].lines \cup otlpSpool')
  <2>1. Saved(r, i, worker[v].lines \cup otlpSpool)
    BY <1>1 DEF NothingDropped, Handling, Batch, Request
  <2>2. QED
    BY <2>1 DEF Saved
<1>2. QED
  BY <1>1 DEF Handling, Batch, Request

LEMMA NothingDroppedInductive ==
  OtlpTypeOK /\ NothingDropped /\ [OtlpNext]_otlpVars => NothingDropped'
<1>. SUFFICES ASSUME OtlpTypeOK, NothingDropped, [OtlpNext]_otlpVars,
                     NEW v \in Workers, Handling(v)', Batch(v)'.body = "logs",
                     NEW i \in DOMAIN Records(Request(v)'),
                     i < worker'[v].index, Verdict(Records(Request(v)')[i]) = "event"
              PROVE  Saved(Request(v)', i, worker'[v].lines \cup otlpSpool')
  BY DEF NothingDropped
<1>1. otlpSpool \subseteq otlpSpool'
  BY SpoolGrows
<1>2. CASE worker'[v] = worker[v]
  BY <1>1, <1>2, OthersKeep
<1>3. ASSUME NEW w \in Workers, TakeRequest(w), v = w
      PROVE  Saved(Request(v)', i, worker'[v].lines \cup otlpSpool')
  <2>1. worker'[v] = [request |-> Head(queue), index |-> 1, lines |-> {}]
    BY <1>3 DEF TakeRequest, OtlpTypeOK
  <2>2. Request(v)' \in Accepted
    BY OtlpTypeInductive, HandledIsTask DEF OtlpTypeOK, Handling, Request, Tasks
  <2>3. i \in Nat \ {0}
    BY <2>2, BatchTypes
  <2>4. QED
    BY <2>1, <2>3
<1>4. ASSUME NEW w \in Workers, NormalizeRecord(w), v = w
      PROVE  Saved(Request(v)', i, worker'[v].lines \cup otlpSpool')
  <2>. DEFINE index == worker[v].index
              r == Request(v)
  <2>1. /\ worker[v] \in Tasks /\ r \in Accepted
    BY <1>4, HandledIsTask DEF NormalizeRecord, Normalizing
  <2>2. /\ Request(v)' = r /\ worker'[v].index = index + 1
        /\ worker'[v].lines = IF Verdict(Records(r)[index]) = "event"
                              THEN worker[v].lines \cup {Line(r, index)} ELSE worker[v].lines
        /\ otlpSpool' = otlpSpool
    BY <1>4, <2>1 DEF NormalizeRecord, OtlpTypeOK, Request
  <2>3. i \in Nat /\ index \in Nat
    BY <2>1, <2>2, BatchTypes DEF Tasks
  <2>4. CASE i = index
    <3>1. Line(r, i).id = EventId(r, i)
      BY DEF Line
    <3>2. Line(r, i) \in worker'[v].lines /\ Request(v)' = r
      BY <2>2, <2>4
    <3>3. QED
      BY <3>1, <3>2 DEF Saved
  <2>5. CASE i # index
    <3>1. Saved(r, i, worker[v].lines \cup otlpSpool)
      BY <1>4, <2>2, <2>3, <2>5 DEF NothingDropped, NormalizeRecord, Normalizing
    <3>2. QED
      BY <2>2, <3>1 DEF Saved
  <2>6. QED
    BY <2>4, <2>5
<1>5. ASSUME NEW w \in Workers, AppendEvent(w), v = w
      PROVE  Saved(Request(v)', i, worker'[v].lines \cup otlpSpool')
  <2>1. worker[v] \in Tasks
    BY <1>5, HandledIsTask DEF AppendEvent, Appending
  <2>2. PICK line \in worker[v].lines :
          /\ otlpSpool' = otlpSpool \cup {line}
          /\ worker' = [worker EXCEPT ![v].lines = @ \ {line}]
    BY <1>5 DEF AppendEvent
  <2>3. /\ Request(v)' = Request(v) /\ worker'[v].index = worker[v].index
        /\ worker'[v].lines \cup otlpSpool' = worker[v].lines \cup otlpSpool
    BY <2>1, <2>2 DEF OtlpTypeOK, Tasks, Request
  <2>4. QED
    BY <1>5, <2>3 DEF NothingDropped, AppendEvent, Appending
<1>6. ASSUME NEW w \in Workers, RefuseBody(w) \/ FailAppendEvent(w) \/ Accept(w), v = w
      PROVE  FALSE
  BY <1>6 DEF RefuseBody, FailAppendEvent, Accept, Rest, Handling, OtlpTypeOK
<1>7. CASE ExitServer
  BY <1>7 DEF ExitServer, Handling
<1>8. CASE worker' = worker
  BY <1>2, <1>8
<1>9. ASSUME NEW w \in Workers, v # w,
             WorkerStep(w) \/ FailAppendEvent(w)
      PROVE  worker'[v] = worker[v]
  BY <1>9 DEF WorkerStep, TakeRequest, RefuseBody, NormalizeRecord, AppendEvent, Accept,
              FailAppendEvent, Rest, OtlpTypeOK
<1>10. CASE (\E e \in Exporters : ExporterStep(e)) \/ StopServer \/ RestartServer
             \/ UNCHANGED otlpVars
  <2>1. worker' = worker
    BY <1>10 DEF ExporterStep, Export, TimeOut, GiveUp, StopServer, RestartServer, otlpVars
  <2>2. QED
    BY <2>1, <1>8
<1>11. QED
  BY <1>2, <1>3, <1>4, <1>5, <1>6, <1>7, <1>9, <1>10 DEF OtlpNext, WorkerStep

AckedInv == OtlpTypeOK /\ NothingDropped /\ AckedIsSpooled

LEMMA AckedInductive == AckedInv /\ [OtlpNext]_otlpVars => AckedIsSpooled'
<1>. SUFFICES ASSUME AckedInv, [OtlpNext]_otlpVars, NEW b \in acked',
                     Batches[b[1]][b[2]].body = "logs",
                     NEW id \in EventIds(b[1], b[2])
              PROVE  \E l \in otlpSpool' : l.id = id
  BY DEF AckedIsSpooled
<1>1. CASE b \in acked
  BY <1>1, SpoolGrows DEF AckedInv, AckedIsSpooled
<1>2. CASE b \notin acked
  <2>1. PICK w \in Workers : RefuseBody(w) \/ Accept(w)
    <3>1. ASSUME NEW w \in Workers,
                 TakeRequest(w) \/ NormalizeRecord(w) \/ AppendEvent(w)
          PROVE  acked' = acked
      BY <3>1 DEF TakeRequest, NormalizeRecord, AppendEvent
    <3>2. ASSUME NEW w \in Workers, FailAppendEvent(w)
          PROVE  acked' = acked
      BY <3>2 DEF FailAppendEvent, Respond, PersistenceStatus
    <3>3. ASSUME NEW e \in Exporters, ExporterStep(e)
          PROVE  acked' = acked
      BY <3>3 DEF ExporterStep, Export, TimeOut, GiveUp
    <3>4. StopServer \/ ExitServer \/ RestartServer \/ UNCHANGED otlpVars => acked' = acked
      BY DEF StopServer, ExitServer, RestartServer, otlpVars
    <3>5. QED
      BY <1>2, <3>1, <3>2, <3>3, <3>4 DEF AckedInv, OtlpNext, WorkerStep
  <2>2. Request(w) \in Accepted /\ worker[w] \in Tasks
    BY <2>1, HandledIsTask DEF AckedInv, RefuseBody, Accept, Appending
  <2>3. b = <<Request(w).from, Request(w).batch>>
    BY <1>2, <2>1 DEF RefuseBody, Accept, Respond
  <2>4. Batch(w).body = "logs"
    BY <2>3 DEF Batch, BatchOf
  <2>5. Appending(w) /\ worker[w].lines = {} /\ otlpSpool' = otlpSpool
    BY <2>1, <2>4 DEF RefuseBody, Accept
  <2>6. PICK i \in DOMAIN Records(Request(w)) :
          /\ Verdict(Records(Request(w))[i]) = "event"
          /\ id = <<b[1], b[2], i>>
    BY <2>3, SameRecords DEF EventIds
  <2>7. i < worker[w].index
    BY <2>2, <2>5, <2>6, BatchTypes DEF Appending, Normalizing, Batch, Tasks
  <2>8. Saved(Request(w), i, worker[w].lines \cup otlpSpool)
    BY <2>5, <2>6, <2>7 DEF AckedInv, NothingDropped, Appending
  <2>9. QED
    BY <2>3, <2>5, <2>6, <2>8 DEF Saved, EventId
<1>3. QED
  BY <1>1, <1>2

\* handle_logs: an exporter that was answered 200 need not send the batch
\* again -- every event of it is in the spool, whatever was sent twice, timed
\* out, failed or was stopped before.
THEOREM AcknowledgedIsSpooled == OtlpSpec => []AckedIsSpooled
<1>1. OtlpInit => AckedInv
  BY OtlpTypeInit DEF OtlpInit, AckedInv, NothingDropped, AckedIsSpooled, Handling
<1>2. AckedInv /\ [OtlpNext]_otlpVars => AckedInv'
  BY OtlpTypeInductive, NothingDroppedInductive, AckedInductive DEF AckedInv
<1>3. AckedInv => AckedIsSpooled
  BY DEF AckedInv
<1>4. QED
  BY <1>1, <1>2, <1>3, PTL DEF OtlpSpec

-----------------------------------------------------------------------------
(* The provider cache: no conversation is in it twice, and until it is full *)
(* it holds every conversation that was announced.                          *)

ProviderInv ==
    /\ IsInjective(cache) /\ Len(cache) <= CacheCap
    /\ IsFiniteSet(announced)
    /\ Len(cache) < CacheCap => ToSet(cache) = announced

\* A sequence without repetitions has as many elements as places.
LEMMA InjectiveCardinality ==
  ASSUME NEW S, NEW c \in Seq(S), IsInjective(c)
  PROVE  IsFiniteSet(ToSet(c)) /\ Cardinality(ToSet(c)) = Len(c)
<1>1. /\ Len(c) \in Nat /\ DOMAIN c = 1..Len(c) /\ c \in [1..Len(c) -> ToSet(c)]
  BY DEF ToSet
<1>2. c \in Bijection(1..Len(c), ToSet(c))
  BY <1>1 DEF Bijection, Injection, Surjection, IsInjective, ToSet
<1>3. IsFiniteSet(1..Len(c)) /\ Cardinality(1..Len(c)) = Len(c)
  <2>1. 1 \in Int /\ Len(c) \in Int
    BY <1>1
  <2>2. /\ IsFiniteSet(1..Len(c))
        /\ Cardinality(1..Len(c)) = IF 1 > Len(c) THEN 0 ELSE Len(c) - 1 + 1
    BY <2>1, FS_Interval, Zenon
  <2>3. QED
    BY <1>1, <2>2
<1>4. QED
  BY <1>2, <1>3, FS_Bijection DEF ExistsBijection

\* Appending something new, with or without dropping the oldest.
LEMMA AppendedIsInjective ==
  ASSUME NEW S, NEW c \in Seq(S), IsInjective(c), NEW x, x \notin ToSet(c)
  PROVE  /\ IsInjective(Append(c, x)) /\ ToSet(Append(c, x)) = ToSet(c) \cup {x}
         /\ Len(Append(c, x)) = Len(c) + 1
<1>1. /\ Len(c) \in Nat /\ DOMAIN c = 1..Len(c) /\ c \in Seq(S \cup {x})
      /\ \A i \in 1..Len(c) : c[i] # x
  BY SeqMonotonic DEF ToSet
<1>2. /\ Len(Append(c, x)) = Len(c) + 1 /\ DOMAIN Append(c, x) = 1..(Len(c) + 1)
      /\ \A i \in 1..Len(c) : Append(c, x)[i] = c[i]
      /\ Append(c, x)[Len(c) + 1] = x
  BY <1>1, AppendProperties
<1>3. IsInjective(Append(c, x))
  BY <1>1, <1>2 DEF IsInjective
<1>4. ToSet(Append(c, x)) = ToSet(c) \cup {x}
  BY <1>1, <1>2 DEF ToSet
<1>5. QED
  BY <1>2, <1>3, <1>4

LEMMA TailIsInjective ==
  ASSUME NEW S, NEW c \in Seq(S), IsInjective(c), c # <<>>
  PROVE  /\ Tail(c) \in Seq(S) /\ IsInjective(Tail(c)) /\ Len(Tail(c)) = Len(c) - 1
         /\ ToSet(Tail(c)) \subseteq ToSet(c)
<1>1. /\ Tail(c) \in Seq(S) /\ Len(Tail(c)) = Len(c) - 1
      /\ \A i \in 1..Len(Tail(c)) : Tail(c)[i] = c[i + 1]
  BY HeadTailProperties
<1>2. /\ Len(c) \in Nat \ {0} /\ DOMAIN c = 1..Len(c)
      /\ DOMAIN Tail(c) = 1..(Len(c) - 1)
  BY <1>1, EmptySeq, LenProperties
<1>3. IsInjective(Tail(c))
  BY <1>1, <1>2 DEF IsInjective
<1>4. ToSet(Tail(c)) \subseteq ToSet(c)
  BY <1>1, <1>2 DEF ToSet
<1>5. QED
  BY <1>1, <1>3, <1>4

\* One announcement: the cache stays free of repetitions and within its cap,
\* and forgets nothing while it is below the cap.
LEMMA RememberKeeps ==
  ASSUME OtlpTypeOK, ProviderInv, NEW conv \in STRING
  PROVE  /\ IsInjective(Remember(cache, conv)) /\ Len(Remember(cache, conv)) <= CacheCap
         /\ Len(Remember(cache, conv)) < CacheCap =>
              ToSet(Remember(cache, conv)) = announced \cup {conv}
<1>1. cache \in Seq(announced) /\ Len(cache) \in Nat /\ CacheCap \in Nat \ {0}
  BY OtlpAssumption DEF OtlpTypeOK
<1>2. CASE conv \in ToSet(cache)
  <2>1. PICK i \in DOMAIN cache : cache[i] = conv
    BY <1>2 DEF ToSet
  <2>2. conv \in announced
    <3>1. \A x \in DOMAIN cache : cache[x] \in announced
      BY <1>1
    <3>2. QED
      BY <2>1, <3>1
  <2>3. Remember(cache, conv) = cache /\ announced \cup {conv} = announced
    BY <1>2, <2>2 DEF Remember
  <2>4. QED
    BY <2>3 DEF ProviderInv
<1>3. CASE conv \notin ToSet(cache) /\ Len(cache) = CacheCap
  <2>1. cache # <<>>
    BY <1>1, <1>3
  <2>2. /\ Tail(cache) \in Seq(announced) /\ IsInjective(Tail(cache))
        /\ Len(Tail(cache)) = Len(cache) - 1 /\ conv \notin ToSet(Tail(cache))
    BY <1>1, <1>3, <2>1, TailIsInjective DEF ProviderInv
  <2>3. Remember(cache, conv) = Append(Tail(cache), conv)
    BY <1>3 DEF Remember
  <2>4. /\ IsInjective(Append(Tail(cache), conv))
        /\ Len(Append(Tail(cache), conv)) = Len(Tail(cache)) + 1
    BY <2>2, AppendedIsInjective
  <2>5. Len(Append(Tail(cache), conv)) = CacheCap
    BY <1>1, <1>3, <2>2, <2>4
  <2>6. IsInjective(Remember(cache, conv))
    BY <2>3, <2>4 DEF IsInjective
  <2>7. Len(Remember(cache, conv)) = CacheCap
    BY <2>3, <2>5
  <2>8. Len(Remember(cache, conv)) <= CacheCap /\ ~(Len(Remember(cache, conv)) < CacheCap)
    BY <1>1, <2>7
  <2>9. QED
    BY <2>6, <2>8
<1>4. CASE conv \notin ToSet(cache) /\ Len(cache) # CacheCap
  <2>1. Remember(cache, conv) = Append(cache, conv)
    BY <1>4 DEF Remember
  <2>2. /\ IsInjective(Append(cache, conv)) /\ Len(Append(cache, conv)) = Len(cache) + 1
        /\ ToSet(Append(cache, conv)) = ToSet(cache) \cup {conv}
    BY <1>1, <1>4, AppendedIsInjective DEF ProviderInv
  <2>3. Len(cache) < CacheCap /\ ToSet(cache) = announced
    BY <1>1, <1>4 DEF ProviderInv
  <2>4. QED
    BY <1>1, <2>1, <2>2, <2>3
<1>5. QED
  BY <1>2, <1>3, <1>4

LEMMA ProviderInductive ==
  OtlpTypeOK /\ ProviderInv /\ [OtlpNext]_otlpVars => ProviderInv'
<1>. SUFFICES ASSUME OtlpTypeOK, ProviderInv, [OtlpNext]_otlpVars
              PROVE  ProviderInv'
  OBVIOUS
<1>1. CASE UNCHANGED <<cache, announced>>
  BY <1>1 DEF ProviderInv, IsInjective
<1>2. ASSUME NEW w \in Workers, NormalizeRecord(w)
      PROVE  ProviderInv'
  <2>. DEFINE record == Records(Request(w))[worker[w].index]
  <2>1. record.conv \in STRING
    <3>1. worker[w] \in Tasks /\ Request(w) \in Accepted
      BY <1>2, HandledIsTask DEF NormalizeRecord, Normalizing
    <3>2. worker[w].index \in DOMAIN Records(Request(w))
      BY <1>2, <3>1, BatchTypes DEF NormalizeRecord, Normalizing, Batch, Tasks
    <3>3. QED
      BY <3>1, <3>2, BatchTypes DEF LogRecord
  <2>2. CASE cache' = Remember(cache, record.conv) /\ announced' = announced \cup {record.conv}
    <3>1. IsFiniteSet(announced')
      BY <2>2, FS_AddElement DEF ProviderInv
    <3>. HIDE DEF record
    <3>2. QED
      BY <2>1, <2>2, <3>1, RememberKeeps DEF ProviderInv
  <2>3. QED
    BY <1>1, <1>2, <2>2 DEF NormalizeRecord
<1>3. CASE ExitServer
  <2>1. cache' = <<>> /\ announced' = {}
    BY <1>3 DEF ExitServer
  <2>2. IsInjective(<<>>) /\ ToSet(<<>>) = {} /\ Len(<<>>) = 0
    BY DEF IsInjective, ToSet
  <2>3. QED
    BY <2>1, <2>2, FS_EmptySet, OtlpAssumption DEF ProviderInv
<1>4. ASSUME NEW w \in Workers,
             TakeRequest(w) \/ RefuseBody(w) \/ AppendEvent(w) \/ Accept(w) \/ FailAppendEvent(w)
      PROVE  UNCHANGED <<cache, announced>>
  BY <1>4 DEF TakeRequest, RefuseBody, AppendEvent, Accept, FailAppendEvent
<1>5. ASSUME NEW e \in Exporters, ExporterStep(e)
      PROVE  UNCHANGED <<cache, announced>>
  BY <1>5 DEF ExporterStep, Export, TimeOut, GiveUp
<1>6. StopServer \/ RestartServer \/ UNCHANGED otlpVars => UNCHANGED <<cache, announced>>
  BY DEF StopServer, RestartServer, otlpVars
<1>7. QED
  BY <1>1, <1>2, <1>3, <1>4, <1>5, <1>6 DEF OtlpNext, WorkerStep

LEMMA MinOfTwo ==
  ASSUME NEW a \in Nat, NEW b \in Nat
  PROVE  Min({a, b}) = IF a <= b THEN a ELSE b
  BY DEF Min

LEMMA ProvidersKeptHolds == OtlpTypeOK /\ ProviderInv => ProvidersKept
<1>. SUFFICES ASSUME OtlpTypeOK, ProviderInv
              PROVE  ProvidersKept
  OBVIOUS
<1>1. /\ cache \in Seq(announced) /\ Len(cache) \in Nat /\ CacheCap \in Nat
      /\ Cardinality(announced) \in Nat /\ Len(cache) <= CacheCap
  BY OtlpAssumption, FS_CardinalityType DEF OtlpTypeOK, ProviderInv
<1>2. ToSet(cache) \subseteq announced
  BY <1>1 DEF ToSet
<1>3. Cardinality(ToSet(cache)) = Len(cache)
  BY <1>1, InjectiveCardinality DEF ProviderInv
<1>4. Cardinality(ToSet(cache)) <= Cardinality(announced)
  BY <1>2, FS_Subset DEF ProviderInv
<1>5. Len(cache) < CacheCap => Len(cache) = Cardinality(announced)
  BY <1>3 DEF ProviderInv
<1>6. Cardinality(ToSet(cache)) = Min({CacheCap, Cardinality(announced)})
  BY <1>1, <1>3, <1>4, <1>5, MinOfTwo
<1>7. QED
  BY <1>2, <1>6 DEF ProvidersKept

\* codex.rs: below its cap the cache forgets no conversation that announced
\* its provider, and beyond it holds as many as fit -- whatever the workers
\* interleave and however often a batch is sent again.
THEOREM CacheKeepsProviders == OtlpSpec => []ProvidersKept
<1>1. OtlpInit => OtlpTypeOK /\ ProviderInv
  <2>1. IsInjective(<<>>) /\ ToSet(<<>>) = {} /\ Len(<<>>) = 0
    BY DEF IsInjective, ToSet
  <2>2. QED
    BY <2>1, OtlpTypeInit, FS_EmptySet, OtlpAssumption DEF OtlpInit, ProviderInv
<1>2. (OtlpTypeOK /\ ProviderInv) /\ [OtlpNext]_otlpVars => (OtlpTypeOK /\ ProviderInv)'
  BY OtlpTypeInductive, ProviderInductive
<1>3. QED
  BY <1>1, <1>2, ProvidersKeptHolds, PTL DEF OtlpSpec

=============================================================================
