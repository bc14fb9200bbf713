-------------------------- MODULE SpoolIngestProofs --------------------------
(***************************************************************************)
(* What SpoolIngest's runs check on a few files and lines, for all of them.*)
(***************************************************************************)
EXTENDS SpoolIngest, FiniteSetTheorems, TLAPS

\* What LinesAfter returns is a set of the file's lines, and what it leaves out
\* lies at or before s.
LEMMA LinesAfterRead ==
  ASSUME NEW lines \in Seq(Lines), NEW s \in Nat
  PROVE  /\ LinesAfter(lines, s) \subseteq Lines
         /\ \A i \in (s + 1)..Len(lines) : lines[i] \in LinesAfter(lines, s)
<1>1. \A i \in (s + 1)..Len(lines) : i \in DOMAIN lines /\ lines[i] \in Lines
  OBVIOUS
<1>2. QED
  BY <1>1 DEF LinesAfter

\* One read of a file yields finitely many lines.
LEMMA LinesAfterFinite ==
  ASSUME NEW lines \in Seq(Lines), NEW s \in Nat
  PROVE  IsFiniteSet(LinesAfter(lines, s))
<1> DEFINE I == (s + 1)..Len(lines)
           read == [i \in I |-> lines[i]]
<1>1. IsFiniteSet(I)
  <2>1. s + 1 \in Int /\ Len(lines) \in Int
    OBVIOUS
  <2>2. QED
    BY <2>1, FS_Interval
<1>2. read \in Surjection(I, LinesAfter(lines, s))
  BY DEF Surjection, LinesAfter
<1>3. QED
  <2> HIDE DEF I, read
  <2>1. QED
    BY <1>1, <1>2, FS_Surjection

LEMMA StartOffsetType ==
  ASSUME NEW o \in Nat, NEW len \in Nat
  PROVE  StartOffset(o, len) \in Nat
BY DEF StartOffset

LEMMA TypeInductive == TypeOK /\ [Next]_vars => TypeOK'
<1> SUFFICES ASSUME TypeOK, [Next]_vars PROVE TypeOK'
  OBVIOUS
<1> USE DEF TypeOK, durable, pass, spool
<1>1. CASE UNCHANGED vars
  BY <1>1 DEF vars
<1>2. ASSUME NEW f \in Files, BeginLine(f) PROVE TypeOK'
  BY <1>2 DEF BeginLine
<1>3. ASSUME NEW f \in Files, NEW l \in Lines, EndLine(f, l) PROVE TypeOK'
  BY <1>3 DEF EndLine
<1>4. ASSUME NEW p \in Procs, NEW S \in SUBSET Files, StartPass(p, S) PROVE TypeOK'
  BY <1>4 DEF StartPass, Steps
<1>5. ASSUME NEW p \in Procs, NEW f \in Files, ReadOffset(p, f) PROVE TypeOK'
  BY <1>5 DEF ReadOffset, Steps
<1>6. ASSUME NEW p \in Procs, TailFile(p) PROVE TypeOK'
  <2> DEFINE lines == file[cur[p]]
             s == StartOffset(from[p], Len(lines))
  <2>1. lines \in Seq(Lines) /\ Len(lines) \in Nat
    OBVIOUS
  <2>2. LinesAfter(lines, s) \subseteq Lines
    BY <2>1, StartOffsetType, LinesAfterRead
  <2>3. IsFiniteSet(LinesAfter(lines, s))
    BY <2>1, StartOffsetType, LinesAfterFinite
  <2>4. QED
    BY <1>6, <2>1, <2>2, <2>3 DEF TailFile, Consumed, Steps
<1>7. ASSUME NEW p \in Procs, InsertEvents(p) PROVE TypeOK'
  <2> DEFINE new == NewRows(batch[p] \cap Events, raw)
  <2>1. new \in SUBSET batch[p] /\ new \subseteq Events
    BY DEF NewRows
  <2>2. IsFiniteSet(new) /\ Cardinality(new) \in Nat
    BY <2>1, FS_Subset, FS_CardinalityType
  <2>3. IsFiniteSet(raw \cup new)
    BY <2>2, FS_Union
  <2>4. raw' = raw \cup new /\ ingested' = ingested + Cardinality(new)
    BY <1>7 DEF InsertEvents, TableWith
  <2>5. raw' \in SUBSET Events /\ IsFiniteSet(raw') /\ ingested' \in Nat
    <3> HIDE DEF new
    <3>1. IsFiniteSet(raw')
      BY <2>3, <2>4, Zenon
    <3>2. QED
      BY <2>1, <2>2, <2>4, <3>1
  <2>6. /\ pc' = [pc EXCEPT ![p] = "opaque"]
        /\ UNCHANGED <<spool, opaqueRows, quarantined, unarchived, offset,
                       todo, cur, from, batch, newOffset, stops>>
    BY <1>7 DEF InsertEvents, TableWith
  <2>7. pc' \in [Procs -> Steps]
    BY <2>6 DEF Steps
  <2>8. QED
    BY <2>5, <2>6, <2>7
<1>8. ASSUME NEW p \in Procs, InsertOpaque(p) PROVE TypeOK'
  BY <1>8 DEF InsertOpaque, TableWith, Unknown, Steps
<1>9. ASSUME NEW p \in Procs, Quarantine(p) PROVE TypeOK'
  BY <1>9 DEF Quarantine, Rejected, Steps
<1>10. ASSUME NEW p \in Procs, SetOffset(p) PROVE TypeOK'
  BY <1>10, FS_EmptySet DEF SetOffset, ForgetFile, Steps
<1>11. ASSUME NEW p \in Procs, EndPass(p) PROVE TypeOK'
  BY <1>11 DEF EndPass, Steps
<1>12. ASSUME NEW p \in Procs, StopPass(p) PROVE TypeOK'
  BY <1>12, FS_EmptySet DEF StopPass, ForgetFile, Steps
<1>13. QED
  BY <1>1, <1>2, <1>3, <1>4, <1>5, <1>6, <1>7, <1>8, <1>9, <1>10, <1>11, <1>12
  DEF Next, Collectors, Ingesters, PassStep, FileStep

\* Every state has the types TypeOK gives, whatever the constants.
THEOREM TypeCorrect == Spec => []TypeOK
<1>1. Init => TypeOK
  BY FS_EmptySet DEF Init, TypeOK, Steps
<1>2. QED
  BY <1>1, TypeInductive, PTL DEF Spec

------------------------------------------------------------------------------
(* The cursor invariant.  CursorCoversPersisted is not inductive: SetOffset   *)
(* moves a cursor on the strength of what its pass did in the five steps      *)
(* before, while other passes moved the same cursor.  InFlightSafe records    *)
(* what a pass has secured so far; it survives the steps of others because    *)
(* files and tables only grow (Grows).                                        *)

IInv == TypeOK /\ CursorWithinFile /\ CursorCoversPersisted /\ InFlightSafe

\* What every step of an append-only system leaves true of files and tables.
Grows ==
  /\ raw \subseteq raw' /\ opaqueRows \subseteq opaqueRows'
  /\ quarantined \cup unarchived \subseteq quarantined' \cup unarchived'
  /\ \A f \in Files :
       /\ Len(file[f]) <= Len(file'[f])
       /\ \A i \in 1..Len(file[f]) : file'[f][i] = file[f][i]

LEMMA StepsGrow == TypeOK /\ [Next]_vars => Grows
<1> SUFFICES ASSUME TypeOK, [Next]_vars PROVE Grows
  OBVIOUS
<1> USE DEF durable, pass, spool
<1>1. CASE UNCHANGED <<file, durable>>
  BY <1>1 DEF Grows, TypeOK
<1>2. ASSUME NEW f \in Files, NEW l \in Lines, EndLine(f, l) PROVE Grows
  BY <1>2 DEF EndLine, Grows, TypeOK
<1>3. ASSUME NEW p \in Procs, InsertEvents(p) PROVE Grows
  BY <1>3 DEF InsertEvents, TableWith, Grows, TypeOK
<1>4. ASSUME NEW p \in Procs, InsertOpaque(p) PROVE Grows
  BY <1>4 DEF InsertOpaque, TableWith, Unknown, Grows, TypeOK
<1>5. ASSUME NEW p \in Procs, Quarantine(p) PROVE Grows
  BY <1>5 DEF Quarantine, Rejected, Grows, TypeOK
<1>6. ASSUME NEW p \in Procs, SetOffset(p) PROVE Grows
  BY <1>6 DEF SetOffset, Grows, TypeOK
<1>7. QED
  BY <1>1, <1>2, <1>3, <1>4, <1>5, <1>6
  DEF Next, Collectors, Ingesters, PassStep, FileStep, vars, BeginLine,
      StartPass, ReadOffset, TailFile, EndPass, StopPass

\* A prefix that is covered stays covered.
LEMMA CoveredStable ==
  ASSUME TypeOK, Grows, NEW f \in Files, NEW n \in Nat, n <= Len(file[f]),
         Covered(f, n)
  PROVE  n <= Len(file'[f]) /\ Covered(f, n)'
<1>1. file[f] \in Seq(Lines) /\ n <= Len(file'[f])
  BY DEF TypeOK, Grows
<1>2. \A l \in Lines : Persisted(l) => Persisted(l)'
  BY DEF Grows, Persisted
<1>3. ASSUME NEW i \in 1..n, i \in DOMAIN file'[f] PROVE Persisted(file[f][i])'
  <2>1. i \in 1..Len(file[f]) /\ i \in DOMAIN file[f] /\ file[f][i] \in Lines
    BY <1>1
  <2>2. file'[f][i] = file[f][i]
    BY <2>1 DEF Grows
  <2>3. Persisted(file[f][i])
    BY <2>1 DEF Covered
  <2>4. QED
    BY <1>2, <2>1, <2>2, <2>3 DEF Persisted
<1>4. QED
  BY <1>1, <1>3 DEF Covered

\* What a pass has secured stays secured while others take steps.
LEMMA InFlightStable ==
  ASSUME TypeOK, TypeOK', Grows, NEW p \in Procs, InFlight(p),
         UNCHANGED <<pc[p], cur[p], from[p], batch[p], newOffset[p]>>
  PROVE  InFlight(p)'
<1>1. cur[p] \in Files /\ from[p] \in Nat /\ newOffset[p] \in Nat
  BY DEF TypeOK
<1>2. pc[p] \notin {"idle", "next"} =>
        from[p] <= Len(file'[cur[p]]) /\ Covered(cur[p], from[p])'
  BY <1>1, CoveredStable DEF InFlight
<1>3. pc[p] \in {"insert", "opaque", "quarantine", "cursor"} =>
        /\ newOffset[p] <= Len(file'[cur[p]])
        /\ \A i \in (from[p] + 1)..newOffset[p] : file'[cur[p]][i] \in batch[p]
  <2> SUFFICES ASSUME pc[p] \in {"insert", "opaque", "quarantine", "cursor"}
               PROVE  /\ newOffset[p] <= Len(file'[cur[p]])
                      /\ \A i \in (from[p] + 1)..newOffset[p] :
                           file'[cur[p]][i] \in batch[p]
    OBVIOUS
  <2>1. /\ newOffset[p] <= Len(file[cur[p]])
        /\ \A i \in (from[p] + 1)..newOffset[p] : file[cur[p]][i] \in batch[p]
    BY DEF InFlight
  <2>2. /\ Len(file[cur[p]]) \in Nat /\ Len(file'[cur[p]]) \in Nat
        /\ Len(file[cur[p]]) <= Len(file'[cur[p]])
        /\ \A i \in 1..Len(file[cur[p]]) : file'[cur[p]][i] = file[cur[p]][i]
    BY <1>1 DEF Grows, TypeOK
  <2>3. \A i \in (from[p] + 1)..newOffset[p] : i \in 1..Len(file[cur[p]])
    BY <1>1, <2>1, <2>2
  <2>4. QED
    BY <1>1, <2>1, <2>2, <2>3
<1>4. /\ pc[p] \in {"opaque", "quarantine", "cursor"} => batch[p] \cap Events \subseteq raw'
      /\ pc[p] \in {"quarantine", "cursor"} => batch[p] \cap Opaque \subseteq opaqueRows'
      /\ pc[p] = "cursor" => batch[p] \cap Malformed \subseteq quarantined' \cup unarchived'
  BY DEF InFlight, Grows
<1>5. QED
  BY <1>2, <1>3, <1>4 DEF InFlight, Covered, Persisted

\* A step of p that leaves every other pass alone disturbs what none of them
\* has secured.
LEMMA OthersStable ==
  ASSUME TypeOK, TypeOK', Grows, InFlightSafe, NEW p \in Procs,
         \A q \in Procs \ {p} :
            UNCHANGED <<pc[q], cur[q], from[q], batch[q], newOffset[q]>>
  PROVE  \A q \in Procs \ {p} : InFlight(q)'
<1> SUFFICES ASSUME NEW q \in Procs \ {p} PROVE InFlight(q)'
  OBVIOUS
<1>1. InFlight(q)
  BY DEF InFlightSafe
<1>2. UNCHANGED <<pc[q], cur[q], from[q], batch[q], newOffset[q]>>
  OBVIOUS
<1>3. QED
  BY <1>1, <1>2, InFlightStable

\* Cursors nobody moved stay within their file and keep covering what is persisted.
LEMMA CursorStable ==
  ASSUME TypeOK, Grows, CursorWithinFile, CursorCoversPersisted,
         NEW f \in Files, offset'[f] = offset[f]
  PROVE  offset'[f] <= Len(file'[f]) /\ Covered(f, offset[f])'
<1>1. offset[f] \in Nat /\ offset[f] <= Len(file[f]) /\ Covered(f, offset[f])
  BY DEF TypeOK, CursorWithinFile, CursorCoversPersisted
<1>2. offset[f] <= Len(file'[f]) /\ \A i \in 1..offset[f] :
        i \in DOMAIN file'[f] => Persisted(file[f][i])'
  BY <1>1, CoveredStable DEF Covered, Persisted
<1>3. QED
  BY <1>2 DEF Covered, Persisted

\* The step that carries the invariant: SetOffset(p) moves a cursor only over
\* lines its pass has put where they belong.
LEMMA SetOffsetCovers ==
  ASSUME TypeOK, TypeOK', Grows, InFlightSafe,
         NEW p \in Procs, pc[p] = "cursor",
         NEW f \in Files, f = cur[p],
         NEW n \in Nat, n = newOffset[p], n = offset'[f]
  PROVE  offset'[f] <= Len(file'[f]) /\ Covered(f, offset[f])'
<1>1. from[p] \in Nat /\ file[f] \in Seq(Lines)
  BY DEF TypeOK
<1>2. /\ Covered(f, from[p]) /\ n <= Len(file[f])
      /\ \A i \in (from[p] + 1)..n : file[f][i] \in batch[p]
      /\ batch[p] \cap Events \subseteq raw
      /\ batch[p] \cap Opaque \subseteq opaqueRows
      /\ batch[p] \cap Malformed \subseteq quarantined \cup unarchived
  BY DEF InFlightSafe, InFlight
<1>3. \A l \in batch[p] : Persisted(l)
  BY <1>2 DEF Persisted
<1>4. Covered(f, n)
  <2> SUFFICES ASSUME NEW i \in 1..n, i \in DOMAIN file[f] PROVE Persisted(file[f][i])
    BY DEF Covered
  <2>1. CASE i <= from[p]
    BY <1>1, <1>2, <2>1 DEF Covered
  <2>2. CASE i > from[p]
    BY <1>1, <1>2, <1>3, <2>2
  <2>3. QED
    BY <1>1, <2>1, <2>2
<1>5. n <= Len(file'[f]) /\ Covered(f, n)'
  BY <1>2, <1>4, CoveredStable
<1>6. QED
  BY <1>5 DEF Covered, Persisted

\* A pass step that moves no cursor keeps the invariant if it keeps its own part.
LEMMA PassStepKeeps ==
  ASSUME IInv, TypeOK', Grows, UNCHANGED offset, NEW p \in Procs, InFlight(p)',
         \A q \in Procs \ {p} :
            UNCHANGED <<pc[q], cur[q], from[q], batch[q], newOffset[q]>>
  PROVE  IInv'
<1>1. \A f \in Files : offset'[f] <= Len(file'[f]) /\ Covered(f, offset[f])'
  BY CursorStable DEF IInv
<1>2. \A q \in Procs \ {p} : InFlight(q)'
  BY OthersStable DEF IInv
<1>3. QED
  BY <1>1, <1>2 DEF IInv, CursorWithinFile, CursorCoversPersisted, InFlightSafe

LEMMA CursorInductive == IInv /\ [Next]_vars => IInv'
<1> SUFFICES ASSUME IInv, [Next]_vars PROVE IInv'
  OBVIOUS
<1> USE DEF durable, pass, spool
<1>1. TypeOK /\ TypeOK' /\ Grows /\ InFlightSafe
  BY TypeInductive, StepsGrow DEF IInv
<1>2. CASE UNCHANGED <<offset, pass>>
  <2>1. \A f \in Files : offset'[f] <= Len(file'[f]) /\ Covered(f, offset[f])'
    BY <1>1, <1>2, CursorStable DEF IInv
  <2>2. \A q \in Procs : InFlight(q)'
    BY <1>1, <1>2, InFlightStable DEF InFlightSafe
  <2>3. QED
    BY <1>1, <2>1, <2>2 DEF IInv, CursorWithinFile, CursorCoversPersisted, InFlightSafe
<1>3. ASSUME NEW p \in Procs, NEW S \in SUBSET Files, StartPass(p, S) PROVE IInv'
  <2>1. InFlight(p)'
    BY <1>1, <1>3 DEF StartPass, InFlight, TypeOK
  <2>2. QED
    BY <1>1, <1>3, <2>1, PassStepKeeps DEF StartPass, TypeOK
<1>4. ASSUME NEW p \in Procs, NEW f \in Files, ReadOffset(p, f) PROVE IInv'
  <2>1. /\ from'[p] = offset[f] /\ cur'[p] = f /\ pc'[p] = "tail"
        /\ UNCHANGED <<file, raw, opaqueRows, quarantined, unarchived, offset>>
    BY <1>1, <1>4 DEF ReadOffset, TypeOK
  <2>2. offset[f] <= Len(file[f]) /\ Covered(f, offset[f])
    BY DEF IInv, CursorWithinFile, CursorCoversPersisted
  <2>3. InFlight(p)'
    BY <2>1, <2>2 DEF InFlight, Covered, Persisted
  <2>4. QED
    BY <1>1, <1>4, <2>3, PassStepKeeps DEF ReadOffset, TypeOK
<1>5. ASSUME NEW p \in Procs, TailFile(p) PROVE IInv'
  <2> DEFINE lines == file[cur[p]]
  <2>1. /\ pc[p] = "tail" /\ pc'[p] = "insert"
        /\ UNCHANGED <<file, raw, opaqueRows, quarantined, unarchived, offset, cur, from>>
        /\ batch'[p] = LinesAfter(lines, StartOffset(from[p], Len(lines)))
        /\ newOffset'[p] = Len(lines)
    BY <1>1, <1>5 DEF TailFile, Consumed, TypeOK
  <2>2. from[p] \in Nat /\ lines \in Seq(Lines) /\ Len(lines) \in Nat
    BY <1>1 DEF TypeOK
  <2>3. from[p] <= Len(lines) /\ Covered(cur[p], from[p])
    BY <1>1, <2>1 DEF InFlightSafe, InFlight
  <2>4. StartOffset(from[p], Len(lines)) = from[p]
    BY <2>2, <2>3 DEF StartOffset
  <2>5. \A i \in (from[p] + 1)..Len(lines) : lines[i] \in batch'[p]
    BY <2>1, <2>2, <2>4, LinesAfterRead
  <2>6. InFlight(p)'
    BY <2>1, <2>2, <2>3, <2>5 DEF InFlight, Covered, Persisted
  <2>7. QED
    BY <1>1, <1>5, <2>6, PassStepKeeps DEF TailFile, Consumed, TypeOK
<1>6. ASSUME NEW p \in Procs, InsertEvents(p) PROVE IInv'
  <2>1. /\ pc[p] = "insert" /\ pc'[p] = "opaque"
        /\ UNCHANGED <<file, opaqueRows, quarantined, unarchived, offset,
                       cur, from, batch, newOffset>>
        /\ raw' = raw \cup (batch[p] \cap Events)
    BY <1>1, <1>6 DEF InsertEvents, TableWith, NewRows, TypeOK
  <2>2. cur[p] \in Files /\ from[p] \in Nat
    BY <1>1 DEF TypeOK
  <2>3. InFlight(p)
    BY <1>1 DEF InFlightSafe
  <2>4. Covered(cur[p], from[p])'
    BY <2>1, <2>3 DEF InFlight, Covered, Persisted
  <2>5. InFlight(p)'
    BY <2>1, <2>3, <2>4 DEF InFlight
  <2>6. QED
    BY <1>1, <1>6, <2>5, PassStepKeeps DEF InsertEvents, TableWith, TypeOK
<1>7. ASSUME NEW p \in Procs, InsertOpaque(p) PROVE IInv'
  <2>1. /\ pc[p] = "opaque" /\ pc'[p] = "quarantine"
        /\ UNCHANGED <<file, raw, quarantined, unarchived, offset,
                       cur, from, batch, newOffset>>
        /\ opaqueRows' = opaqueRows \cup (batch[p] \cap Opaque)
    BY <1>1, <1>7 DEF InsertOpaque, TableWith, Unknown, TypeOK
  <2>2. InFlight(p)
    BY <1>1 DEF InFlightSafe
  <2>3. Covered(cur[p], from[p])'
    BY <2>1, <2>2 DEF InFlight, Covered, Persisted
  <2>4. InFlight(p)'
    BY <2>1, <2>2, <2>3 DEF InFlight
  <2>5. QED
    BY <1>1, <1>7, <2>4, PassStepKeeps DEF InsertOpaque, TableWith, Unknown, TypeOK
<1>8. ASSUME NEW p \in Procs, Quarantine(p) PROVE IInv'
  <2>1. /\ pc[p] = "quarantine" /\ pc'[p] = "cursor"
        /\ UNCHANGED <<file, raw, opaqueRows, offset, cur, from, batch, newOffset>>
        /\ quarantined' \cup unarchived' =
             quarantined \cup unarchived \cup (batch[p] \cap Malformed)
    BY <1>1, <1>8 DEF Quarantine, Rejected, TypeOK
  <2>2. InFlight(p)
    BY <1>1 DEF InFlightSafe
  <2>3. Covered(cur[p], from[p])'
    BY <2>1, <2>2 DEF InFlight, Covered, Persisted
  <2>4. InFlight(p)'
    BY <2>1, <2>2, <2>3 DEF InFlight
  <2>5. QED
    BY <1>1, <1>8, <2>4, PassStepKeeps DEF Quarantine, Rejected, TypeOK
<1>9. ASSUME NEW p \in Procs, SetOffset(p) PROVE IInv'
  <2>1. /\ pc[p] = "cursor" /\ pc'[p] = "next" /\ cur[p] \in Files
        /\ newOffset[p] \in Nat
        /\ \A g \in Files \ {cur[p]} : offset'[g] = offset[g]
        /\ \/ offset'[cur[p]] = offset[cur[p]]
           \/ offset'[cur[p]] = newOffset[p]
    BY <1>1, <1>9 DEF SetOffset, TypeOK
  <2>2. ASSUME NEW g \in Files
        PROVE  offset'[g] <= Len(file'[g]) /\ Covered(g, offset[g])'
    <3>1. CASE offset'[g] = offset[g]
      BY <1>1, <3>1, CursorStable DEF IInv
    <3>2. CASE offset'[g] # offset[g]
      <4>1. g = cur[p] /\ offset'[g] = newOffset[p]
        BY <2>1, <3>2
      <4>2. QED
        BY <1>1, <2>1, <4>1, SetOffsetCovers
    <3>3. QED
      BY <3>1, <3>2
  <2>3. InFlight(p)'
    BY <2>1 DEF InFlight
  <2>4. \A q \in Procs \ {p} :
          UNCHANGED <<pc[q], cur[q], from[q], batch[q], newOffset[q]>>
    BY <1>1, <1>9 DEF SetOffset, ForgetFile, TypeOK
  <2>5. \A q \in Procs \ {p} : InFlight(q)'
    BY <1>1, <2>4, OthersStable
  <2>6. QED
    BY <1>1, <2>2, <2>3, <2>5
    DEF IInv, CursorWithinFile, CursorCoversPersisted, InFlightSafe
<1>10. ASSUME NEW p \in Procs, EndPass(p) PROVE IInv'
  <2>1. InFlight(p)'
    BY <1>1, <1>10 DEF EndPass, InFlight, TypeOK
  <2>2. QED
    BY <1>1, <1>10, <2>1, PassStepKeeps DEF EndPass, TypeOK
<1>11. ASSUME NEW p \in Procs, StopPass(p) PROVE IInv'
  <2>1. InFlight(p)'
    BY <1>1, <1>11 DEF StopPass, InFlight, TypeOK
  <2>2. QED
    BY <1>1, <1>11, <2>1, PassStepKeeps DEF StopPass, ForgetFile, TypeOK
<1>12. QED
  BY <1>2, <1>3, <1>4, <1>5, <1>6, <1>7, <1>8, <1>9, <1>10, <1>11
  DEF Next, Collectors, Ingesters, PassStep, FileStep, vars, BeginLine, EndLine

LEMMA CursorInvariant == Spec => []IInv
<1>1. Init => IInv
  <2> SUFFICES ASSUME Init PROVE IInv
    OBVIOUS
  <2>1. TypeOK
    BY FS_EmptySet DEF Init, TypeOK, Steps
  <2>2. \A f \in Files : offset[f] = 0 /\ file[f] = <<>>
    BY DEF Init
  <2>3. CursorWithinFile /\ CursorCoversPersisted
    BY <2>2 DEF CursorWithinFile, CursorCoversPersisted, Covered
  <2>4. InFlightSafe
    BY DEF Init, InFlightSafe, InFlight
  <2>5. QED
    BY <2>1, <2>3, <2>4 DEF IInv
<1>2. QED
  BY <1>1, CursorInductive, PTL DEF Spec

\* However many passes run over however many files, the stored cursor of a file
\* stands past nothing that set_offset's pass has not put in a table first.
THEOREM CursorCovers == Spec => []CursorCoversPersisted
BY CursorInvariant, PTL DEF IInv

\* tail's restart from 0 is never taken while collectors only append.
THEOREM CursorStaysWithin == Spec => []CursorWithinFile
BY CursorInvariant, PTL DEF IInv

\* No interleaving or broken-off pass of an append-only spool forgets a line.
THEOREM NothingForgotten == Spec => []NoLineForgotten
<1>1. ASSUME IInv PROVE NoLineForgotten
  <2> SUFFICES ASSUME NEW f \in Files, NEW i \in DOMAIN file[f],
                      ~(i > StartOffset(offset[f], Len(file[f])))
               PROVE  Persisted(file[f][i])
    BY DEF NoLineForgotten
  <2>1. file[f] \in Seq(Lines) /\ offset[f] \in Nat /\ offset[f] <= Len(file[f])
    BY <1>1 DEF IInv, TypeOK, CursorWithinFile
  <2>2. i \in 1..offset[f]
    BY <2>1 DEF StartOffset
  <2>3. QED
    BY <1>1, <2>2 DEF IInv, CursorCoversPersisted, Covered
<1>2. QED
  BY <1>1, CursorInvariant, PTL

------------------------------------------------------------------------------
(* The rows insert_events reports, and the ledger they are rows of. *)

\* Passes that insert the same batch at once never count a row twice: what
\* every insert_events call reports adds up to the table.
THEOREM CountsAddUp == Spec => []IngestedCountExact
<1>1. Init => IngestedCountExact
  BY FS_EmptySet DEF Init, IngestedCountExact
<1>2. TypeOK /\ IngestedCountExact /\ [Next]_vars => IngestedCountExact'
  <2> SUFFICES ASSUME TypeOK, IngestedCountExact, [Next]_vars
               PROVE  IngestedCountExact'
    OBVIOUS
  <2> USE DEF durable, IngestedCountExact
  <2>1. CASE UNCHANGED <<raw, ingested>>
    BY <2>1
  <2>2. ASSUME NEW p \in Procs, InsertEvents(p) PROVE IngestedCountExact'
    <3> DEFINE new == NewRows(batch[p] \cap Events, raw)
    <3>1. raw' = raw \cup new /\ ingested' = ingested + Cardinality(new)
      BY <2>2 DEF InsertEvents, TableWith
    <3>2. new \in SUBSET batch[p] /\ raw \cap new = {}
      BY DEF NewRows
    <3>3. IsFiniteSet(new) /\ IsFiniteSet(raw)
      BY <3>2, FS_Subset DEF TypeOK
    <3> HIDE DEF new
    <3>4. /\ Cardinality(raw \cup new) =
               Cardinality(raw) + Cardinality(new) - Cardinality(raw \cap new)
          /\ Cardinality(raw) \in Nat /\ Cardinality(new) \in Nat
      BY <3>3, FS_Union, FS_CardinalityType
    <3>5. Cardinality(raw \cap new) = 0
      BY <3>2, FS_EmptySet
    <3>6. QED
      BY <3>1, <3>4, <3>5
  <2>3. QED
    BY <2>1, <2>2
    DEF Next, Collectors, Ingesters, PassStep, FileStep, vars, BeginLine, EndLine,
        StartPass, ReadOffset, TailFile, InsertOpaque, Quarantine, SetOffset,
        EndPass, StopPass
<1>3. QED
  BY <1>1, <1>2, TypeCorrect, PTL DEF Spec

\* What a pass holds was read off a spool file.
BatchPublished == \A p \in Procs : batch[p] \cap Events \subseteq Published

\* Collectors only publish; passes only record what is published.
LEMMA PublishedStep ==
  ASSUME TypeOK, TypeOK', Grows
  PROVE  Published \subseteq Published'
<1> SUFFICES ASSUME NEW e \in Events, NEW f \in Files, NEW i \in DOMAIN file[f],
                    file[f][i] = e
             PROVE  \E j \in DOMAIN file'[f] : file'[f][j] = e
  BY DEF Published
<1>1. file[f] \in Seq(Lines) /\ file'[f] \in Seq(Lines)
  BY DEF TypeOK
<1>2. i \in 1..Len(file[f]) /\ Len(file[f]) <= Len(file'[f]) /\ file'[f][i] = e
  BY <1>1 DEF Grows
<1>3. QED
  BY <1>1, <1>2

LEMMA BatchPublishedInductive ==
  TypeOK /\ BatchPublished /\ [Next]_vars => BatchPublished'
<1> SUFFICES ASSUME TypeOK, BatchPublished, [Next]_vars PROVE BatchPublished'
  OBVIOUS
<1> USE DEF durable, pass, spool
<1>1. TypeOK' /\ Published \subseteq Published'
  BY TypeInductive, StepsGrow, PublishedStep
<1>2. CASE UNCHANGED batch
  BY <1>1, <1>2 DEF BatchPublished
<1>3. ASSUME NEW p \in Procs, batch' = [batch EXCEPT ![p] = {}] PROVE BatchPublished'
  BY <1>1, <1>3 DEF BatchPublished, TypeOK
<1>4. ASSUME NEW p \in Procs, TailFile(p) PROVE BatchPublished'
  <2> DEFINE lines == file[cur[p]]
             read == LinesAfter(lines, StartOffset(from[p], Len(lines)))
  <2>1. batch' = [batch EXCEPT ![p] = read] /\ UNCHANGED file
    BY <1>4 DEF TailFile, Consumed
  <2>2. /\ cur[p] \in Files /\ lines \in Seq(Lines)
        /\ StartOffset(from[p], Len(lines)) \in Nat
    BY StartOffsetType DEF TypeOK
  <2>3. read \cap Events \subseteq Published
    <3> SUFFICES ASSUME NEW e \in read \cap Events
                 PROVE  \E f \in Files : \E i \in DOMAIN file[f] : file[f][i] = e
      BY DEF Published
    <3>1. \E i \in DOMAIN lines : lines[i] = e
      BY <2>2 DEF LinesAfter
    <3>2. QED
      BY <2>2, <3>1
  <2> HIDE DEF read
  <2>4. QED
    BY <1>1, <2>1, <2>3 DEF BatchPublished, TypeOK
<1>5. QED
  BY <1>2, <1>3, <1>4
  DEF Next, Collectors, Ingesters, PassStep, FileStep, vars, BeginLine, EndLine,
      StartPass, ReadOffset, InsertEvents, InsertOpaque, Quarantine, SetOffset,
      ForgetFile, EndPass, StopPass

\* Every behaviour of the pipeline is a behaviour of the ledger.
THEOREM ImplementsLedger == Spec => LedgerImplemented
<1>1. Init => Ledger!LedgerInit
  BY DEF Init, Ledger!LedgerInit, Published
<1>2. TypeOK /\ BatchPublished /\ [Next]_vars => [Ledger!LedgerNext]_(Ledger!ledgerVars)
  <2> SUFFICES ASSUME TypeOK, BatchPublished, [Next]_vars
               PROVE  [Ledger!LedgerNext]_(Ledger!ledgerVars)
    OBVIOUS
  <2> USE DEF durable, pass, spool, Ledger!LedgerNext, Ledger!ledgerVars
  <2>1. CASE UNCHANGED <<file, raw>>
    BY <2>1 DEF Published
  <2>2. ASSUME NEW f \in Files, NEW l \in Lines, EndLine(f, l)
        PROVE  [Ledger!LedgerNext]_(Ledger!ledgerVars)
    <3>1. /\ file[f] \in Seq(Lines) /\ UNCHANGED raw
          /\ file' = [file EXCEPT ![f] = Append(@, l)]
      BY <2>2 DEF EndLine, TypeOK
    <3>2. \A e \in Events : e \in Published' <=> e \in Published \/ e = l
      <4>1. \A i \in DOMAIN file'[f] : i \in DOMAIN file[f] \/ i = Len(file[f]) + 1
        BY <3>1 DEF TypeOK
      <4>2. \A i \in DOMAIN file[f] : i \in DOMAIN file'[f] /\ file'[f][i] = file[f][i]
        BY <3>1 DEF TypeOK
      <4>3. Len(file[f]) + 1 \in DOMAIN file'[f] /\ file'[f][Len(file[f]) + 1] = l
        BY <3>1 DEF TypeOK
      <4>4. \A g \in Files \ {f} : file'[g] = file[g]
        BY <3>1 DEF TypeOK
      <4>5. QED
        BY <4>1, <4>2, <4>3, <4>4 DEF Published
    <3>3. CASE l \in Events
      <4>1. Published' = Published \cup {l}
        BY <3>2, <3>3 DEF Published
      <4>2. QED
        BY <3>1, <3>3, <4>1 DEF Ledger!Publish
    <3>4. CASE l \notin Events
      <4>1. Published' = Published
        BY <3>2, <3>4 DEF Published
      <4>2. QED
        BY <3>1, <4>1
    <3>5. QED
      BY <3>3, <3>4
  <2>3. ASSUME NEW p \in Procs, InsertEvents(p)
        PROVE  [Ledger!LedgerNext]_(Ledger!ledgerVars)
    <3> DEFINE new == NewRows(batch[p] \cap Events, raw)
    <3>1. raw' = raw \cup new /\ UNCHANGED file
      BY <2>3 DEF InsertEvents, TableWith
    <3>2. new \in SUBSET Published
      BY DEF BatchPublished, NewRows
    <3>3. Published' = Published
      BY <3>1 DEF Published
    <3>4. QED
      BY <3>1, <3>2, <3>3 DEF Ledger!Record
  <2>4. QED
    BY <2>1, <2>2, <2>3
    DEF Next, Collectors, Ingesters, PassStep, FileStep, vars, BeginLine,
        StartPass, ReadOffset, TailFile, InsertOpaque, Quarantine, SetOffset,
        EndPass, StopPass
<1>3. Init => BatchPublished
  BY DEF Init, BatchPublished
<1>4. QED
  BY <1>1, <1>2, <1>3, TypeCorrect, BatchPublishedInductive, PTL
  DEF Spec, LedgerImplemented, Ledger!LedgerSafe

------------------------------------------------------------------------------
(* The comment on IngestSummary.events holds for a process that ingests alone: *)
(* nobody else moves the cursor between its read and its write.                *)

CursorHeld ==
  \A p \in Procs :
    /\ pc[p] \notin {"idle", "next"} => offset[cur[p]] = from[p]
    /\ pc[p] \in {"insert", "opaque", "quarantine", "cursor"} =>
         from[p] <= newOffset[p]

LEMMA CursorHeldInductive ==
  ASSUME NEW w, Procs = {w}
  PROVE  IInv /\ CursorHeld /\ [Next]_vars => CursorHeld'
<1> SUFFICES ASSUME IInv, CursorHeld, [Next]_vars PROVE CursorHeld'
  OBVIOUS
<1> USE DEF durable, pass, spool
<1>1. TypeOK
  BY DEF IInv
<1>2. CASE UNCHANGED <<offset, pass>>
  BY <1>2 DEF CursorHeld
<1>3. ASSUME NEW p \in Procs, pc'[p] \in {"idle", "next"} PROVE CursorHeld'
  BY <1>3 DEF CursorHeld
<1>4. ASSUME NEW p \in Procs, NEW f \in Files, ReadOffset(p, f) PROVE CursorHeld'
  BY <1>1, <1>4 DEF ReadOffset, CursorHeld, TypeOK
<1>5. ASSUME NEW p \in Procs, TailFile(p) PROVE CursorHeld'
  <2>1. from[p] <= Len(file[cur[p]])
    BY <1>5 DEF IInv, InFlightSafe, InFlight, TailFile
  <2>2. QED
    BY <1>1, <1>5, <2>1 DEF TailFile, Consumed, CursorHeld, TypeOK
<1>6. ASSUME NEW p \in Procs, InsertEvents(p) \/ InsertOpaque(p) \/ Quarantine(p)
      PROVE  CursorHeld'
  BY <1>1, <1>6 DEF InsertEvents, InsertOpaque, Quarantine, CursorHeld, TypeOK
<1>7. ASSUME NEW p \in Procs, \/ SetOffset(p) \/ EndPass(p) \/ StopPass(p)
                              \/ \E S \in SUBSET Files : StartPass(p, S)
      PROVE  CursorHeld'
  <2>1. pc'[p] \in {"idle", "next"}
    BY <1>1, <1>7 DEF SetOffset, EndPass, StopPass, StartPass, TypeOK
  <2>2. QED
    BY <1>3, <2>1
<1>8. QED
  BY <1>2, <1>4, <1>5, <1>6, <1>7
  DEF Next, Collectors, Ingesters, PassStep, FileStep, vars, BeginLine, EndLine

\* With one ingesting process and append-only files, no cursor goes back.
THEOREM OffsetsMoveForwardAlone ==
  ASSUME NEW w, Procs = {w}
  PROVE  Spec => OffsetsNeverMoveBackwards
<1>1. Init => CursorHeld
  BY DEF Init, CursorHeld
<1>2. IInv /\ CursorHeld /\ [Next]_vars => CursorHeld'
  BY CursorHeldInductive
<1>3. IInv /\ CursorHeld /\ [Next]_vars =>
        [\A f \in Files : offset'[f] >= offset[f]]_vars
  <2> SUFFICES ASSUME IInv, CursorHeld, [Next]_vars, NEW f \in Files
               PROVE  offset'[f] >= offset[f] \/ UNCHANGED vars
    OBVIOUS
  <2>1. TypeOK /\ offset[f] \in Nat
    BY DEF IInv, TypeOK
  <2>2. CASE UNCHANGED offset
    BY <2>1, <2>2
  <2>3. ASSUME NEW p \in Procs, SetOffset(p) PROVE offset'[f] >= offset[f]
    <3>1. /\ offset[cur[p]] = from[p] /\ from[p] <= newOffset[p]
          /\ newOffset[p] \in Nat
      BY <2>1, <2>3 DEF SetOffset, CursorHeld, TypeOK
    <3>2. QED
      BY <2>1, <2>3, <3>1 DEF SetOffset, TypeOK
  <2>4. QED
    BY <2>2, <2>3
    DEF Next, Collectors, Ingesters, PassStep, FileStep, vars, durable, BeginLine,
        EndLine, StartPass, ReadOffset, TailFile, InsertEvents, InsertOpaque,
        Quarantine, EndPass, StopPass
<1>4. QED
  BY <1>1, <1>2, <1>3, CursorInvariant, PTL DEF Spec, OffsetsNeverMoveBackwards
=============================================================================
