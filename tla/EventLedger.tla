----------------------------- MODULE EventLedger -----------------------------
(***************************************************************************)
(* What the ingest pipeline promises, with no files, cursors or passes in  *)
(* it: a fact that a collector published is recorded, a recorded fact was  *)
(* published and is never withdrawn, and however often a collector repeats *)
(* a fact the ledger holds it once.                                        *)
(***************************************************************************)
CONSTANT Events

VARIABLES published,   \* facts standing on some complete spool line, or once there
          ledger       \* facts in the store

ledgerVars == <<published, ledger>>

LedgerInit == published = {} /\ ledger = {}

Publish == /\ \E e \in Events : published' = published \cup {e}
           /\ UNCHANGED ledger

Record == /\ \E S \in SUBSET published : ledger' = ledger \cup S
          /\ UNCHANGED published

LedgerNext == Publish \/ Record

\* The safety half alone, and with the promise that recording happens.
LedgerSafe == LedgerInit /\ [][LedgerNext]_ledgerVars

EveryFactRecorded == \A e \in Events : e \in published ~> e \in ledger

LedgerSpec == LedgerSafe /\ EveryFactRecorded
=============================================================================
