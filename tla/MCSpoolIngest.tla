---------------------------- MODULE MCSpoolIngest ----------------------------
(* Instances of SpoolIngest for TLC. *)
EXTENDS SpoolIngest

CONSTANTS watch, report,    \* the resident process and a command run beside it
          e1, e2, o1, m1,   \* lines
          f1, f2            \* spool files

\* af watch is the one resident process; the liveness runs rest on it alone.
MCFairSpec == Spec /\ ResidentFairness(watch)
MCFairRecreateSpec == RecreateSpec /\ ResidentFairness(watch)

\* One file is long enough for a cursor to move twice.
LongAndShort == [f \in Files |-> IF f = f1 THEN 2 ELSE 1]
=============================================================================
