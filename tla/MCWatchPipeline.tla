--------------------------- MODULE MCWatchPipeline ---------------------------
(* Instances of WatchPipeline for TLC. *)
EXTENDS WatchPipeline

CONSTANTS s1, s2   \* sessions

\* Odd events are the first session's, even ones the second's.
BySession == [e \in Events |-> IF e % 2 = 1 THEN s1 ELSE s2]

\* The first session's session_meta declares zone 1, which sorts before the
\* default zone 2; the second session's declares none.
DeclaresFirst == [m \in Metas |-> IF m % 2 = 1 THEN 1 ELSE 0]
=============================================================================
