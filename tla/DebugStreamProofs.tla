-------------------------- MODULE DebugStreamProofs --------------------------
(***************************************************************************)
(* Theorems about DebugStream, for any streams, capacities and bounds.      *)
(***************************************************************************)
EXTENDS DebugStream, FiniteSetTheorems, SequenceTheorems, TLAPS

-----------------------------------------------------------------------------
(* Runs of frames *)

\* s is a run of consecutive numbers, the last of which comes just before n.
EndsAt(s, n) == \A k \in 1..Len(s) : s[k] = n - Len(s) + k - 1

LEMMA AppendRun ==
  ASSUME NEW n \in Nat, NEW s \in Seq(Int), EndsAt(s, n)
  PROVE  EndsAt(Append(s, n), n + 1)
<1>1. Len(Append(s, n)) = Len(s) + 1 /\ Len(s) \in Nat
  OBVIOUS
<1>2. \A k \in 1..(Len(s) + 1) : Append(s, n)[k] = IF k <= Len(s) THEN s[k] ELSE n
  OBVIOUS
<1>3. QED
  BY <1>1, <1>2 DEF EndsAt

LEMMA TailRun ==
  ASSUME NEW n \in Int, NEW s \in Seq(Int), s # <<>>, EndsAt(s, n)
  PROVE  Tail(s) \in Seq(Int) /\ EndsAt(Tail(s), n) /\ Head(s) = n - Len(s)
<1>1. Len(s) \in Nat \ {0} /\ Tail(s) \in Seq(Int) /\ Len(Tail(s)) = Len(s) - 1
  OBVIOUS
<1>2. \A k \in 1..(Len(s) - 1) : Tail(s)[k] = s[k + 1]
  OBVIOUS
<1>3. Head(s) = s[1]
  OBVIOUS
<1>4. QED
  BY <1>1, <1>2, <1>3 DEF EndsAt

-----------------------------------------------------------------------------
(* The ring *)

\* The ring is one run of frames that ends at the newest one.
RingIsRun == EndsAt(ring, nextSeq) /\ Len(ring) <= nextSeq /\ (nextSeq > 0 => ring # <<>>)

LEMMA PublishKeepsRing ==
  ASSUME ServerTypeOK, RingIsRun, Publish
  PROVE  RingIsRun'
<1>1. nextSeq \in Nat /\ nextSeq' = nextSeq + 1 /\ ring \in Seq(Int) /\ Len(ring) \in Nat
  BY CapacityAssumption DEF ServerTypeOK, Publish, Frames
<1>2. CASE Len(ring) < RingCapacity
  <2>1. ring' = Append(ring, nextSeq)
    BY <1>2 DEF Publish
  <2>2. Len(ring') = Len(ring) + 1 /\ ring' # <<>>
    BY <1>1, <2>1
  <2>3. EndsAt(ring', nextSeq')
    BY <1>1, <2>1, AppendRun DEF RingIsRun
  <2>4. QED
    BY <1>1, <2>2, <2>3 DEF RingIsRun
<1>3. CASE ~(Len(ring) < RingCapacity)
  <2>1. ring' = Append(Tail(ring), nextSeq)
    BY <1>3 DEF Publish
  <2>2. ring # <<>>
    BY <1>1, <1>3, CapacityAssumption
  <2>3. Tail(ring) \in Seq(Int) /\ EndsAt(Tail(ring), nextSeq)
    BY <1>1, <2>2, TailRun DEF RingIsRun
  <2>4. Len(ring') = Len(ring) /\ ring' # <<>>
    BY <1>1, <2>1, <2>2
  <2>5. EndsAt(ring', nextSeq')
    BY <1>1, <2>1, <2>3, AppendRun
  <2>6. QED
    BY <1>1, <2>4, <2>5 DEF RingIsRun
<1>4. QED
  BY <1>2, <1>3

\* What the ring holds past a cursor: nothing when the cursor is at the newest
\* frame or beyond, else the run from the frame after the cursor, or from the
\* ring's oldest, to the newest.
LEMMA AfterIsRun ==
  ASSUME ServerTypeOK, RingIsRun, NEW last \in Cursors
  PROVE  /\ After(last) \in Seq(Frames)
         /\ EndsAt(After(last), nextSeq)
         /\ After(last) = <<>> => last >= nextSeq - 1
         /\ Replayable(last) /\ After(last) # <<>> => Head(After(last)) = last + 1
<1>1. /\ nextSeq \in Nat /\ ring \in Seq(Frames)
      /\ Len(ring) \in Nat /\ DOMAIN ring = 1..Len(ring)
  BY CapacityAssumption DEF ServerTypeOK
<1>2. last \in Int /\ last >= -1
  BY CapacityAssumption DEF Cursors, EmptyCursor
<1>3. PICK len \in Nat, first \in Nat : len = Len(ring) /\ nextSeq = first + len
  <2>1. nextSeq - Len(ring) \in Nat /\ nextSeq = (nextSeq - Len(ring)) + Len(ring)
    BY <1>1 DEF RingIsRun
  <2>2. QED
    BY <1>1, <2>1
<1>4. /\ \A k \in 1..len : ring[k] = first + k - 1
      /\ nextSeq > 0 => len > 0
      /\ nextSeq \in Nat
  BY <1>1, <1>3 DEF RingIsRun, EndsAt
<1>5. PICK n \in 0..len :
        n = IF last < first THEN 0
            ELSE IF last >= nextSeq THEN len ELSE last - first + 1
  <2> DEFINE m == IF last < first THEN 0
                  ELSE IF last >= nextSeq THEN len ELSE last - first + 1
  <2>1. m \in 0..len
    BY <1>2, <1>1, <1>3
  <2>2. QED
    BY <2>1
<1>6. /\ n = len => last >= nextSeq - 1
      /\ n < len /\ last + 1 >= first => n = last - first + 1
      /\ n < len \/ n = len
      /\ n \in Nat /\ len - n \in Nat /\ (len - n = 0 => n = len)
  <2>1. n \in Nat /\ n <= len
    BY <1>5
  <2>2. nextSeq = first + len /\ nextSeq \in Nat /\ (nextSeq > 0 => len > 0)
    BY <1>3, <1>4
  <2>3. QED
    BY <1>2, <1>5, <2>1, <2>2
<1>7. Cardinality({k \in DOMAIN ring : ring[k] <= last}) = n
  <2>1. \A k \in 1..len : first + k - 1 <= last <=> k <= n
    BY <1>2, <1>3, <1>5
  <2>2. \A k \in 1..len : ring[k] <= last <=> k <= n
    BY <1>4, <2>1
  <2>3. 1..n \subseteq 1..len /\ \A k \in 1..len : k <= n <=> k \in 1..n
    BY <1>6
  <2>4. DOMAIN ring = 1..len
    BY <1>1, <1>3
  <2>5. {k \in DOMAIN ring : ring[k] <= last} = 1..n
    BY <2>2, <2>3, <2>4
  <2>6. Cardinality(1..n) = n
    BY <1>6, FS_Interval
  <2>7. QED
    BY <2>5, <2>6
<1>8. After(last) = SubSeq(ring, n + 1, len)
  BY <1>3, <1>7 DEF After
<1>9. PICK past \in Seq(Frames) :
        /\ past = After(last) /\ Len(past) = len - n
        /\ \A k \in 1..(len - n) : past[k] = first + n + k - 1
  <2>1. \A k \in (n + 1)..len : ring[k] \in Frames
    <3>1. \A k \in 1..len : ring[k] \in Frames
      BY <1>1, <1>3
    <3>2. (n + 1)..len \subseteq 1..len
      BY <1>6
    <3>3. QED
      BY <3>1, <3>2
  <2>2. n + 1 \in Int /\ len \in Int
    BY <1>3, <1>5
  <2>3. /\ SubSeq(ring, n + 1, len) \in Seq(Frames)
        /\ Len(SubSeq(ring, n + 1, len)) = IF n + 1 <= len THEN len - (n + 1) + 1 ELSE 0
        /\ \A k \in 1..(len - (n + 1) + 1) : SubSeq(ring, n + 1, len)[k] = ring[n + 1 + k - 1]
    BY <2>1, <2>2, SubSeqProperties
  <2>4. Len(SubSeq(ring, n + 1, len)) = len - n
    BY <1>6, <2>3
  <2>5. ASSUME NEW k \in 1..(len - n)
        PROVE  SubSeq(ring, n + 1, len)[k] = first + n + k - 1
    <3>1. n + k \in 1..len /\ n + 1 + k - 1 = n + k /\ k \in 1..(len - (n + 1) + 1)
      BY <1>3, <1>5
    <3>2. ring[n + k] = first + (n + k) - 1
      BY <1>4, <3>1
    <3>3. first + (n + k) - 1 = first + n + k - 1
      BY <1>3, <1>5
    <3>4. QED
      BY <2>3, <3>1, <3>2, <3>3
  <2>6. QED
    BY <1>8, <2>3, <2>4, <2>5
<1>10. EndsAt(past, nextSeq)
  <2>1. \A k \in 1..(len - n) : nextSeq - (len - n) + k - 1 = first + n + k - 1
    BY <1>3, <1>6
  <2>2. QED
    BY <1>9, <2>1 DEF EndsAt
<1>11. ASSUME past = <<>> PROVE last >= nextSeq - 1
  <2>1. len = n
    <3>1. Len(past) = 0
      BY <1>11
    <3>2. QED
      BY <1>9, <1>6, <3>1
  <2>2. QED
    BY <1>6, <2>1
<1>12. ASSUME Replayable(last), past # <<>>
       PROVE  Head(past) = last + 1
  <2>1. Len(past) > 0 /\ Head(past) = past[1]
    BY <1>12
  <2>2. n < len
    BY <1>9, <1>6, <2>1
  <2>3. ring # <<>> /\ Head(ring) = ring[1]
    <3>1. Len(ring) # 0
      BY <1>3, <1>5, <2>2
    <3>2. ring # <<>>
      BY <3>1
    <3>3. QED
      BY <1>1, <3>2
  <2>4. Head(ring) = first
    <3>1. 1 \in 1..len
      BY <1>3, <1>5, <2>2
    <3>2. ring[1] = first + 1 - 1
      BY <1>4, <3>1
    <3>3. QED
      BY <1>3, <2>3, <3>2
  <2>5. last + 1 >= first
    BY <1>12, <2>3, <2>4 DEF Replayable
  <2>6. n = last - first + 1
    BY <1>6, <2>2, <2>5
  <2>7. past[1] = first + n
    <3>1. 1 \in 1..(len - n)
      BY <1>3, <1>5, <2>2
    <3>2. past[1] = first + n + 1 - 1
      BY <1>9, <3>1
    <3>3. QED
      BY <1>3, <1>5, <3>2
  <2>8. QED
    BY <1>2, <1>3, <2>1, <2>6, <2>7
<1>13. QED
  BY <1>9, <1>10, <1>11, <1>12

-----------------------------------------------------------------------------
(* What a connection is owed *)

LEMMA ConcatTail ==
  ASSUME NEW S, NEW r \in Seq(S), NEW q \in Seq(S), r # <<>>
  PROVE  /\ r \o q # <<>>
         /\ Head(r \o q) = Head(r)
         /\ Tail(r) \o q = Tail(r \o q)
<1>1. /\ Len(r) \in Nat \ {0} /\ Len(q) \in Nat
      /\ r \o q \in Seq(S) /\ Len(r \o q) = Len(r) + Len(q)
      /\ \A i \in 1..(Len(r) + Len(q)) :
           (r \o q)[i] = IF i <= Len(r) THEN r[i] ELSE q[i - Len(r)]
  BY EmptySeq, LenProperties, ConcatProperties
<1>2. r \o q # <<>>
  BY <1>1, EmptySeq
<1>3. Head(r \o q) = Head(r)
  <2>1. (r \o q)[1] = r[1]
    BY <1>1
  <2>2. QED
    BY <1>1, <1>2, <2>1
<1>4. /\ Tail(r) \in Seq(S) /\ Len(Tail(r)) = Len(r) - 1
      /\ \A i \in 1..Len(Tail(r)) : Tail(r)[i] = r[i + 1]
  BY HeadTailProperties
<1>5. /\ Tail(r \o q) \in Seq(S) /\ Len(Tail(r \o q)) = Len(r) + Len(q) - 1
      /\ \A i \in 1..Len(Tail(r \o q)) : Tail(r \o q)[i] = (r \o q)[i + 1]
  BY <1>1, <1>2, HeadTailProperties
<1>6. /\ Tail(r) \o q \in Seq(S) /\ Len(Tail(r) \o q) = Len(r) - 1 + Len(q)
      /\ \A i \in 1..(Len(r) - 1 + Len(q)) :
           (Tail(r) \o q)[i] = IF i <= Len(r) - 1 THEN Tail(r)[i] ELSE q[i - (Len(r) - 1)]
  BY <1>4, ConcatProperties
<1>7. Len(Tail(r) \o q) = Len(Tail(r \o q))
  BY <1>1, <1>5, <1>6
<1>8. ASSUME NEW i \in 1..Len(Tail(r) \o q)
      PROVE  (Tail(r) \o q)[i] = Tail(r \o q)[i]
  <2>1. Tail(r \o q)[i] = IF i + 1 <= Len(r) THEN r[i + 1] ELSE q[i + 1 - Len(r)]
    BY <1>1, <1>5, <1>7
  <2>2. CASE i <= Len(r) - 1
    BY <1>1, <1>4, <1>6, <2>1, <2>2
  <2>3. CASE ~(i <= Len(r) - 1)
    <3>1. i - (Len(r) - 1) = i + 1 - Len(r) /\ ~(i + 1 <= Len(r))
      BY <1>1, <2>3
    <3>2. QED
      BY <1>6, <2>1, <2>3, <3>1
  <2>4. QED
    BY <2>2, <2>3
<1>9. QED
  BY <1>2, <1>3, <1>5, <1>6, <1>7, <1>8, SeqEqual

LEMMA ConcatAppend ==
  ASSUME NEW S, NEW r \in Seq(S), NEW q \in Seq(S), NEW e \in S
  PROVE  r \o Append(q, e) = Append(r \o q, e)
<1>1. r \o q \in Seq(S) /\ <<e>> \in Seq(S)
  BY ConcatProperties
<1>2. Append(q, e) = q \o <<e>> /\ Append(r \o q, e) = (r \o q) \o <<e>>
  BY <1>1, AppendIsConcat
<1>3. QED
  BY <1>1, <1>2, ConcatAssociative

LEMMA OwedType ==
  ASSUME ServerTypeOK, NEW i \in Streams
  PROVE  /\ Owed(i) \in Seq(Frames) /\ Owed(i) \in Seq(Int)
         /\ Owed(i) # <<>> => Head(Owed(i)) \in Frames
<1>1. replay[i] \in Seq(Frames) /\ queue[i] \in Seq(Frames) /\ Frames \subseteq Int
  BY DEF ServerTypeOK, Frames
<1>2. Owed(i) \in Seq(Frames)
  BY <1>1, ConcatProperties DEF Owed
<1>3. Owed(i) \in Seq(Int)
  <2>1. PICK n \in Nat : Owed(i) \in [1..n -> Frames]
    BY <1>2, SeqDef
  <2>2. Owed(i) \in [1..n -> Int]
    BY <1>1, <2>1
  <2>3. QED
    BY <2>2, SeqDef
<1>4. QED
  BY <1>2, <1>3, HeadTailProperties

\* A stream is written the first frame it is owed, and nobody else anything.
LEMMA WriteNextTakesHead ==
  ASSUME ServerTypeOK, NEW i \in Streams, WriteNext(i)
  PROVE  /\ Owed(i) # <<>>
         /\ Owed(i)' = Tail(Owed(i))
         /\ \A j \in Streams : j # i => Owed(j)' = Owed(j)
<1>1. /\ replay \in [Streams -> Seq(Frames)] /\ queue \in [Streams -> Seq(Frames)]
      /\ replay[i] \in Seq(Frames) /\ queue[i] \in Seq(Frames)
  BY DEF ServerTypeOK
<1>2. CASE replay[i] # <<>> /\ replay' = [replay EXCEPT ![i] = Tail(@)] /\ queue' = queue
  BY <1>1, <1>2, ConcatTail DEF Owed
<1>3. CASE /\ replay[i] = <<>> /\ queue[i] # <<>>
           /\ queue' = [queue EXCEPT ![i] = Tail(@)] /\ replay' = replay
  <2>1. Tail(queue[i]) \in Seq(Frames)
    BY <1>1, <1>3, HeadTailProperties
  <2>2. Owed(i) = queue[i] /\ Owed(i)' = Tail(queue[i])
    BY <1>1, <1>3, <2>1, ConcatEmptySeq DEF Owed
  <2>3. QED
    BY <1>1, <1>3, <2>2 DEF Owed
<1>4. QED
  BY <1>2, <1>3 DEF WriteNext

\* A frame is appended to what every sender that is kept is owed.
LEMMA PublishExtends ==
  ASSUME ServerTypeOK, Publish
  PROVE  /\ nextSeq \in Frames /\ nextSeq' = nextSeq + 1
         /\ senders' \subseteq senders
         /\ \A i \in Streams :
              Owed(i)' = IF i \in senders' THEN Append(Owed(i), nextSeq) ELSE Owed(i)
<1>1. nextSeq \in Frames /\ nextSeq' = nextSeq + 1 /\ senders' \subseteq senders
  BY CapacityAssumption DEF ServerTypeOK, Publish, Frames
<1>2. ASSUME NEW i \in Streams
      PROVE  Owed(i)' = IF i \in senders' THEN Append(Owed(i), nextSeq) ELSE Owed(i)
  <2>1. /\ replay' = replay
        /\ queue'[i] = IF i \in senders' THEN Append(queue[i], nextSeq) ELSE queue[i]
    BY DEF Publish
  <2>2. replay[i] \in Seq(Frames) /\ queue[i] \in Seq(Frames)
    BY DEF ServerTypeOK
  <2>3. replay[i] \o Append(queue[i], nextSeq) = Append(replay[i] \o queue[i], nextSeq)
    <3>1. \A r, q \in Seq(Frames), e \in Frames :
            r \o Append(q, e) = Append(r \o q, e)
      BY ConcatAppend
    <3>2. QED
      BY <1>1, <2>2, <3>1
  <2>4. QED
    BY <2>1, <2>3 DEF Owed
<1>3. QED
  BY <1>1, <1>2

\* A new subscriber is owed its replay, and its channel is empty.
LEMMA SubscribeOwes ==
  ASSUME ServerTypeOK, RingIsRun, NEW i \in Streams, NEW last \in Cursors, Subscribe(i, last)
  PROVE  /\ Owed(i)' \in Seq(Frames)
         /\ EndsAt(Owed(i)', nextSeq)
         /\ i \notin resets' /\ Owed(i)' # <<>> => Head(Owed(i)') = last + 1
         /\ i \notin resets' /\ Owed(i)' = <<>> => last >= nextSeq - 1
         /\ \A j \in Streams : j # i => Owed(j)' = Owed(j)
<1>1. replay \in [Streams -> Seq(Frames)] /\ queue \in [Streams -> Seq(Frames)]
  BY DEF ServerTypeOK
<1>2. queue' = [queue EXCEPT ![i] = <<>>]
  BY DEF Subscribe
<1>3. CASE /\ Replayable(last)
           /\ replay' = [replay EXCEPT ![i] = After(last)]
  <2>1. After(last) \in Seq(Frames)
    BY AfterIsRun
  <2>2. Owed(i)' = After(last)
    BY <1>1, <1>2, <1>3, <2>1, ConcatEmptySeq DEF Owed
  <2>3. \A j \in Streams : j # i => Owed(j)' = Owed(j)
    BY <1>1, <1>2, <1>3 DEF Owed
  <2>4. QED
    BY <1>3, <2>2, <2>3, AfterIsRun
<1>4. CASE replay' = [replay EXCEPT ![i] = <<>>] /\ resets' = resets \cup {i}
  <2>1. Owed(i)' = <<>> \o <<>>
    BY <1>1, <1>2, <1>4 DEF Owed
  <2>2. Owed(i)' = <<>>
    BY <2>1, EmptySeq, ConcatEmptySeq
  <2>3. \A j \in Streams : j # i => Owed(j)' = Owed(j)
    BY <1>1, <1>2, <1>4 DEF Owed
  <2>4. <<>> \in Seq(Frames) /\ EndsAt(<<>>, nextSeq)
    BY DEF EndsAt
  <2>5. QED
    BY <1>4, <2>2, <2>3, <2>4
<1>5. QED
  BY <1>3, <1>4 DEF Subscribe

-----------------------------------------------------------------------------
(* Type correctness *)

USE DEF ServerTypeOK

LEMMA ServerTypeKept ==
  ASSUME ServerTypeOK
  PROVE  /\ Publish => ServerTypeOK'
         /\ \A i \in Streams, last \in Cursors :
              RingIsRun /\ Subscribe(i, last) => ServerTypeOK'
         /\ \A i \in Streams : WriteNext(i) => ServerTypeOK'
         /\ \A gone : HangUp(gone) => ServerTypeOK'
         /\ ServerRestart => ServerTypeOK'
<1>1. ASSUME Publish PROVE ServerTypeOK'
  <2>1. nextSeq \in Frames /\ nextSeq' \in 0..MaxFrames
    BY <1>1, CapacityAssumption DEF Publish, Frames
  <2>2. ring' \in Seq(Frames)
    <3>1. Append(ring, nextSeq) \in Seq(Frames)
      BY <2>1
    <3>2. ASSUME ~(Len(ring) < RingCapacity) PROVE Append(Tail(ring), nextSeq) \in Seq(Frames)
      <4>1. ring # <<>>
        BY <3>2, CapacityAssumption
      <4>2. Tail(ring) \in Seq(Frames)
        BY <4>1, HeadTailProperties
      <4>3. QED
        BY <2>1, <4>2
    <3>3. QED
      BY <1>1, <3>1, <3>2 DEF Publish
  <2>3. queue' \in [Streams -> Seq(Frames)]
    <3>1. \A i \in Streams : queue[i] \in Seq(Frames) /\ Append(queue[i], nextSeq) \in Seq(Frames)
      BY <2>1
    <3>2. QED
      BY <1>1, <3>1 DEF Publish
  <2>4. QED
    BY <1>1, <2>1, <2>2, <2>3 DEF Publish
<1>2. ASSUME NEW i \in Streams, NEW last \in Cursors, RingIsRun, Subscribe(i, last)
      PROVE  ServerTypeOK'
  <2>1. After(last) \in Seq(Frames) /\ <<>> \in Seq(Frames)
    BY <1>2, AfterIsRun
  <2>2. QED
    BY <1>2, <2>1 DEF Subscribe
<1>3. ASSUME NEW i \in Streams, WriteNext(i) PROVE ServerTypeOK'
  <2>1. \A s \in Seq(Frames) : s # <<>> => Tail(s) \in Seq(Frames)
    BY HeadTailProperties
  <2>2. QED
    BY <1>3, <2>1, ZenonT(30) DEF WriteNext
<1>4. ASSUME NEW gone, HangUp(gone) PROVE ServerTypeOK'
  <2>1. <<>> \in Seq(Frames)
    OBVIOUS
  <2>2. QED
    BY <1>4, <2>1 DEF HangUp
<1>5. ASSUME ServerRestart PROVE ServerTypeOK'
  <2>1. <<>> \in Seq(Frames) /\ 0 \in 0..MaxFrames
    BY CapacityAssumption
  <2>2. QED
    BY <1>5, <2>1 DEF ServerRestart
<1>6. QED
  BY <1>1, <1>2, <1>3, <1>4, <1>5

\* The part of TypeOK that OpenStream and Rebootstrap assign.
ClientTypeOK ==
  /\ es \in Streams \cup {0}
  /\ st \in [Streams -> {"free", "connecting", "open", "closed"}]
  /\ cursor \in [Streams -> Cursors]
  /\ told \subseteq Streams

LEMMA OpenStreamType ==
  ASSUME TypeOK, NEW streams \in [Streams -> {"free", "connecting", "open", "closed"}],
         NEW from \in Cursors, OpenStream(streams, from)
  PROVE  ClientTypeOK'
<1>1. PICK i \in Streams :
        /\ st' = [streams EXCEPT ![i] = "connecting"]
        /\ cursor' = [j \in Streams |-> IF j = i THEN from ELSE CursorIn(streams, j)]
        /\ told' = told \cap Alive(streams)
        /\ es' = i
  BY DEF OpenStream, Least
<1>2. \A j \in Streams : CursorIn(streams, j) \in Cursors
  BY CapacityAssumption, SMTT(30) DEF TypeOK, CursorIn, Cursors, EmptyCursor
<1>3. QED
  BY <1>1, <1>2 DEF TypeOK, ClientTypeOK

LEMMA RebootstrapType ==
  ASSUME TypeOK, Rebootstrap
  PROVE  /\ ClientTypeOK'
         /\ fetch' \in [Fetches -> [phase : {"idle", "asked", "broken", "answered", "outdated"},
                                    asOf : Cursors]]
<1>1. \A j \in Streams : CursorIn(WithoutCurrent, j) \in Cursors
  BY CapacityAssumption DEF TypeOK, CursorIn, Cursors, EmptyCursor
<1>2. PICK f \in Fetches : fetch' = [fetch EXCEPT ![f].phase = "asked"]
  BY DEF Rebootstrap, Least
<1>3. ClientTypeOK'
  BY <1>1 DEF TypeOK, ClientTypeOK, Rebootstrap, WithoutCurrent
<1>4. QED
  BY <1>2, <1>3 DEF TypeOK

LEMMA TypeInit == Init => TypeOK
<1> SUFFICES ASSUME Init PROVE TypeOK
  OBVIOUS
<1>1. 0 \in Cursors /\ EmptyCursor \in Cursors /\ <<>> \in Seq(Frames)
  BY CapacityAssumption DEF Cursors, EmptyCursor
<1>2. ServerTypeOK
  BY <1>1, CapacityAssumption DEF Init, ServerInit
<1>3. fetch \in [Fetches -> [phase : {"idle", "asked", "broken", "answered", "outdated"},
                             asOf : Cursors]]
  BY <1>1 DEF Init, NoFetch, Least
<1>4. ClientTypeOK /\ timer = "none"
  BY <1>1 DEF Init, ClientTypeOK
<1>5. 0 \in 0..MaxLosses /\ 0 \in 0..MaxFails /\ 0 \in 0..MaxRestarts
  BY BoundsAssumption
<1>6. lastSeq \in Cursors /\ carried \in Cursors /\ heard \subseteq Frames /\ mixed \in BOOLEAN
  BY <1>1 DEF Init
<1>7. losses \in 0..MaxLosses /\ fails \in 0..MaxFails /\ restarts \in 0..MaxRestarts
  BY <1>5 DEF Init
<1>8. QED
  BY <1>2, <1>3, <1>4, <1>6, <1>7 DEF TypeOK, ClientTypeOK

LEMMA TypeStep ==
  ASSUME TypeOK, RingIsRun, [Next]_vars
  PROVE  TypeOK'
<1> USE ServerTypeKept
<1>0. EmptyCursor \in Cursors /\ Frames \subseteq Cursors /\ NoFetch.asOf \in Cursors
  BY CapacityAssumption DEF Cursors, EmptyCursor, Frames, NoFetch
<1>1. CASE ServerPublishes
  BY <1>1 DEF ServerPublishes, TypeOK, client, bounds
<1>2. CASE Restart
  <2>1. carried' \in Cursors
    <3>1. Held \subseteq Cursors
      BY DEF Held, Alive, TypeOK
    <3>2. carried' \in Held
      BY <1>2 DEF Restart
    <3>3. QED
      BY <3>1, <3>2
  <2>2. fetch' \in [Fetches -> [phase : {"idle", "asked", "broken", "answered", "outdated"},
                                asOf : Cursors]]
    BY <1>2, ZenonT(30) DEF Restart, TypeOK
  <2>3. restarts' \in 0..MaxRestarts
    BY <1>2, BoundsAssumption, SMTT(30) DEF Restart, TypeOK
  <2>4. QED
    BY <1>2, <2>1, <2>2, <2>3 DEF Restart, TypeOK
<1>3. CASE TimerFires
  <2>1. ServerTypeOK'
    BY <1>3 DEF TimerFires, TypeOK
  <2>2. CASE timer = "resubscribe"
    <3>1. OpenStream(WithoutCurrent, lastSeq) /\ fetch' = fetch
      BY <1>3, <2>2 DEF TimerFires
    <3>2. WithoutCurrent \in [Streams -> {"free", "connecting", "open", "closed"}]
      BY DEF TypeOK, WithoutCurrent
    <3>3. ClientTypeOK'
      BY <3>1, <3>2, OpenStreamType DEF TypeOK
    <3>4. QED
      BY <1>3, <2>1, <3>1, <3>3 DEF TimerFires, TypeOK, ClientTypeOK, NoteMixing, bounds
  <2>3. CASE timer # "resubscribe"
    <3>1. Rebootstrap
      BY <1>3, <2>3 DEF TimerFires
    <3>2. QED
      BY <1>3, <2>1, <3>1, RebootstrapType
         DEF TimerFires, TypeOK, ClientTypeOK, NoteMixing, bounds
  <2>4. QED
    BY <2>2, <2>3
<1>4. ASSUME NEW f \in Fetches, Answer(f) PROVE TypeOK'
  <2>1. AsOfSeq \in Cursors
    BY CapacityAssumption DEF AsOfSeq, Cursors, EmptyCursor, TypeOK
  <2>2. QED
    BY <1>4, <2>1 DEF Answer, TypeOK, server, bounds
<1>5. ASSUME NEW f \in Fetches, Ingest(f) PROVE TypeOK'
  <2>1. ClientTypeOK'
    BY <1>5, OpenStreamType DEF Ingest, TypeOK
  <2>2. heard' \subseteq Frames
    <3>1. fetch[f].asOf \in Cursors
      BY DEF TypeOK
    <3>2. 0..fetch[f].asOf \subseteq Frames
      BY <3>1, CapacityAssumption DEF Cursors, EmptyCursor, Frames
    <3>3. QED
      BY <1>5, <3>2 DEF Ingest, TypeOK
  <2>3. QED
    BY <1>0, <1>5, <2>1, <2>2 DEF Ingest, TypeOK, ClientTypeOK, NoFetch, NoteMixing, server, bounds
<1>6. ASSUME NEW f \in Fetches, FetchFails(f) PROVE TypeOK'
  BY <1>0, <1>6, BoundsAssumption DEF FetchFails, ScheduleRetry, TypeOK, NoFetch, server
<1>7. ASSUME NEW i \in Streams, Connect(i) PROVE TypeOK'
  <2>1. cursor[i] \in Cursors
    BY DEF TypeOK
  <2>2. ServerTypeOK'
    BY <1>7, <2>1 DEF Connect, TypeOK
  <2>3. QED
    BY <1>7, <2>2 DEF Connect, TypeOK, bounds
<1>8. ASSUME NEW i \in Streams, Refused(i) PROVE TypeOK'
  BY <1>8, BoundsAssumption DEF Refused, ScheduleRetry, TypeOK, server
<1>9. ASSUME NEW i \in Streams, HandleFrame(i) PROVE TypeOK'
  <2>1. Head(Owed(i)) \in Frames
    BY <1>9, WriteNextTakesHead, OwedType DEF HandleFrame, TypeOK
  <2>2. ServerTypeOK'
    BY <1>9 DEF HandleFrame, TypeOK
  <2>3. QED
    BY <1>0, <1>9, <2>1, <2>2 DEF HandleFrame, TypeOK, bounds
<1>10. ASSUME NEW i \in Streams, HandleReset(i) PROVE TypeOK'
  <2>1. ServerTypeOK'
    <3>1. CASE HangUp({i})
      BY <3>1 DEF TypeOK
    <3>2. CASE ~HangUp({i})
      <4>1. <<>> \in Seq(Frames)
        OBVIOUS
      <4>2. QED
        BY <1>10, <3>2, <4>1, ZenonT(30) DEF HandleReset, TypeOK
    <3>3. QED
      BY <3>1, <3>2
  <2>2. Rebootstrap
    BY <1>10 DEF HandleReset
  <2>3. QED
    BY <1>10, <2>1, <2>2, RebootstrapType
       DEF HandleReset, TypeOK, ClientTypeOK, NoteMixing, bounds
<1>11. ASSUME NEW i \in Streams, Lose(i) PROVE TypeOK'
  BY <1>11, BoundsAssumption DEF Lose, ScheduleRetry, TypeOK
<1>12. ASSUME NEW i \in Streams, EndOfStream(i) PROVE TypeOK'
  BY <1>12 DEF EndOfStream, ScheduleRetry, TypeOK, server, bounds
<1>13. CASE UNCHANGED vars
  BY <1>13 DEF vars, server, client, bounds, TypeOK
<1>14. QED
  BY <1>1, <1>2, <1>3, <1>4, <1>5, <1>6, <1>7, <1>8, <1>9, <1>10, <1>11, <1>12, <1>13
     DEF Next

-----------------------------------------------------------------------------
(* The inductive invariant *)

\* What a connection is owed is a run, which for a sender ends at the newest frame.
OwedIsRun ==
  \A i \in Streams : \E n \in 0..nextSeq : EndsAt(Owed(i), n) /\ (i \in senders => n = nextSeq)

\* Only an open stream has a connection.
UnlessOpen ==
  \A i \in Streams : st[i] # "open" =>
    i \notin senders /\ i \notin resets /\ replay[i] = <<>> /\ queue[i] = <<>>

\* A frame of this server, or nothing above what was kept from a former one.
Known(n) == n < nextSeq \/ n <= carried

CursorsKnown ==
  /\ \A i \in Streams : st[i] # "free" => Known(cursor[i])
  /\ \A f \in Fetches : Known(fetch[f].asOf)
  /\ timer = "resubscribe" \/ Alive(st) # {} => Known(lastSeq)

\* What the current stream is owed goes on where it stopped.
GoesOn ==
  es # 0 /\ es \notin resets =>
    /\ Owed(es) # <<>> => Head(Owed(es)) \in {cursor[es] + 1} \cup 0..carried
    /\ es \in senders /\ Owed(es) = <<>> => cursor[es] >= nextSeq - 1

IInv == TypeOK /\ RingIsRun /\ OwedIsRun /\ UnlessOpen /\ CursorsKnown /\ GoesOn

\* What the steps that close a stream have in common.
Cut(gone) ==
  /\ senders' = senders \ gone
  /\ resets' \subseteq resets \ gone
  /\ replay' = [i \in Streams |-> IF i \in gone THEN <<>> ELSE replay[i]]
  /\ queue' = [i \in Streams |-> IF i \in gone THEN <<>> ELSE queue[i]]
  /\ UNCHANGED <<nextSeq, ring>>

LEMMA Cuts ==
  /\ TimerFires => Cut({es}) /\ resets' = resets \ {es}
  /\ \A i \in Streams : HandleReset(i) => Cut({es}) /\ resets' = resets \ {i, es}
  /\ \A i \in Streams : Lose(i) => Cut({i}) /\ resets' = resets \ {i}
<1>1. \A gone : HangUp(gone) => Cut(gone) /\ resets' = resets \ gone
  BY DEF HangUp, Cut
<1>2. TimerFires => Cut({es}) /\ resets' = resets \ {es}
  BY <1>1 DEF TimerFires
<1>3. ASSUME NEW i \in Streams, HandleReset(i)
      PROVE  Cut({es}) /\ resets' = resets \ {i, es}
  <2>1. CASE i = es /\ HangUp({i})
    BY <1>1, <2>1
  <2>2. CASE i # es
    BY <1>3, <2>2 DEF HandleReset, Cut
  <2>3. QED
    BY <1>3, <2>1, <2>2 DEF HandleReset
<1>4. \A i \in Streams : Lose(i) => Cut({i}) /\ resets' = resets \ {i}
  BY <1>1 DEF Lose
<1>5. QED
  BY <1>2, <1>3, <1>4

LEMMA CutOwes ==
  ASSUME ServerTypeOK, NEW gone, Cut(gone), NEW i \in Streams
  PROVE  Owed(i)' = IF i \in gone THEN <<>> ELSE Owed(i)
<1>1. <<>> \o <<>> = <<>>
  BY EmptySeq, ConcatEmptySeq
<1>2. QED
  BY <1>1 DEF Cut, Owed

LEMMA RunsStep ==
  ASSUME IInv, [Next]_vars
  PROVE  RingIsRun' /\ OwedIsRun'
<1> USE DEF IInv
<1>0. TypeOK /\ ServerTypeOK /\ nextSeq \in Nat /\ EndsAt(<<>>, 0)
  BY CapacityAssumption DEF TypeOK, EndsAt
<1>1. ASSUME UNCHANGED server PROVE RingIsRun' /\ OwedIsRun'
  BY <1>1 DEF server, RingIsRun, OwedIsRun, Owed
<1>2. ASSUME NEW gone, Cut(gone) PROVE RingIsRun' /\ OwedIsRun'
  <2>1. RingIsRun' /\ nextSeq' = nextSeq
    BY <1>2 DEF Cut, RingIsRun
  <2>2. ASSUME NEW i \in Streams
        PROVE  \E n \in 0..nextSeq : EndsAt(Owed(i)', n) /\ (i \in senders' => n = nextSeq)
    <3>1. Owed(i)' = IF i \in gone THEN <<>> ELSE Owed(i)
      BY <1>0, <1>2, CutOwes
    <3>2. senders' = senders \ gone
      BY <1>2 DEF Cut
    <3>3. CASE i \in gone
      <4>1. 0 \in 0..nextSeq
        BY <1>0
      <4>2. QED
        BY <1>0, <3>1, <3>2, <3>3, <4>1
    <3>4. CASE i \notin gone
      BY <3>1, <3>2, <3>4 DEF OwedIsRun
    <3>5. QED
      BY <3>3, <3>4
  <2>3. QED
    BY <2>1, <2>2 DEF OwedIsRun
<1>3. CASE ServerPublishes
  <2>1. Publish /\ RingIsRun'
    BY <1>0, <1>3, PublishKeepsRing DEF ServerPublishes
  <2>2. ASSUME NEW i \in Streams
        PROVE  \E n \in 0..nextSeq' : EndsAt(Owed(i)', n) /\ (i \in senders' => n = nextSeq')
    <3>1. PICK n \in 0..nextSeq : EndsAt(Owed(i), n) /\ (i \in senders => n = nextSeq)
      BY DEF OwedIsRun
    <3>2. /\ nextSeq' = nextSeq + 1 /\ senders' \subseteq senders
          /\ Owed(i)' = IF i \in senders' THEN Append(Owed(i), nextSeq) ELSE Owed(i)
      BY <1>0, <2>1, PublishExtends
    <3>3. CASE i \in senders'
      <4>1. n = nextSeq /\ Owed(i)' = Append(Owed(i), nextSeq)
        BY <3>1, <3>2, <3>3
      <4>2. EndsAt(Owed(i)', nextSeq')
        BY <1>0, <3>1, <3>2, <4>1, AppendRun, OwedType
      <4>3. nextSeq' \in 0..nextSeq'
        BY <1>0, <3>2
      <4>4. QED
        BY <4>2, <4>3
    <3>4. CASE i \notin senders'
      <4>1. n \in 0..nextSeq'
        BY <1>0, <3>2
      <4>2. QED
        BY <3>1, <3>2, <3>4, <4>1
    <3>5. QED
      BY <3>3, <3>4
  <2>3. QED
    BY <2>1, <2>2 DEF OwedIsRun
<1>4. CASE Restart
  <2>1. nextSeq' = 0 /\ RingIsRun'
    BY <1>4 DEF Restart, ServerRestart, RingIsRun, EndsAt
  <2>2. \A i \in Streams : Owed(i)' = <<>> /\ i \notin senders'
    <3>1. <<>> \o <<>> = <<>>
      BY EmptySeq, ConcatEmptySeq
    <3>2. QED
      BY <1>4, <3>1 DEF Restart, ServerRestart, Owed
  <2>3. QED
    BY <1>0, <2>1, <2>2 DEF OwedIsRun
<1>5. CASE TimerFires
  BY <1>2, <1>5, Cuts
<1>6. ASSUME NEW f \in Fetches, Answer(f) \/ Ingest(f) \/ FetchFails(f)
      PROVE  RingIsRun' /\ OwedIsRun'
  BY <1>1, <1>6 DEF Answer, Ingest, FetchFails
<1>7. ASSUME NEW i \in Streams, Connect(i) PROVE RingIsRun' /\ OwedIsRun'
  <2>1. cursor[i] \in Cursors /\ Subscribe(i, cursor[i])
    BY <1>7 DEF Connect, TypeOK
  <2>2. RingIsRun' /\ nextSeq' = nextSeq /\ senders' = senders \cup {i}
    BY <2>1 DEF Subscribe, RingIsRun
  <2>3. EndsAt(Owed(i)', nextSeq) /\ \A j \in Streams : j # i => Owed(j)' = Owed(j)
    BY <1>0, <2>1, SubscribeOwes
  <2>4. ASSUME NEW j \in Streams
        PROVE  \E n \in 0..nextSeq : EndsAt(Owed(j)', n) /\ (j \in senders' => n = nextSeq)
    <3>1. CASE j = i
      <4>1. nextSeq \in 0..nextSeq
        BY <1>0
      <4>2. QED
        BY <2>3, <3>1, <4>1
    <3>2. CASE j # i
      BY <2>2, <2>3, <3>2 DEF OwedIsRun
    <3>3. QED
      BY <3>1, <3>2
  <2>5. QED
    BY <2>2, <2>4 DEF OwedIsRun
<1>8. ASSUME NEW i \in Streams, HandleFrame(i) PROVE RingIsRun' /\ OwedIsRun'
  <2>1. WriteNext(i)
    BY <1>8 DEF HandleFrame
  <2>2. RingIsRun' /\ nextSeq' = nextSeq /\ senders' = senders
    BY <2>1 DEF WriteNext, RingIsRun
  <2>3. /\ Owed(i) # <<>> /\ Owed(i)' = Tail(Owed(i))
        /\ \A j \in Streams : j # i => Owed(j)' = Owed(j)
    BY <1>0, <2>1, WriteNextTakesHead
  <2>4. ASSUME NEW j \in Streams
        PROVE  \E n \in 0..nextSeq : EndsAt(Owed(j)', n) /\ (j \in senders' => n = nextSeq)
    <3>1. PICK n \in 0..nextSeq : EndsAt(Owed(j), n) /\ (j \in senders => n = nextSeq)
      BY DEF OwedIsRun
    <3>2. CASE j = i
      <4>1. EndsAt(Tail(Owed(i)), n)
        BY <1>0, <2>3, <3>1, <3>2, TailRun, OwedType
      <4>2. QED
        BY <2>2, <2>3, <3>1, <3>2, <4>1
    <3>3. CASE j # i
      BY <2>2, <2>3, <3>1, <3>3
    <3>4. QED
      BY <3>2, <3>3
  <2>5. QED
    BY <2>2, <2>4 DEF OwedIsRun
<1>9. ASSUME NEW i \in Streams, HandleReset(i) \/ Lose(i) PROVE RingIsRun' /\ OwedIsRun'
  BY <1>2, <1>9, Cuts
<1>10. ASSUME NEW i \in Streams, Refused(i) \/ EndOfStream(i) PROVE RingIsRun' /\ OwedIsRun'
  BY <1>1, <1>10 DEF Refused, EndOfStream
<1>11. CASE UNCHANGED vars
  BY <1>1, <1>11 DEF vars
<1>12. QED
  BY <1>3, <1>4, <1>5, <1>6, <1>7, <1>8, <1>9, <1>10, <1>11 DEF Next

\* What opening a stream, or giving the current one up, does to the streams.
LEMMA OpenStreamShape ==
  ASSUME TypeOK, NEW streams \in [Streams -> {"free", "connecting", "open", "closed"}],
         NEW from \in Cursors, OpenStream(streams, from)
  PROVE  \E i \in Streams :
           /\ streams[i] = "free" /\ es' = i
           /\ st' = [streams EXCEPT ![i] = "connecting"]
           /\ cursor'[i] = from
           /\ \A j \in Streams : j # i => cursor'[j] \in {cursor[j], EmptyCursor}
  BY DEF OpenStream, Least, Alive, CursorIn, TypeOK

LEMMA UnlessOpenStep ==
  ASSUME IInv, [Next]_vars
  PROVE  UnlessOpen'
<1> USE DEF IInv
<1>0. TypeOK /\ ServerTypeOK /\ st \in [Streams -> {"free", "connecting", "open", "closed"}]
  BY DEF TypeOK
<1>1. ASSUME UNCHANGED <<server, st>> PROVE UnlessOpen'
  BY <1>1 DEF server, UnlessOpen
<1>2. ASSUME NEW gone, Cut(gone),
             \A j \in Streams : st'[j] # "open" => j \in gone \/ st[j] # "open"
      PROVE  UnlessOpen'
  BY <1>2 DEF Cut, UnlessOpen, TypeOK
<1>3. ASSUME NEW streams \in [Streams -> {"free", "connecting", "open", "closed"}],
             NEW from \in Cursors, OpenStream(streams, from),
             NEW j \in Streams, st'[j] # "open"
      PROVE  streams[j] # "open"
  <2>1. PICK i \in Streams : streams[i] = "free" /\ st' = [streams EXCEPT ![i] = "connecting"]
    BY <1>0, <1>3, OpenStreamShape
  <2>2. QED
    BY <1>3, <2>1
<1>4. WithoutCurrent \in [Streams -> {"free", "connecting", "open", "closed"}]
  BY DEF WithoutCurrent, TypeOK
<1>5. CASE ServerPublishes
  BY <1>5 DEF ServerPublishes, Publish, client, UnlessOpen, TypeOK
<1>6. CASE Restart
  BY <1>6 DEF Restart, ServerRestart, UnlessOpen
<1>7. CASE TimerFires
  <2>1. ASSUME NEW j \in Streams, st'[j] # "open" PROVE WithoutCurrent[j] # "open"
    <3>1. CASE timer = "resubscribe"
      <4>1. OpenStream(WithoutCurrent, lastSeq) /\ lastSeq \in Cursors
        BY <1>7, <3>1 DEF TimerFires, TypeOK
      <4>2. QED
        BY <1>3, <1>4, <2>1, <4>1
    <3>2. CASE timer # "resubscribe"
      BY <1>7, <2>1, <3>2 DEF TimerFires, Rebootstrap
    <3>3. QED
      BY <3>1, <3>2
  <2>2. \A j \in Streams : st'[j] # "open" => j \in {es} \/ st[j] # "open"
    BY <2>1 DEF WithoutCurrent
  <2>3. QED
    BY <1>2, <1>7, <2>2, Cuts
<1>8. ASSUME NEW f \in Fetches, Ingest(f) PROVE UnlessOpen'
  <2>1. OpenStream(st, fetch[f].asOf) /\ fetch[f].asOf \in Cursors /\ UNCHANGED server
    BY <1>8 DEF Ingest, TypeOK
  <2>2. \A j \in Streams : st'[j] # "open" => st[j] # "open"
    BY <1>0, <1>3, <2>1
  <2>3. QED
    BY <2>1, <2>2 DEF server, UnlessOpen
<1>9. ASSUME NEW f \in Fetches, Answer(f) \/ FetchFails(f) PROVE UnlessOpen'
  BY <1>1, <1>9 DEF Answer, FetchFails
<1>10. ASSUME NEW i \in Streams, Connect(i) PROVE UnlessOpen'
  <2>1. /\ st' = [st EXCEPT ![i] = "open"] /\ senders' = senders \cup {i}
        /\ resets' \subseteq resets \cup {i}
        /\ \A j \in Streams : j # i => replay'[j] = replay[j] /\ queue'[j] = queue[j]
    BY <1>10 DEF Connect, Subscribe, TypeOK
  <2>2. QED
    BY <2>1 DEF UnlessOpen, TypeOK
<1>11. ASSUME NEW i \in Streams, Refused(i) PROVE UnlessOpen'
  BY <1>11 DEF Refused, UnlessOpen, TypeOK, server
<1>12. ASSUME NEW i \in Streams, HandleFrame(i) PROVE UnlessOpen'
  BY <1>12 DEF HandleFrame, WriteNext, UnlessOpen, TypeOK
<1>13. ASSUME NEW i \in Streams, HandleReset(i) PROVE UnlessOpen'
  <2>1. \A j \in Streams : st'[j] # "open" => j \in {es} \/ st[j] # "open"
    BY <1>13 DEF HandleReset, Rebootstrap, WithoutCurrent
  <2>2. QED
    BY <1>2, <1>13, <2>1, Cuts
<1>14. ASSUME NEW i \in Streams, Lose(i) PROVE UnlessOpen'
  <2>1. \A j \in Streams : st'[j] # "open" => j \in {i} \/ st[j] # "open"
    BY <1>14 DEF Lose, TypeOK
  <2>2. QED
    BY <1>2, <1>14, <2>1, Cuts
<1>15. ASSUME NEW i \in Streams, EndOfStream(i) PROVE UnlessOpen'
  <2>1. replay[i] = <<>> /\ queue[i] = <<>>
    <3>1. replay[i] \in Seq(Frames) /\ queue[i] \in Seq(Frames) /\ replay[i] \o queue[i] = <<>>
      BY <1>15 DEF EndOfStream, Owed, TypeOK
    <3>2. QED
      BY <3>1, ConcatSimplifications
  <2>2. QED
    BY <1>15, <2>1 DEF EndOfStream, UnlessOpen, TypeOK, server
<1>16. CASE UNCHANGED vars
  BY <1>1, <1>16 DEF vars, client
<1>17. QED
  BY <1>5, <1>6, <1>7, <1>8, <1>9, <1>10, <1>11, <1>12, <1>13, <1>14, <1>15, <1>16 DEF Next

LEMMA CursorsKnownStep ==
  ASSUME IInv, [Next]_vars
  PROVE  CursorsKnown'
<1> USE DEF IInv
<1>0. /\ TypeOK /\ nextSeq \in Nat /\ carried \in Int /\ carried >= -1
      /\ Known(EmptyCursor) /\ \A n \in Cursors : n \in Int
      /\ \A i \in Streams : cursor[i] \in Cursors
      /\ \A f \in Fetches : fetch[f].asOf \in Cursors
      /\ lastSeq \in Cursors
  BY CapacityAssumption DEF TypeOK, Known, EmptyCursor, Cursors
<1> DEFINE KnownNext(n) == n < nextSeq' \/ n <= carried'
<1> SUFFICES /\ \A i \in Streams : st'[i] # "free" => KnownNext(cursor'[i])
             /\ \A f \in Fetches : KnownNext(fetch'[f].asOf)
             /\ timer' = "resubscribe" \/ (\E i \in Streams : st'[i] # "free") =>
                  KnownNext(lastSeq')
  BY DEF CursorsKnown, Known, Alive
<1>1. /\ \A i \in Streams : st[i] # "free" => Known(cursor[i])
      /\ \A f \in Fetches : Known(fetch[f].asOf)
      /\ timer = "resubscribe" \/ (\E i \in Streams : st[i] # "free") => Known(lastSeq)
  BY DEF CursorsKnown, Alive
<1>2. ASSUME nextSeq' = nextSeq, carried' = carried, NEW n, Known(n) PROVE KnownNext(n)
  BY <1>2 DEF Known
<1>3. CASE ServerPublishes
  <2>1. nextSeq' = nextSeq + 1 /\ carried' = carried /\ UNCHANGED client
    BY <1>3 DEF ServerPublishes, Publish
  <2>2. ASSUME NEW n \in Cursors, Known(n) PROVE KnownNext(n)
    BY <1>0, <2>1, <2>2 DEF Known
  <2>3. QED
    BY <1>0, <1>1, <2>1, <2>2 DEF client
<1>4. CASE Restart
  <2>1. \A m \in Held : m <= carried'
    BY <1>4 DEF Restart
  <2>2. UNCHANGED <<st, cursor, lastSeq>> /\ \A f \in Fetches : fetch'[f].asOf = fetch[f].asOf
    BY <1>4 DEF Restart, TypeOK
  <2>3. /\ lastSeq \in Held
        /\ \A f \in Fetches : fetch[f].asOf \in Held
        /\ \A i \in Streams : st[i] # "free" => cursor[i] \in Held
    BY DEF Held, Alive
  <2>4. QED
    BY <2>1, <2>2, <2>3
<1>5. ASSUME NEW streams \in [Streams -> {"free", "connecting", "open", "closed"}],
             NEW from \in Cursors, OpenStream(streams, from), Known(from),
             \A i \in Streams : streams[i] # "free" => st[i] # "free",
             nextSeq' = nextSeq, carried' = carried
      PROVE  \A i \in Streams : st'[i] # "free" => KnownNext(cursor'[i])
  <2>1. PICK i \in Streams :
          /\ st' = [streams EXCEPT ![i] = "connecting"] /\ cursor'[i] = from
          /\ \A j \in Streams : j # i => cursor'[j] \in {cursor[j], EmptyCursor}
    BY <1>0, <1>5, OpenStreamShape
  <2>2. QED
    BY <1>0, <1>1, <1>2, <1>5, <2>1
<1>6. ASSUME Rebootstrap, nextSeq' = nextSeq, carried' = carried
      PROVE  /\ \A i \in Streams : st'[i] # "free" => KnownNext(cursor'[i])
             /\ \A f \in Fetches : KnownNext(fetch'[f].asOf)
             /\ \A i \in Streams : st'[i] # "free" => st[i] # "free"
  <2>1. /\ \A i \in Streams : cursor'[i] \in {cursor[i], EmptyCursor}
        /\ \A i \in Streams : st'[i] # "free" => st[i] # "free"
    BY <1>6 DEF Rebootstrap, CursorIn, WithoutCurrent
  <2>2. \A f \in Fetches : fetch'[f].asOf = fetch[f].asOf
    BY <1>6 DEF Rebootstrap, TypeOK
  <2>3. QED
    BY <1>0, <1>1, <1>2, <1>6, <2>1, <2>2
<1>7. CASE TimerFires
  <2>1. nextSeq' = nextSeq /\ carried' = carried /\ lastSeq' = lastSeq /\ timer' = "none"
    BY <1>7 DEF TimerFires, HangUp
  <2>2. CASE timer = "resubscribe"
    <3>1. OpenStream(WithoutCurrent, lastSeq) /\ fetch' = fetch
      BY <1>7, <2>2 DEF TimerFires
    <3>2. WithoutCurrent \in [Streams -> {"free", "connecting", "open", "closed"}]
      BY DEF WithoutCurrent, TypeOK
    <3>3. \A i \in Streams : WithoutCurrent[i] # "free" => st[i] # "free"
      BY DEF WithoutCurrent
    <3>4. QED
      BY <1>0, <1>1, <1>2, <1>5, <2>1, <2>2, <3>1, <3>2, <3>3
  <2>3. CASE timer # "resubscribe"
    <3>1. Rebootstrap
      BY <1>7, <2>3 DEF TimerFires
    <3>2. QED
      BY <1>1, <1>2, <1>6, <2>1, <3>1
  <2>4. QED
    BY <2>2, <2>3
<1>8. ASSUME NEW f \in Fetches, Answer(f)
      PROVE  \A g \in Fetches : KnownNext(fetch'[g].asOf)
  <2>1. nextSeq' = nextSeq /\ AsOfSeq < nextSeq /\ carried' = carried
    BY <1>0, <1>8 DEF Answer, AsOfSeq, EmptyCursor, server
  <2>2. \A g \in Fetches : fetch'[g].asOf \in {fetch[g].asOf, AsOfSeq}
    BY <1>8 DEF Answer, TypeOK
  <2>3. QED
    BY <1>1, <1>2, <2>1, <2>2
<1>9. ASSUME NEW f \in Fetches, Ingest(f)
      PROVE  /\ \A i \in Streams : st'[i] # "free" => KnownNext(cursor'[i])
             /\ \A g \in Fetches : KnownNext(fetch'[g].asOf)
             /\ KnownNext(lastSeq')
  <2>1. /\ nextSeq' = nextSeq /\ carried' = carried /\ lastSeq' = fetch[f].asOf
        /\ OpenStream(st, fetch[f].asOf) /\ st \in [Streams -> {"free", "connecting", "open", "closed"}]
    BY <1>9 DEF Ingest, server, TypeOK
  <2>2. \A g \in Fetches : fetch'[g].asOf \in {fetch[g].asOf, EmptyCursor}
    BY <1>9 DEF Ingest, NoFetch, TypeOK
  <2>3. QED
    BY <1>0, <1>1, <1>2, <1>5, <2>1, <2>2
<1>10. ASSUME NEW f \in Fetches, FetchFails(f)
       PROVE  /\ \A g \in Fetches : KnownNext(fetch'[g].asOf)
              /\ timer' = "resubscribe" => timer = "resubscribe"
  <2>1. /\ nextSeq' = nextSeq /\ carried' = carried
        /\ timer' = "resubscribe" => timer = "resubscribe"
    BY <1>10 DEF FetchFails, ScheduleRetry, server
  <2>2. \A g \in Fetches : fetch'[g].asOf \in {fetch[g].asOf, EmptyCursor}
    BY <1>10 DEF FetchFails, NoFetch, TypeOK
  <2>3. QED
    BY <1>0, <1>1, <1>2, <2>1, <2>2
<1>11. CASE \E f \in Fetches : Answer(f) \/ Ingest(f) \/ FetchFails(f)
  <2>1. CASE \E f \in Fetches : Answer(f)
    <3>1. UNCHANGED <<nextSeq, carried, cursor, lastSeq, timer, st>>
      BY <2>1 DEF Answer, server
    <3>2. QED
      BY <1>1, <1>2, <1>8, <2>1, <3>1
  <2>2. CASE \E f \in Fetches : Ingest(f)
    BY <1>9, <2>2
  <2>3. CASE \E f \in Fetches : FetchFails(f)
    <3>1. UNCHANGED <<nextSeq, carried, cursor, lastSeq, st>>
      BY <2>3 DEF FetchFails, server
    <3>2. QED
      BY <1>1, <1>2, <1>10, <2>3, <3>1
  <2>4. QED
    BY <1>11, <2>1, <2>2, <2>3
<1>12. ASSUME NEW i \in Streams, Connect(i) \/ Refused(i) \/ Lose(i) \/ EndOfStream(i)
       PROVE  CursorsKnown'
  <2>1. /\ UNCHANGED <<nextSeq, carried, cursor, lastSeq, fetch>>
        /\ st[i] # "free" /\ \A j \in Streams : st'[j] # "free" => j = i \/ st[j] # "free"
    BY <1>12 DEF Connect, Refused, Lose, EndOfStream, Subscribe, HangUp, server, TypeOK
  <2>2. QED
    BY <1>1, <1>2, <2>1 DEF CursorsKnown, Known, Alive
<1>13. ASSUME NEW i \in Streams, HandleFrame(i) PROVE CursorsKnown'
  <2>1. /\ UNCHANGED <<nextSeq, carried, fetch>>
        /\ lastSeq' = Head(Owed(i)) /\ cursor' = [cursor EXCEPT ![i] = Head(Owed(i))]
    BY <1>13 DEF HandleFrame, WriteNext
  <2>2. Head(Owed(i)) < nextSeq
    <3>1. Owed(i) # <<>> /\ Owed(i) \in Seq(Int)
      BY <1>13, WriteNextTakesHead, OwedType DEF HandleFrame, TypeOK
    <3>2. PICK n \in 0..nextSeq : EndsAt(Owed(i), n)
      BY DEF OwedIsRun
    <3>3. Head(Owed(i)) = n - Len(Owed(i)) /\ Len(Owed(i)) \in Nat \ {0}
      BY <1>0, <3>1, <3>2, TailRun, EmptySeq
    <3>4. QED
      BY <1>0, <3>2, <3>3
  <2>3. QED
    <3>1. st[i] # "free" /\ st' = st
      BY <1>13 DEF HandleFrame
    <3>2. \A j \in Streams : st'[j] # "free" => KnownNext(cursor'[j])
      BY <1>1, <1>2, <2>1, <2>2, <3>1 DEF TypeOK
    <3>3. KnownNext(lastSeq') /\ \A f \in Fetches : KnownNext(fetch'[f].asOf)
      BY <1>1, <1>2, <2>1, <2>2
    <3>4. QED
      BY <3>2, <3>3 DEF CursorsKnown, Known
<1>14. ASSUME NEW i \in Streams, HandleReset(i) PROVE CursorsKnown'
  <2>1. /\ nextSeq' = nextSeq /\ carried' = carried /\ timer' = timer /\ Rebootstrap
        /\ lastSeq' \in {cursor[i], lastSeq} /\ st[i] # "free"
    BY <1>14, Cuts DEF HandleReset, Cut
  <2>2. KnownNext(lastSeq')
    BY <1>1, <1>2, <2>1
  <2>3. QED
    BY <1>6, <2>1, <2>2 DEF CursorsKnown, Known
<1>15. CASE UNCHANGED vars
  BY <1>1, <1>2, <1>15 DEF vars, server, client
<1>16. QED
  BY <1>3, <1>4, <1>7, <1>11, <1>12, <1>13, <1>14, <1>15 DEF Next, CursorsKnown, Known, Alive

LEMMA GoesOnStep ==
  ASSUME IInv, [Next]_vars
  PROVE  GoesOn'
<1> USE DEF IInv
<1>0. /\ TypeOK /\ ServerTypeOK /\ nextSeq \in Nat /\ carried \in Int
      /\ es \in Streams \cup {0} /\ 0 \notin Streams
      /\ \A i \in Streams : cursor[i] \in Cursors /\ cursor[i] \in Int
  <2>1. 0 \notin Streams
    BY StreamsAssumption
  <2>2. Cursors \subseteq Int /\ 0..MaxFrames \subseteq Nat
    BY CapacityAssumption DEF Cursors, EmptyCursor
  <2>3. QED
    BY <2>1, <2>2 DEF TypeOK
<1>1. ASSUME UNCHANGED <<server, es, cursor, carried>> PROVE GoesOn'
  BY <1>1 DEF server, GoesOn, Owed
<1>2. ASSUME es' = 0 \/ (es' \in Streams /\ st'[es'] # "open"), UnlessOpen' PROVE GoesOn'
  <2>1. CASE es' = 0
    BY <2>1 DEF GoesOn
  <2>2. CASE es' \in Streams /\ st'[es'] # "open"
    <3>1. es' \notin senders' /\ replay'[es'] = <<>> /\ queue'[es'] = <<>>
      BY <1>2, <2>2 DEF UnlessOpen
    <3>2. Owed(es)' = <<>>
      BY <3>1, EmptySeq, ConcatEmptySeq DEF Owed
    <3>3. QED
      BY <3>1, <3>2 DEF GoesOn
  <2>3. QED
    BY <1>2, <2>1, <2>2
<1>3. UnlessOpen'
  BY UnlessOpenStep
<1>4. ASSUME NEW streams \in [Streams -> {"free", "connecting", "open", "closed"}],
             NEW from \in Cursors, OpenStream(streams, from)
      PROVE  GoesOn'
  <2>1. PICK i \in Streams : es' = i /\ st' = [streams EXCEPT ![i] = "connecting"]
    BY <1>0, <1>4, OpenStreamShape
  <2>2. es' \in Streams /\ st'[es'] # "open"
    BY <1>4, <2>1
  <2>3. QED
    BY <1>2, <1>3, <2>2
<1>5. CASE ServerPublishes
  <2>1. Publish /\ UNCHANGED <<es, cursor, carried, resets>>
    BY <1>5 DEF ServerPublishes, Publish, client
  <2>2. SUFFICES ASSUME es \in Streams, es \notin resets
        PROVE  /\ Owed(es)' # <<>> => Head(Owed(es)') \in {cursor[es] + 1} \cup 0..carried
               /\ es \in senders' /\ Owed(es)' = <<>> => cursor[es] >= nextSeq' - 1
    BY <1>0, <2>1 DEF GoesOn
  <2>3. /\ Owed(es) \in Seq(Frames) /\ nextSeq \in Frames /\ senders' \subseteq senders
        /\ Owed(es)' = IF es \in senders' THEN Append(Owed(es), nextSeq) ELSE Owed(es)
    BY <1>0, <2>1, <2>2, PublishExtends, OwedType
  <2>4. /\ Owed(es) # <<>> => Head(Owed(es)) \in {cursor[es] + 1} \cup 0..carried
        /\ es \in senders /\ Owed(es) = <<>> => cursor[es] >= nextSeq - 1
    BY <1>0, <2>2 DEF GoesOn
  <2>5. CASE es \in senders'
    <3>1. Owed(es)' # <<>>
      BY <2>3, <2>5, AppendProperties
    <3>2. Head(Owed(es)') = IF Owed(es) = <<>> THEN nextSeq ELSE Head(Owed(es))
      BY <2>3, <2>5, HeadTailAppend
    <3>3. ASSUME Owed(es) = <<>> PROVE nextSeq \in {cursor[es] + 1} \cup 0..carried
      <4>1. st[es] # "free"
        BY <2>2, <2>3, <2>5 DEF UnlessOpen
      <4>2. Known(cursor[es]) /\ cursor[es] >= nextSeq - 1
        BY <2>2, <2>3, <2>4, <2>5, <3>3, <4>1 DEF CursorsKnown
      <4>3. cursor[es] \in Int
        BY <1>0, <2>2
      <4>4. QED
        BY <1>0, <4>2, <4>3 DEF Known
    <3>4. QED
      BY <2>4, <3>1, <3>2, <3>3
  <2>6. CASE es \notin senders'
    BY <2>3, <2>4, <2>6
  <2>7. QED
    BY <2>5, <2>6
<1>6. CASE Restart
  <2>1. senders' = {} /\ es' = es /\ \A i \in Streams : Owed(i)' = <<>>
    <3>1. <<>> \o <<>> = <<>>
      BY EmptySeq, ConcatEmptySeq
    <3>2. QED
      BY <1>6, <3>1 DEF Restart, ServerRestart, Owed
  <2>2. QED
    BY <1>0, <2>1 DEF GoesOn
<1>7. ASSUME TimerFires \/ \E i \in Streams : HandleReset(i) PROVE GoesOn'
  <2>1. CASE Rebootstrap
    BY <1>2, <1>3, <2>1 DEF Rebootstrap
  <2>2. CASE OpenStream(WithoutCurrent, lastSeq)
    <3>1. /\ WithoutCurrent \in [Streams -> {"free", "connecting", "open", "closed"}]
          /\ lastSeq \in Cursors
      BY DEF WithoutCurrent, TypeOK
    <3>2. QED
      BY <1>4, <2>2, <3>1
  <2>3. QED
    BY <1>7, <2>1, <2>2 DEF TimerFires, HandleReset
<1>8. ASSUME NEW f \in Fetches, Ingest(f) PROVE GoesOn'
  <2>1. /\ OpenStream(st, fetch[f].asOf) /\ fetch[f].asOf \in Cursors
        /\ st \in [Streams -> {"free", "connecting", "open", "closed"}]
    BY <1>8 DEF Ingest, TypeOK
  <2>2. QED
    BY <1>4, <2>1
<1>9. ASSUME NEW f \in Fetches, Answer(f) \/ FetchFails(f) PROVE GoesOn'
  BY <1>1, <1>9 DEF Answer, FetchFails
<1>10. ASSUME NEW i \in Streams, Connect(i) PROVE GoesOn'
  <2>1. /\ Subscribe(i, cursor[i]) /\ UNCHANGED <<es, cursor, carried, nextSeq>>
        /\ senders' = senders \cup {i} /\ \A j \in Streams : j # i => (j \in resets' <=> j \in resets)
    BY <1>10 DEF Connect, Subscribe
  <2>2. CASE es = i
    BY <1>0, <2>1, <2>2, SubscribeOwes DEF GoesOn
  <2>3. CASE es \in Streams /\ es # i
    <3>1. Owed(es)' = Owed(es)
      BY <1>0, <2>1, <2>3, SubscribeOwes
    <3>2. QED
      BY <2>1, <2>3, <3>1 DEF GoesOn
  <2>4. CASE es = 0
    BY <2>1, <2>4 DEF GoesOn
  <2>5. QED
    BY <1>0, <2>2, <2>3, <2>4
<1>11. ASSUME NEW i \in Streams, HandleFrame(i) PROVE GoesOn'
  <2>1. /\ WriteNext(i) /\ UNCHANGED <<es, carried, nextSeq, senders, resets>>
        /\ cursor' = [cursor EXCEPT ![i] = Head(Owed(i))]
    BY <1>11 DEF HandleFrame, WriteNext
  <2>2. /\ Owed(i) # <<>> /\ Owed(i)' = Tail(Owed(i)) /\ Owed(i) \in Seq(Int)
        /\ \A j \in Streams : j # i => Owed(j)' = Owed(j)
    BY <1>0, <2>1, WriteNextTakesHead, OwedType
  <2>3. CASE es = i
    <3>1. PICK n \in 0..nextSeq : EndsAt(Owed(i), n) /\ (i \in senders => n = nextSeq)
      BY DEF OwedIsRun
    <3>2. /\ Head(Owed(i)) = n - Len(Owed(i)) /\ Len(Owed(i)) \in Nat \ {0}
          /\ Tail(Owed(i)) \in Seq(Int) /\ EndsAt(Tail(Owed(i)), n)
          /\ Len(Tail(Owed(i))) = Len(Owed(i)) - 1
      BY <1>0, <2>2, <3>1, TailRun, EmptySeq, HeadTailProperties
    <3>3. Tail(Owed(i)) # <<>> => Head(Tail(Owed(i))) = n - Len(Tail(Owed(i)))
      <4>1. n \in Int
        BY <1>0, <3>1
      <4>2. QED
        BY <3>2, <4>1, TailRun
    <3>4. cursor'[i] = n - Len(Owed(i))
      BY <2>1, <3>2 DEF TypeOK
    <3>5. Owed(i)' # <<>> => Head(Owed(i)') = cursor'[i] + 1
      BY <1>0, <2>2, <3>1, <3>2, <3>3, <3>4
    <3>6. ASSUME i \in senders, Owed(i)' = <<>> PROVE cursor'[i] >= nextSeq - 1
      <4>1. Len(Owed(i)) = 1
        <5>1. Len(Tail(Owed(i))) = 0
          BY <2>2, <3>6, EmptySeq
        <5>2. \A k \in Nat : k - 1 = 0 => k = 1
          OBVIOUS
        <5>3. Len(Owed(i)) \in Nat /\ Len(Owed(i)) - 1 = 0
          BY <3>2, <5>1
        <5>4. QED
          BY <5>2, <5>3, Zenon
      <4>2. QED
        BY <1>0, <3>1, <3>4, <3>6, <4>1
    <3>7. QED
      BY <2>1, <2>3, <3>5, <3>6 DEF GoesOn
  <2>4. CASE es \in Streams /\ es # i
    <3>1. Owed(es)' = Owed(es) /\ cursor'[es] = cursor[es]
      BY <2>1, <2>2, <2>4 DEF TypeOK
    <3>2. QED
      BY <2>1, <2>4, <3>1 DEF GoesOn
  <2>5. CASE es = 0
    BY <2>1, <2>5 DEF GoesOn
  <2>6. QED
    BY <1>0, <2>3, <2>4, <2>5
<1>12. ASSUME NEW i \in Streams, Lose(i) PROVE GoesOn'
  <2>1. UNCHANGED <<es, cursor, carried>> /\ st'[i] # "open"
    BY <1>12 DEF Lose, TypeOK
  <2>2. Cut({i}) /\ resets' = resets \ {i}
    BY <1>12, Cuts
  <2>3. CASE es = i
    BY <1>2, <1>3, <2>1, <2>3
  <2>4. CASE es \in Streams /\ es # i
    <3>1. Owed(es)' = Owed(es)
      <4>1. Owed(es)' = IF es \in {i} THEN <<>> ELSE Owed(es)
        <5>1. \A j \in Streams : Owed(j)' = IF j \in {i} THEN <<>> ELSE Owed(j)
          BY <1>0, <2>2, CutOwes
        <5>2. es' = es /\ es \in Streams
          BY <2>1, <2>4
        <5>3. QED
          BY <5>1, <5>2
      <4>2. QED
        BY <2>4, <4>1
    <3>2. QED
      BY <2>1, <2>2, <2>4, <3>1 DEF GoesOn, Cut
  <2>5. CASE es = 0
    BY <2>1, <2>5 DEF GoesOn
  <2>6. QED
    BY <1>0, <2>3, <2>4, <2>5
<1>13. ASSUME NEW i \in Streams, Refused(i) \/ EndOfStream(i) PROVE GoesOn'
  BY <1>1, <1>13 DEF Refused, EndOfStream
<1>14. CASE UNCHANGED vars
  BY <1>1, <1>14 DEF vars, client
<1>15. QED
  BY <1>5, <1>6, <1>7, <1>8, <1>9, <1>10, <1>11, <1>12, <1>13, <1>14 DEF Next

-----------------------------------------------------------------------------
(* Theorems *)

LEMMA Inductive == Spec => []IInv
<1>1. Init => IInv
  <2> SUFFICES ASSUME Init PROVE IInv
    OBVIOUS
  <2>1. TypeOK
    BY TypeInit
  <2>2. RingIsRun
    BY DEF Init, ServerInit, RingIsRun, EndsAt
  <2>3. \A i \in Streams : Owed(i) = <<>>
    <3>1. <<>> \o <<>> = <<>>
      BY EmptySeq, ConcatEmptySeq
    <3>2. QED
      BY <3>1 DEF Init, ServerInit, Owed
  <2>4. OwedIsRun
    <3>1. 0 \in 0..nextSeq /\ nextSeq = 0 /\ EndsAt(<<>>, 0)
      BY DEF Init, ServerInit, EndsAt
    <3>2. QED
      BY <2>3, <3>1 DEF OwedIsRun
  <2>5. UnlessOpen
    BY DEF Init, ServerInit, UnlessOpen
  <2>6. CursorsKnown
    <3>1. timer = "none" /\ \A i \in Streams : st[i] = "free"
      BY DEF Init
    <3>2. \A f \in Fetches : fetch[f].asOf = EmptyCursor
      BY DEF Init, NoFetch
    <3>3. Known(EmptyCursor)
      BY DEF Init, ServerInit, Known, EmptyCursor
    <3>4. QED
      BY <3>1, <3>2, <3>3 DEF CursorsKnown, Alive
  <2>7. GoesOn
    BY DEF Init, GoesOn
  <2>8. QED
    BY <2>1, <2>2, <2>4, <2>5, <2>6, <2>7 DEF IInv
<1>2. IInv /\ [Next]_vars => IInv'
  <2> SUFFICES ASSUME IInv, [Next]_vars PROVE IInv'
    OBVIOUS
  <2>1. TypeOK'
    BY TypeStep DEF IInv
  <2>2. QED
    BY <2>1, RunsStep, UnlessOpenStep, CursorsKnownStep, GoesOnStep DEF IInv
<1>3. QED
  BY <1>1, <1>2, PTL DEF Spec

\* The type invariant of the server and of AfClient on top of it.
THEOREM StreamTypeCorrect == Spec => []TypeOK
<1>1. IInv => TypeOK
  BY DEF IInv
<1>2. QED
  BY <1>1, Inductive, PTL

\* What subscribe replays and what publish then sends are one run of frames: it
\* goes on where the current stream stopped and reaches the newest frame as long
\* as the connection keeps its sender, for any sizes of ring and channel and
\* whatever connections, requests and servers fail.
THEOREM ReplayAndLiveAreOneRun == Spec => []StreamIsOneRun
<1>1. IInv => StreamIsOneRun
  <2> SUFFICES ASSUME IInv, es # 0, Owed(es) # <<>> PROVE
         /\ \A k \in 1..(Len(Owed(es)) - 1) : Owed(es)[k + 1] = Owed(es)[k] + 1
         /\ es \notin resets => Head(Owed(es)) \in {cursor[es] + 1} \cup 0..carried
         /\ es \in senders => Owed(es)[Len(Owed(es))] = nextSeq - 1
    BY DEF StreamIsOneRun
  <2>1. es \in Streams /\ Owed(es) \in Seq(Int) /\ nextSeq \in Nat
    BY CapacityAssumption, OwedType DEF IInv, TypeOK
  <2>2. PICK n \in 0..nextSeq : EndsAt(Owed(es), n) /\ (es \in senders => n = nextSeq)
    BY <2>1 DEF IInv, OwedIsRun
  <2>3. PICK len \in Nat \ {0} : len = Len(Owed(es))
    BY <2>1, EmptySeq
  <2>4. n \in Int /\ \A k \in 1..len : Owed(es)[k] = n - len + k - 1
    BY <2>1, <2>2, <2>3 DEF EndsAt
  <2>5. ASSUME NEW k \in 1..(len - 1) PROVE Owed(es)[k + 1] = Owed(es)[k] + 1
    <3>1. k \in 1..len /\ k + 1 \in 1..len
      BY <2>3
    <3>2. Owed(es)[k] = n - len + k - 1 /\ Owed(es)[k + 1] = n - len + (k + 1) - 1
      BY <2>4, <3>1
    <3>3. QED
      BY <2>3, <2>4, <3>1, <3>2
  <2>6. Owed(es)[len] = n - 1
    <3>1. len \in 1..len
      BY <2>3
    <3>2. Owed(es)[len] = n - len + len - 1
      BY <2>4, <3>1
    <3>3. QED
      BY <2>3, <2>4, <3>2
  <2>7. es \notin resets => Head(Owed(es)) \in {cursor[es] + 1} \cup 0..carried
    BY DEF IInv, GoesOn
  <2>8. QED
    BY <2>2, <2>3, <2>5, <2>6, <2>7
<1>2. QED
  BY <1>1, Inductive, PTL

-----------------------------------------------------------------------------
(* While there was never more than one stream or snapshot *)

\* The one stream is the current one and stands at lastSeq, which is the highest
\* frame heard and has no hole below it; a snapshot on its way knows no less than the
\* console; and the stream goes on with the next frame.
OneStream == \A i \in Streams : st[i] # "free" => i = es /\ cursor[i] = lastSeq

HeardUpToLast ==
  /\ heard \subseteq 0..(nextSeq - 1)
  /\ heard \subseteq 0..lastSeq
  /\ heard # {} => lastSeq \in heard /\ (carried + 1)..lastSeq \subseteq heard
  /\ heard = {} /\ (timer = "resubscribe" \/ \E i \in Streams : st[i] # "free") =>
       lastSeq <= carried

AnswersAreLater ==
  \A f \in Fetches :
    /\ fetch[f].phase = "answered" => heard \subseteq 0..fetch[f].asOf /\ fetch[f].asOf < nextSeq
    /\ fetch[f].phase = "outdated" => heard = {} /\ fetch[f].asOf <= carried

NextFrame ==
  heard # {} /\ es # 0 /\ es \notin resets /\ Owed(es) # <<>> =>
    Head(Owed(es)) = cursor[es] + 1

Unmixed == ~mixed => ~Overlap /\ OneStream /\ HeardUpToLast /\ AnswersAreLater /\ NextFrame

LEMMA OverlapShrinks ==
  ASSUME \A i \in Streams : st'[i] # "free" => st[i] # "free",
         \A f \in Fetches : fetch'[f].phase # "idle" => fetch[f].phase # "idle",
         ~Overlap
  PROVE  ~Overlap'
BY DEF Overlap, Alive, Busy

LEMMA UnmixedPublish ==
  ASSUME IInv, Unmixed, ServerPublishes
  PROVE  Unmixed'
<1> USE DEF IInv
<1>1. SUFFICES ASSUME ~mixed
      PROVE  ~Overlap' /\ OneStream' /\ HeardUpToLast' /\ AnswersAreLater' /\ NextFrame'
  BY DEF Unmixed, ServerPublishes
<1>2. ~Overlap /\ OneStream /\ HeardUpToLast /\ AnswersAreLater /\ NextFrame
  BY <1>1 DEF Unmixed
<1>3. Publish /\ UNCHANGED <<client, carried, resets>>
  BY DEF ServerPublishes, Publish
<1>4. TypeOK /\ ServerTypeOK /\ nextSeq \in Nat /\ nextSeq' = nextSeq + 1
  BY <1>3, CapacityAssumption DEF TypeOK, Publish
<1>5. ~Overlap' /\ OneStream'
  BY <1>2, <1>3, OverlapShrinks DEF client, OneStream
<1>6. HeardUpToLast'
  BY <1>2, <1>3, <1>4 DEF client, HeardUpToLast
<1>7. AnswersAreLater'
  <2>1. \A n \in Cursors : n < nextSeq => n < nextSeq'
    BY <1>4, CapacityAssumption DEF Cursors, EmptyCursor
  <2>2. \A f \in Fetches : fetch[f].asOf \in Cursors
    BY <1>4 DEF TypeOK
  <2>3. QED
    BY <1>2, <1>3, <2>1, <2>2 DEF client, AnswersAreLater
<1>8. NextFrame'
  <2>1. es' = es /\ cursor' = cursor /\ heard' = heard /\ resets' = resets
    BY <1>3 DEF client
  <2>2. SUFFICES ASSUME heard # {}, es \in Streams, es \notin resets, Owed(es)' # <<>>
        PROVE  Head(Owed(es)') = cursor[es] + 1
    BY <1>4, <2>1 DEF NextFrame, TypeOK
  <2>3. /\ Owed(es) \in Seq(Frames) /\ nextSeq \in Frames /\ senders' \subseteq senders
        /\ Owed(es)' = IF es \in senders' THEN Append(Owed(es), nextSeq) ELSE Owed(es)
    BY <1>3, <1>4, <2>1, <2>2, PublishExtends, OwedType
  <2>4. es # 0
    BY <2>2, StreamsAssumption
  <2>5. CASE Owed(es) # <<>>
    BY <1>2, <2>2, <2>3, <2>4, <2>5, HeadTailAppend DEF NextFrame
  <2>6. CASE Owed(es) = <<>>
    <3>1. es \in senders' /\ Head(Owed(es)') = nextSeq
      BY <2>2, <2>3, <2>6, HeadTailAppend
    <3>2. cursor[es] >= nextSeq - 1
      BY <2>2, <2>3, <2>4, <2>6, <3>1 DEF GoesOn
    <3>3. st[es] # "free"
      BY <2>2, <2>3, <3>1 DEF UnlessOpen
    <3>4. cursor[es] = lastSeq /\ lastSeq \in heard /\ lastSeq \in 0..(nextSeq - 1)
      BY <1>2, <2>2, <3>3 DEF OneStream, HeardUpToLast
    <3>5. QED
      BY <1>4, <3>1, <3>2, <3>4
  <2>7. QED
    BY <2>5, <2>6
<1>9. QED
  BY <1>5, <1>6, <1>7, <1>8

LEMMA UnmixedRestart ==
  ASSUME IInv, Unmixed, Restart
  PROVE  Unmixed'
<1> USE DEF IInv
<1>1. SUFFICES ASSUME ~mixed
      PROVE  ~Overlap' /\ OneStream' /\ HeardUpToLast' /\ AnswersAreLater' /\ NextFrame'
  BY DEF Unmixed, Restart
<1>2. ~Overlap /\ OneStream
  BY <1>1 DEF Unmixed
<1>3. /\ heard' = {} /\ UNCHANGED <<es, st, cursor, lastSeq, timer>>
      /\ \A m \in Held : m <= carried'
  BY DEF Restart
<1>4. \A f \in Fetches : /\ fetch'[f].asOf = fetch[f].asOf
                         /\ fetch'[f].phase # "idle" => fetch[f].phase # "idle"
                         /\ fetch'[f].phase # "answered"
  BY DEF Restart, TypeOK
<1>5. ~Overlap' /\ OneStream'
  BY <1>2, <1>3, <1>4, OverlapShrinks DEF OneStream
<1>6. HeardUpToLast' /\ AnswersAreLater' /\ NextFrame'
  BY <1>3, <1>4 DEF HeardUpToLast, AnswersAreLater, NextFrame, Held
<1>7. QED
  BY <1>5, <1>6

LEMMA UnmixedSnapshots ==
  ASSUME IInv, Unmixed, NEW f \in Fetches, Answer(f) \/ Ingest(f) \/ FetchFails(f)
  PROVE  Unmixed'
<1> USE DEF IInv
<1>1. SUFFICES ASSUME ~mixed'
      PROVE  ~Overlap' /\ OneStream' /\ HeardUpToLast' /\ AnswersAreLater' /\ NextFrame'
  BY DEF Unmixed
<1>2. ~Overlap /\ OneStream /\ HeardUpToLast /\ AnswersAreLater /\ NextFrame
  BY <1>1 DEF Unmixed, Answer, Ingest, FetchFails, NoteMixing
<1>3. /\ nextSeq \in Nat /\ EmptyCursor \in Int
      /\ \A g \in Fetches : fetch[g].asOf \in Int /\ fetch[g].asOf >= -1
  BY CapacityAssumption DEF TypeOK, Cursors, EmptyCursor
<1>4. UNCHANGED <<server, carried>>
  BY DEF Answer, Ingest, FetchFails
<1>5. CASE Answer(f)
  <2>1. UNCHANGED <<es, st, cursor, lastSeq, timer, heard>>
    BY <1>5 DEF Answer
  <2>2. \A g \in Fetches : fetch'[g] = IF g = f THEN [phase |-> "answered", asOf |-> AsOfSeq]
                                       ELSE fetch[g]
    BY <1>5 DEF Answer, TypeOK
  <2>3. fetch[f].phase = "asked"
    BY <1>5 DEF Answer
  <2>4. ~Overlap' /\ OneStream' /\ NextFrame'
    <3>1. \A g \in Fetches : fetch'[g].phase # "idle" => fetch[g].phase # "idle"
      BY <2>2, <2>3
    <3>2. ~Overlap'
      BY <1>2, <2>1, <3>1, OverlapShrinks
    <3>3. QED
      BY <1>2, <1>4, <2>1, <3>2 DEF OneStream, NextFrame, Owed, server
  <2>5. HeardUpToLast'
    BY <1>2, <1>4, <2>1 DEF HeardUpToLast, server
  <2>6. AsOfSeq < nextSeq /\ heard \subseteq 0..AsOfSeq
    BY <1>2, <1>3 DEF AsOfSeq, EmptyCursor, HeardUpToLast
  <2>7. AnswersAreLater'
    BY <1>2, <1>4, <2>1, <2>2, <2>6 DEF AnswersAreLater, server
  <2>8. QED
    BY <2>4, <2>5, <2>7
<1>6. CASE Ingest(f)
  <2>1. /\ lastSeq' = fetch[f].asOf
        /\ heard' = IF fetch[f].phase = "answered" THEN heard \cup 0..fetch[f].asOf ELSE heard
        /\ OpenStream(st, fetch[f].asOf) /\ timer' = timer /\ ~Overlap'
        /\ fetch[f].phase \in {"answered", "outdated"}
    BY <1>1, <1>6 DEF Ingest, NoteMixing
  <2>2. PICK i \in Streams :
          /\ es' = i /\ cursor'[i] = fetch[f].asOf
          /\ st' = [st EXCEPT ![i] = "connecting"]
    <3>1. /\ st \in [Streams -> {"free", "connecting", "open", "closed"}]
          /\ fetch[f].asOf \in Cursors
      BY DEF TypeOK
    <3>2. QED
      BY <2>1, <3>1, OpenStreamShape
  <2>3. st'[i] # "free" /\ st'[i] # "open"
    BY <2>2 DEF TypeOK
  <2>4. OneStream'
    <3>1. \A j \in Streams : st'[j] # "free" => j = i
      BY <2>1, <2>3 DEF Overlap, Alive
    <3>2. QED
      BY <2>1, <2>2, <3>1 DEF OneStream
  <2>5. AnswersAreLater'
    <3>1. \A g \in Fetches : fetch'[g].phase = "idle"
      <4>1. \A g \in Fetches : fetch'[g].phase # "idle" => FALSE
        BY <2>1, <2>3 DEF Overlap, Alive, Busy
      <4>2. QED
        BY <4>1
    <3>2. QED
      BY <3>1 DEF AnswersAreLater
  <2>6. HeardUpToLast'
    <3>1. CASE fetch[f].phase = "answered"
      <4>1. heard' = 0..lastSeq' /\ lastSeq' < nextSeq /\ lastSeq' \in Int /\ lastSeq' >= -1
        BY <1>2, <1>3, <2>1, <3>1 DEF AnswersAreLater
      <4>2. nextSeq' = nextSeq /\ carried' = carried /\ carried \in Int /\ carried >= -1
        BY <1>4, CapacityAssumption DEF server, TypeOK, Cursors, EmptyCursor
      <4>3. lastSeq' >= 0 \/ lastSeq' = -1
        BY <4>1
      <4>4. CASE lastSeq' >= 0
        BY <1>3, <4>1, <4>2, <4>4 DEF HeardUpToLast
      <4>5. CASE lastSeq' = -1
        BY <1>3, <4>1, <4>2, <4>5 DEF HeardUpToLast
      <4>6. QED
        BY <4>3, <4>4, <4>5
    <3>2. CASE fetch[f].phase = "outdated"
      <4>1. heard' = {} /\ lastSeq' <= carried
        BY <1>2, <2>1, <3>2 DEF AnswersAreLater
      <4>2. QED
        BY <1>4, <4>1 DEF HeardUpToLast
    <3>3. QED
      BY <2>1, <3>1, <3>2
  <2>7. NextFrame'
    <3>1. Owed(i) = <<>> /\ Owed(i)' = Owed(i)
      <4>1. replay[i] = <<>> /\ queue[i] = <<>>
        <5>1. st[i] # "open"
          <6>1. st \in [Streams -> {"free", "connecting", "open", "closed"}]
                /\ fetch[f].asOf \in Cursors
            BY DEF TypeOK
          <6>2. \E k \in Streams : st[k] = "free" /\ es' = k
            BY <2>1, <6>1, OpenStreamShape
          <6>3. QED
            BY <2>2, <6>2
        <5>2. QED
          BY <5>1 DEF UnlessOpen
      <4>2. <<>> \o <<>> = <<>>
        BY EmptySeq, ConcatEmptySeq
      <4>3. QED
        BY <1>4, <4>1, <4>2 DEF Owed, server
    <3>2. Owed(es)' = <<>>
      BY <2>2, <3>1 DEF Owed
    <3>3. QED
      BY <3>2 DEF NextFrame
  <2>8. QED
    BY <2>1, <2>4, <2>5, <2>6, <2>7
<1>7. CASE FetchFails(f)
  <2>1. UNCHANGED <<es, st, cursor, lastSeq, heard>>
    BY <1>7 DEF FetchFails
  <2>2. \A g \in Fetches : fetch'[g] = IF g = f THEN NoFetch ELSE fetch[g]
    BY <1>7 DEF FetchFails, TypeOK
  <2>3. NoFetch.phase = "idle"
    BY DEF NoFetch
  <2>4. ~Overlap' /\ OneStream' /\ NextFrame'
    <3>1. \A g \in Fetches : fetch'[g].phase # "idle" => fetch[g].phase # "idle"
      BY <2>2, <2>3
    <3>2. ~Overlap'
      BY <1>2, <2>1, <3>1, OverlapShrinks
    <3>3. QED
      BY <1>2, <1>4, <2>1, <3>2 DEF OneStream, NextFrame, Owed, server
  <2>5. HeardUpToLast'
    BY <1>2, <1>4, <1>7, <2>1 DEF FetchFails, ScheduleRetry, HeardUpToLast, server
  <2>6. AnswersAreLater'
    BY <1>2, <1>4, <2>1, <2>2, <2>3 DEF AnswersAreLater, server
  <2>7. QED
    BY <2>4, <2>5, <2>6
<1>8. QED
  BY <1>5, <1>6, <1>7

LEMMA UnmixedReopens ==
  ASSUME IInv, IInv', Unmixed, TimerFires \/ \E i \in Streams : HandleReset(i)
  PROVE  Unmixed'
<1> USE DEF IInv
<1>1. SUFFICES ASSUME ~mixed'
      PROVE  ~Overlap' /\ OneStream' /\ HeardUpToLast' /\ AnswersAreLater' /\ NextFrame'
  BY DEF Unmixed
<1>2. ~Overlap /\ OneStream /\ HeardUpToLast /\ AnswersAreLater /\ NextFrame
  BY <1>1 DEF Unmixed, TimerFires, HandleReset, NoteMixing
<1>3. ~Overlap' /\ UNCHANGED <<nextSeq, heard, carried>>
  BY <1>1, Cuts DEF TimerFires, HandleReset, NoteMixing, Cut
<1>4. TypeOK
  OBVIOUS
<1>5. lastSeq' = lastSeq
  <2>1. ASSUME NEW i \in Streams, HandleReset(i) PROVE lastSeq' \in {lastSeq, cursor[i]} /\ st[i] = "open"
    BY <2>1 DEF HandleReset
  <2>2. QED
    BY <1>2, <2>1 DEF OneStream, TimerFires
<1>6. CASE Rebootstrap /\ (timer' = "none" \/ timer' = timer)
  <2>1. PICK f \in Fetches : fetch' = [fetch EXCEPT ![f].phase = "asked"]
    BY <1>6 DEF Rebootstrap, Least
  <2>2. /\ fetch'[f].phase = "asked"
        /\ \A g \in Fetches : /\ fetch'[g].asOf = fetch[g].asOf
                              /\ g # f => fetch'[g] = fetch[g]
    BY <2>1 DEF TypeOK
  <2>3. \A i \in Streams : st'[i] = "free"
    <3>1. \A i \in Streams : st'[i] # "free" => FALSE
      BY <1>3, <2>2 DEF Overlap, Alive, Busy
    <3>2. QED
      BY <3>1
  <2>4. OneStream'
    BY <2>3 DEF OneStream
  <2>5. HeardUpToLast'
    BY <1>2, <1>3, <1>5, <1>6, <2>3 DEF HeardUpToLast
  <2>6. AnswersAreLater'
    BY <1>2, <1>3, <2>2 DEF AnswersAreLater
  <2>7. NextFrame'
    BY <1>6 DEF Rebootstrap, NextFrame
  <2>8. QED
    BY <1>3, <2>4, <2>5, <2>6, <2>7
<1>7. CASE OpenStream(WithoutCurrent, lastSeq) /\ fetch' = fetch /\ timer = "resubscribe"
  <2>1. PICK i \in Streams :
          /\ es' = i /\ cursor'[i] = lastSeq
          /\ st' = [WithoutCurrent EXCEPT ![i] = "connecting"]
    <3>1. /\ WithoutCurrent \in [Streams -> {"free", "connecting", "open", "closed"}]
          /\ lastSeq \in Cursors
      BY DEF TypeOK, WithoutCurrent
    <3>2. QED
      BY <1>7, <3>1, OpenStreamShape
  <2>2. st'[i] # "free" /\ st'[i] # "open"
    BY <2>1 DEF WithoutCurrent
  <2>3. OneStream'
    <3>1. \A j \in Streams : st'[j] # "free" => j = i
      BY <1>3, <2>2 DEF Overlap, Alive
    <3>2. QED
      BY <1>5, <2>1, <3>1 DEF OneStream
  <2>4. HeardUpToLast'
    BY <1>2, <1>3, <1>5, <1>7 DEF HeardUpToLast
  <2>5. AnswersAreLater'
    BY <1>2, <1>3, <1>7 DEF AnswersAreLater
  <2>6. NextFrame'
    <3>1. replay'[i] = <<>> /\ queue'[i] = <<>>
      BY <2>2 DEF UnlessOpen
    <3>2. Owed(es)' = <<>>
      BY <2>1, <3>1, EmptySeq, ConcatEmptySeq DEF Owed
    <3>3. QED
      BY <3>2 DEF NextFrame
  <2>7. QED
    BY <1>3, <2>3, <2>4, <2>5, <2>6
<1>8. QED
  BY <1>6, <1>7 DEF TimerFires, HandleReset, TypeOK

LEMMA UnmixedConnections ==
  ASSUME IInv, Unmixed,
         NEW i \in Streams, Connect(i) \/ Refused(i) \/ Lose(i) \/ EndOfStream(i)
  PROVE  Unmixed'
<1> USE DEF IInv
<1>1. SUFFICES ASSUME ~mixed
      PROVE  ~Overlap' /\ OneStream' /\ HeardUpToLast' /\ AnswersAreLater' /\ NextFrame'
  BY DEF Unmixed, Connect, Refused, Lose, EndOfStream
<1>2. ~Overlap /\ OneStream /\ HeardUpToLast /\ AnswersAreLater /\ NextFrame
  BY <1>1 DEF Unmixed
<1>3. /\ UNCHANGED <<nextSeq, es, cursor, lastSeq, fetch, heard, carried>>
      /\ st[i] # "free" /\ \A j \in Streams : st'[j] # "free" => j = i \/ st[j] # "free"
  BY DEF Connect, Refused, Lose, EndOfStream, Subscribe, HangUp, server, TypeOK
<1>4. ~Overlap' /\ OneStream'
  BY <1>2, <1>3, OverlapShrinks DEF OneStream
<1>5. HeardUpToLast' /\ AnswersAreLater'
  BY <1>2, <1>3 DEF HeardUpToLast, AnswersAreLater
<1>6. i = es /\ es' = es
  BY <1>2, <1>3 DEF OneStream
<1>7. NextFrame'
  <2>1. CASE Connect(i)
    <3>1. Subscribe(i, cursor[i]) /\ cursor[i] \in Cursors
      BY <2>1 DEF Connect, TypeOK
    <3>2. i \notin resets' /\ Owed(i)' # <<>> => Head(Owed(i)') = cursor[i] + 1
      BY <3>1, SubscribeOwes DEF TypeOK
    <3>3. QED
      BY <1>3, <1>6, <3>2 DEF NextFrame
  <2>2. CASE Refused(i) \/ EndOfStream(i)
    BY <1>2, <1>3, <2>2 DEF Refused, EndOfStream, server, NextFrame, Owed
  <2>3. CASE Lose(i)
    <3>1. Owed(i)' = <<>>
      <4>1. Cut({i}) /\ ServerTypeOK
        BY <2>3, Cuts DEF TypeOK
      <4>2. Owed(i)' = IF i \in {i} THEN <<>> ELSE Owed(i)
        BY <4>1, CutOwes
      <4>3. QED
        BY <4>2
    <3>2. QED
      BY <1>6, <3>1 DEF NextFrame
  <2>4. QED
    BY <2>1, <2>2, <2>3
<1>8. QED
  BY <1>4, <1>5, <1>7

\* A frame that is handled is new, and closes no hole behind it.
LEMMA UnmixedFrame ==
  ASSUME IInv, Unmixed, NEW i \in Streams, HandleFrame(i)
  PROVE  Unmixed' /\ (mixed \/ Head(Owed(i)) \notin heard)
<1> USE DEF IInv
<1>1. SUFFICES ASSUME ~mixed
      PROVE  /\ ~Overlap' /\ OneStream' /\ HeardUpToLast' /\ AnswersAreLater' /\ NextFrame'
             /\ Head(Owed(i)) \notin heard
  BY DEF Unmixed, HandleFrame
<1>2. ~Overlap /\ OneStream /\ HeardUpToLast /\ AnswersAreLater /\ NextFrame
  BY <1>1 DEF Unmixed
<1> DEFINE head == Head(Owed(i))
<1>3. /\ UNCHANGED <<nextSeq, es, st, timer, fetch, carried, resets>>
      /\ lastSeq' = head /\ heard' = heard \cup {head}
      /\ cursor' = [cursor EXCEPT ![i] = head] /\ cursor'[i] = head
      /\ st[i] = "open" /\ i \notin resets /\ WriteNext(i)
  BY DEF HandleFrame, WriteNext, TypeOK
<1>4. i = es /\ cursor[i] = lastSeq /\ es # 0
  BY <1>2, <1>3, StreamsAssumption DEF OneStream
<1>5. ServerTypeOK /\ Owed(i) # <<>> /\ Owed(i) \in Seq(Int) /\ Owed(i)' = Tail(Owed(i))
  BY <1>3, WriteNextTakesHead, OwedType DEF TypeOK
<1>6. nextSeq \in Nat /\ carried \in Int /\ lastSeq \in Int
  BY CapacityAssumption DEF TypeOK, Cursors, EmptyCursor
<1>7. PICK n \in 0..nextSeq : EndsAt(Owed(i), n)
  BY DEF OwedIsRun
<1>8. n \in Int
  BY <1>6
<1>9. head = n - Len(Owed(i)) /\ EndsAt(Tail(Owed(i)), n) /\ Tail(Owed(i)) \in Seq(Int)
  BY <1>5, <1>7, <1>8, TailRun
<1>10. Len(Owed(i)) \in Nat \ {0} /\ Len(Tail(Owed(i))) = Len(Owed(i)) - 1
  BY <1>5, EmptySeq, HeadTailProperties
<1>11. head \in Nat /\ head < nextSeq
  <2>1. head \in Frames
    BY <1>5, OwedType
  <2>2. QED
    BY <1>6, <1>7, <1>8, <1>9, <1>10, <2>1, CapacityAssumption DEF Frames
<1>12. Tail(Owed(i)) # <<>> => Head(Tail(Owed(i))) = head + 1
  <2>1. ASSUME Tail(Owed(i)) # <<>> PROVE Head(Tail(Owed(i))) = n - Len(Tail(Owed(i)))
    BY <1>8, <1>9, <2>1, TailRun
  <2>2. QED
    BY <1>8, <1>9, <1>10, <2>1
<1>13. head = lastSeq + 1 \/ (heard = {} /\ head <= carried)
  <2>1. head \in {lastSeq + 1} \cup 0..carried
    BY <1>3, <1>4, <1>5 DEF GoesOn
  <2>2. heard # {} => head = lastSeq + 1
    BY <1>2, <1>3, <1>4, <1>5 DEF NextFrame
  <2>3. QED
    BY <1>6, <2>1, <2>2
<1>14. head \notin heard /\ heard \subseteq 0..head
  BY <1>2, <1>6, <1>11, <1>13 DEF HeardUpToLast
<1>15. ~Overlap' /\ OneStream'
  <2>1. ~Overlap'
    BY <1>2, <1>3, OverlapShrinks
  <2>2. OneStream'
    BY <1>2, <1>3, <1>4 DEF OneStream
  <2>3. QED
    BY <2>1, <2>2
<1>16. HeardUpToLast'
  <2>1. heard' \subseteq 0..(nextSeq - 1) /\ heard' \subseteq 0..head /\ head \in heard'
    <3>1. head \in 0..(nextSeq - 1) /\ head \in 0..head
      BY <1>6, <1>11
    <3>2. heard \subseteq 0..(nextSeq - 1)
      BY <1>2 DEF HeardUpToLast
    <3>3. QED
      BY <1>3, <1>14, <3>1, <3>2
  <2>2. (carried + 1)..head \subseteq heard'
    <3>1. CASE heard = {}
      <4>1. lastSeq <= carried
        BY <1>2, <1>3, <3>1 DEF HeardUpToLast
      <4>2. head <= carried + 1
        BY <1>6, <1>11, <1>13, <4>1
      <4>3. QED
        BY <1>3, <1>6, <1>11, <4>2
    <3>2. CASE heard # {}
      <4>1. (carried + 1)..lastSeq \subseteq heard /\ head = lastSeq + 1
        BY <1>2, <1>13, <3>2 DEF HeardUpToLast
      <4>2. QED
        BY <1>3, <1>6, <4>1
    <3>3. QED
      BY <3>1, <3>2
  <2>3. QED
    BY <1>3, <2>1, <2>2 DEF HeardUpToLast
<1>17. AnswersAreLater'
  <2>1. \A f \in Fetches : fetch[f].phase = "idle"
    <3>1. \A f \in Fetches : fetch[f].phase # "idle" => FALSE
      BY <1>2, <1>3 DEF Overlap, Alive, Busy
    <3>2. QED
      BY <3>1
  <2>2. QED
    BY <1>3, <2>1 DEF AnswersAreLater
<1>18. NextFrame'
  BY <1>3, <1>4, <1>5, <1>12 DEF NextFrame
<1>19. QED
  BY <1>14, <1>15, <1>16, <1>17, <1>18
LEMMA UnmixedStep ==
  ASSUME IInv, IInv', Unmixed, [Next]_vars
  PROVE  Unmixed'
<1>1. CASE ServerPublishes
  BY <1>1, UnmixedPublish
<1>2. CASE Restart
  BY <1>2, UnmixedRestart
<1>3. CASE TimerFires \/ \E i \in Streams : HandleReset(i)
  BY <1>3, UnmixedReopens
<1>4. ASSUME NEW f \in Fetches, Answer(f) \/ Ingest(f) \/ FetchFails(f) PROVE Unmixed'
  BY <1>4, UnmixedSnapshots
<1>5. ASSUME NEW i \in Streams, Connect(i) \/ Refused(i) \/ Lose(i) \/ EndOfStream(i)
      PROVE  Unmixed'
  BY <1>5, UnmixedConnections
<1>6. ASSUME NEW i \in Streams, HandleFrame(i) PROVE Unmixed'
  BY <1>6, UnmixedFrame
<1>7. CASE UNCHANGED vars
  <2>1. /\ UNCHANGED <<mixed, es, st, cursor, lastSeq, timer, fetch, heard, carried>>
        /\ UNCHANGED <<nextSeq, resets, replay, queue>>
    BY <1>7 DEF vars, client, server
  <2>2. UNCHANGED <<Overlap, OneStream, HeardUpToLast, AnswersAreLater, NextFrame>>
    BY <2>1 DEF Overlap, Alive, Busy, OneStream, HeardUpToLast, AnswersAreLater, NextFrame, Owed
  <2>3. QED
    BY <2>1, <2>2 DEF Unmixed
<1>8. QED
  BY <1>1, <1>2, <1>3, <1>4, <1>5, <1>6, <1>7 DEF Next

LEMMA UnmixedInductive == Spec => [](IInv /\ Unmixed)
<1>1. Init => Unmixed
  <2> SUFFICES ASSUME Init PROVE Unmixed
    OBVIOUS
  <2>1. /\ \A i \in Streams : st[i] = "free"
        /\ heard = {} /\ timer = "none" /\ es = 0
    BY DEF Init
  <2>2. PICK f \in Fetches : \A g \in Fetches :
          fetch[g] = IF g = f THEN [NoFetch EXCEPT !.phase = "asked"] ELSE NoFetch
    BY DEF Init, Least
  <2>3. \A g \in Fetches : fetch[g].phase = IF g = f THEN "asked" ELSE "idle"
    BY <2>2 DEF NoFetch
  <2>4. ~Overlap
    BY <2>1, <2>3 DEF Overlap, Alive, Busy
  <2>5. OneStream /\ HeardUpToLast /\ NextFrame
    BY <2>1 DEF OneStream, HeardUpToLast, NextFrame
  <2>6. AnswersAreLater
    BY <2>3 DEF AnswersAreLater
  <2>7. QED
    BY <2>4, <2>5, <2>6 DEF Unmixed
<1>2. IInv /\ IInv' /\ Unmixed /\ [Next]_vars => Unmixed'
  BY UnmixedStep
<1>3. QED
  BY <1>1, <1>2, Inductive, PTL DEF Spec

\* A client that never had two streams or snapshots under way at once is handed
\* no hole among the frames of its server, however often the connection breaks,
\* the ring wraps or the channel overflows.
THEOREM NoHoleWithOneStream == Spec => []HoleOnlyByMixing
<1>1. IInv /\ Unmixed => HoleOnlyByMixing
  <2> SUFFICES ASSUME IInv, Unmixed, ~mixed, NEW n \in heard
      PROVE  (carried + 1)..n \subseteq heard
    BY DEF HoleOnlyByMixing
  <2>1. /\ heard \subseteq 0..lastSeq /\ (carried + 1)..lastSeq \subseteq heard
        /\ lastSeq \in Int /\ carried \in Int
    BY CapacityAssumption DEF Unmixed, HeardUpToLast, IInv, TypeOK, Cursors, EmptyCursor
  <2>2. n \in 0..lastSeq
    BY <2>1
  <2>3. QED
    BY <2>1, <2>2
<1>2. QED
  BY <1>1, UnmixedInductive, PTL

\* Nor is such a client given a frame twice, whichever of the browser and the
\* timer of AfClient reconnected first.
THEOREM NoRepeatWithOneStream == Spec => FramesAreNew
<1>1. IInv /\ Unmixed =>
        [\A i \in Streams : HandleFrame(i) => mixed \/ Head(Owed(i)) \notin heard]_vars
  BY UnmixedFrame
<1>2. QED
  BY <1>1, UnmixedInductive, PTL DEF FramesAreNew
=============================================================================
