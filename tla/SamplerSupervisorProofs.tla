----------------------- MODULE SamplerSupervisorProofs -----------------------
(***************************************************************************)
(* What SamplerSupervisor's run checks on two sessions, for any number of  *)
(* them and of deaths, failures and ops under way; and of the pipes to the *)
(* sampler, or to the estimator, that no answer goes to another request.   *)
(***************************************************************************)
EXTENDS SamplerSupervisor, SidecarProtocol, WellFoundedInduction, FiniteSetTheorems, SequenceTheorems, TLAPS

-----------------------------------------------------------------------------
(* Queues of ops *)

LEMMA NothingQueued ==
  ASSUME NEW held \in SUBSET Sessions
  PROVE  HeldAfter(held, <<>>) = held
  BY DEF HeldAfter

\* Taking the first op from the queue and applying it leaves the outcome alone.
LEMMA FirstApplied ==
  ASSUME NEW held \in SUBSET Sessions, NEW queue \in Seq(Ops), queue # <<>>
  PROVE  /\ Applied(held, Head(queue)) \in SUBSET Sessions
         /\ Tail(queue) \in Seq(Ops)
         /\ HeldAfter(Applied(held, Head(queue)), Tail(queue)) = HeldAfter(held, queue)
<1>. DEFINE o == queue[1]
            now == Applied(held, o)
<1>1. /\ Head(queue) = o /\ o \in Ops /\ Len(queue) \in Nat \ {0}
      /\ Tail(queue) \in Seq(Ops) /\ Len(Tail(queue)) = Len(queue) - 1
      /\ \A i \in 1..(Len(queue) - 1) : Tail(queue)[i] = queue[i + 1]
  OBVIOUS
<1>2. now \in SUBSET Sessions /\ \A s \in Sessions : s # o.session => (s \in now <=> s \in held)
  BY <1>1 DEF Applied, Ops
<1>3. \/ o = Op("watch", o.session) /\ o.session \in now
      \/ o.op = "remove" /\ o.session \notin now
  BY <1>1 DEF Applied, Ops, Op
<1>4. ASSUME NEW s \in Sessions, s \in HeldAfter(now, Tail(queue))
      PROVE  s \in HeldAfter(held, queue)
  <2>1. CASE s \in now /\ \A i \in DOMAIN Tail(queue) : Tail(queue)[i].session # s
    <3>1. ASSUME NEW j \in 2..Len(queue)
          PROVE  queue[j].session # s
      <4>1. j - 1 \in DOMAIN Tail(queue) /\ Tail(queue)[j - 1] = queue[j]
        BY <1>1
      <4>2. QED
        BY <2>1, <4>1
    <3>2. CASE o.session # s
      BY <1>1, <1>2, <2>1, <3>1, <3>2 DEF HeldAfter
    <3>3. CASE o.session = s
      <4>1. queue[1] = Op("watch", s)
        BY <1>3, <2>1, <3>3
      <4>2. QED
        BY <1>1, <3>1, <4>1 DEF HeldAfter
    <3>4. QED
      BY <3>2, <3>3
  <2>2. ASSUME NEW i \in DOMAIN Tail(queue), Tail(queue)[i] = Op("watch", s),
               \A j \in DOMAIN Tail(queue) : j > i => Tail(queue)[j].session # s
        PROVE  s \in HeldAfter(held, queue)
    <3>1. i + 1 \in DOMAIN queue /\ queue[i + 1] = Op("watch", s)
      BY <1>1, <2>2
    <3>2. ASSUME NEW j \in DOMAIN queue, j > i + 1
          PROVE  queue[j].session # s
      <4>1. j - 1 \in DOMAIN Tail(queue) /\ j - 1 > i /\ Tail(queue)[j - 1] = queue[j]
        BY <1>1, <3>2
      <4>2. QED
        BY <2>2, <4>1
    <3>3. QED
      BY <3>1, <3>2 DEF HeldAfter
  <2>3. QED
    BY <1>4, <2>1, <2>2 DEF HeldAfter
<1>5. ASSUME NEW s \in Sessions, s \in HeldAfter(held, queue)
      PROVE  s \in HeldAfter(now, Tail(queue))
  <2>1. CASE s \in held /\ \A i \in DOMAIN queue : queue[i].session # s
    BY <1>1, <1>2, <2>1 DEF HeldAfter
  <2>2. ASSUME NEW i \in DOMAIN queue, queue[i] = Op("watch", s),
               \A j \in DOMAIN queue : j > i => queue[j].session # s
        PROVE  s \in HeldAfter(now, Tail(queue))
    <3>1. \A j \in DOMAIN Tail(queue) : j + 1 \in DOMAIN queue /\ Tail(queue)[j] = queue[j + 1]
      BY <1>1
    <3>2. CASE i = 1
      <4>1. s \in now
        BY <1>3, <2>2, <3>2 DEF Op
      <4>2. \A j \in DOMAIN Tail(queue) : Tail(queue)[j].session # s
        BY <1>1, <2>2, <3>1, <3>2
      <4>3. QED
        BY <4>1, <4>2 DEF HeldAfter
    <3>3. CASE i # 1
      <4>1. i - 1 \in DOMAIN Tail(queue) /\ Tail(queue)[i - 1] = Op("watch", s)
        BY <1>1, <2>2, <3>3
      <4>2. \A j \in DOMAIN Tail(queue) : j > i - 1 => Tail(queue)[j].session # s
        BY <1>1, <2>2, <3>1
      <4>3. QED
        BY <4>1, <4>2 DEF HeldAfter
    <3>4. QED
      BY <3>2, <3>3
  <2>3. QED
    BY <1>5, <2>1, <2>2 DEF HeldAfter
<1>6. HeldAfter(now, Tail(queue)) = HeldAfter(held, queue)
  BY <1>4, <1>5 DEF HeldAfter
<1>7. QED
  BY <1>1, <1>2, <1>6

\* A watch op at the end of the queue adds its session.
LEMMA WatchQueued ==
  ASSUME NEW held \in SUBSET Sessions, NEW queue \in Seq(Ops), NEW s \in Sessions
  PROVE  HeldAfter(held, Append(queue, Op("watch", s))) = HeldAfter(held, queue) \cup {s}
<1>. DEFINE longer == Append(queue, Op("watch", s))
            n == Len(queue)
<1>1. /\ n \in Nat /\ DOMAIN queue = 1..n /\ DOMAIN longer = 1..(n + 1)
      /\ \A i \in 1..n : longer[i] = queue[i]
      /\ longer[n + 1] = Op("watch", s)
  BY DEF Ops, Op
<1>. HIDE DEF longer, n
<1>2. s \in HeldAfter(held, longer)
  BY <1>1 DEF HeldAfter
<1>3. ASSUME NEW r \in Sessions, r # s
      PROVE  r \in HeldAfter(held, longer) <=> r \in HeldAfter(held, queue)
  <2>1. longer[n + 1].session # r /\ longer[n + 1] # Op("watch", r)
    BY <1>1, <1>3 DEF Op
  <2>2. \A i \in DOMAIN longer : i \in DOMAIN queue \/ i = n + 1
    BY <1>1
  <2>3. \A i \in DOMAIN queue : i \in DOMAIN longer /\ longer[i] = queue[i]
    BY <1>1
  <2>4. QED
    BY <2>1, <2>2, <2>3 DEF HeldAfter
<1>4. HeldAfter(held, longer) = HeldAfter(held, queue) \cup {s}
  BY <1>2, <1>3 DEF HeldAfter
<1>5. QED
  BY <1>4 DEF longer

\* Removals are ops, one for each of the retired sessions and for nobody else.
LEMMA RemovalsAre ==
  ASSUME NEW gone \in SUBSET Sessions, NEW removals \in Removals(gone)
  PROVE  /\ removals \in Seq(Ops)
         /\ \A i \in DOMAIN removals : removals[i].op = "remove" /\ removals[i].session \in gone
         /\ \A s \in gone : \E i \in DOMAIN removals : removals[i].session = s
<1>1. PICK order \in Bijection(1..Cardinality(gone), gone) :
        removals = [i \in DOMAIN order |-> Op("remove", order[i])]
  BY DEF Removals
<1>2. Cardinality(gone) \in Nat
  BY SessionsAssumption, FS_Subset, FS_CardinalityType
<1>3. /\ order \in [1..Cardinality(gone) -> gone]
      /\ \A s \in gone : \E i \in 1..Cardinality(gone) : order[i] = s
  BY <1>1 DEF Bijection, Injection, Surjection
<1>4. DOMAIN removals = 1..Cardinality(gone)
      /\ \A i \in 1..Cardinality(gone) : removals[i] = [op |-> "remove", session |-> order[i]]
  BY <1>1, <1>3 DEF Op
<1>5. removals \in [1..Cardinality(gone) -> Ops]
  BY <1>1, <1>3 DEF Op, Ops
<1>6. QED
  BY <1>2, <1>3, <1>4, <1>5

\* Removals at the end of the queue take their sessions away.
LEMMA RemovalsQueued ==
  ASSUME NEW held \in SUBSET Sessions, NEW queue \in Seq(Ops),
         NEW gone \in SUBSET Sessions, NEW removals \in Removals(gone)
  PROVE  HeldAfter(held, queue \o removals) = HeldAfter(held, queue) \ gone
<1>. DEFINE longer == queue \o removals
            n == Len(queue)
            m == Len(removals)
<1>1. /\ n \in Nat /\ m \in Nat /\ DOMAIN removals = 1..m
      /\ DOMAIN queue = 1..n /\ DOMAIN longer = 1..(n + m)
      /\ \A i \in 1..n : longer[i] = queue[i]
      /\ \A i \in 1..m : n + i \in DOMAIN longer /\ longer[n + i] = removals[i]
  BY RemovalsAre
<1>2. \A i \in DOMAIN longer : i \in DOMAIN queue \/ (i > n /\ \E k \in 1..m : i = n + k)
  <2>1. ASSUME NEW i \in 1..(n + m), i > n
        PROVE  i - n \in 1..m /\ i = n + (i - n)
    BY <1>1, <2>1
  <2>2. QED
    BY <1>1, <2>1
<1>. HIDE DEF longer, n, m
<1>3. \A i \in DOMAIN queue : i \in DOMAIN longer /\ longer[i] = queue[i]
  BY <1>1
<1>4. ASSUME NEW s \in gone
      PROVE  s \notin HeldAfter(held, longer)
  <2>1. PICK k \in 1..m : removals[k].session = s
    BY <1>1, <1>4, RemovalsAre
  <2>2. n + k \in DOMAIN longer /\ longer[n + k].session = s
    BY <1>1, <2>1
  <2>3. ASSUME NEW i \in DOMAIN longer, longer[i] = Op("watch", s)
        PROVE  i \in DOMAIN queue /\ n + k > i
    <3>1. ASSUME NEW j \in 1..m
          PROVE  longer[n + j].op = "remove"
      <4>1. longer[n + j] = removals[j] /\ j \in DOMAIN removals
        BY <1>1
      <4>2. removals[j].op = "remove"
        BY <4>1, RemovalsAre
      <4>3. QED
        BY <4>1, <4>2
    <3>2. i \in DOMAIN queue
      BY <1>2, <2>3, <3>1 DEF Op
    <3>3. QED
      BY <1>1, <3>2
  <2>4. QED
    BY <2>2, <2>3 DEF HeldAfter
<1>5. ASSUME NEW s \in Sessions, s \notin gone
      PROVE  s \in HeldAfter(held, longer) <=> s \in HeldAfter(held, queue)
  <2>1. \A j \in 1..m : longer[n + j].session # s
    BY <1>1, <1>5, RemovalsAre
  <2>2. \A i \in DOMAIN longer : longer[i].session = s => i \in DOMAIN queue
    BY <1>2, <2>1
  <2>3. Op("watch", s).session = s
    BY DEF Op
  <2>4. QED
    BY <1>3, <2>2, <2>3 DEF HeldAfter
<1>6. HeldAfter(held, longer) = HeldAfter(held, queue) \ gone
  BY <1>4, <1>5 DEF HeldAfter
<1>7. QED
  BY <1>6 DEF longer

\* The session on the command line is a known one.
LEMMA FirstIsKnown ==
  ASSUME NEW S \in SUBSET Sessions, S # {}
  PROVE  First(S) \in S
<1>1. S \subseteq Nat
  BY SessionsAssumption
<1>2. \E s \in S : \A r \in S : ~ (<<r, s>> \in OpToRel(<, Nat))
  BY <1>1, WFMin, NatLessThanWellFounded
<1>3. \E s \in S : \A r \in S : s <= r
  <2>1. PICK s \in S : \A r \in S : ~ (<<r, s>> \in OpToRel(<, Nat))
    BY <1>2
  <2>2. \A r \in S : ~ (r < s)
    BY <1>1, <2>1 DEF OpToRel
  <2>3. QED
    BY <1>1, <2>2
<1>4. QED
  BY <1>3 DEF First

-----------------------------------------------------------------------------
(* The invariant *)

\* Every gap is a death that was noticed.
GapsAreDeaths == gaps <= deaths /\ (proc = "dead" => gaps < deaths)

Live == BeliefIsExact /\ OnlyKnownShareEnergy

SamplerInv == TypeOK /\ GapsAreDeaths /\ Live

LEMMA SamplerInvInit == Init => SamplerInv
<1>1. Init => TypeOK
  <2>1. <<>> \in Seq(Ops) /\ 0 \in 0..MaxDeaths /\ 0 \in 0..MaxFails
    BY BoundsAssumption
  <2>2. QED
    BY <2>1 DEF Init, TypeOK
<1>2. QED
  BY <1>1 DEF Init, SamplerInv, GapsAreDeaths, Live, BeliefIsExact, OnlyKnownShareEnergy

\* The sampler and what is believed of it do not move, and nobody is forgotten.
LEMMA SamplerUntouched ==
  ASSUME SamplerInv, TypeOK', UNCHANGED <<proc, watchSent, gaps, deaths, sampler>>,
         known \subseteq known'
  PROVE  SamplerInv'
BY DEF SamplerInv, GapsAreDeaths, Live, BeliefIsExact, OnlyKnownShareEnergy, sampler

\* No sampler is left, or a dead one.
LEMMA NoLiveSampler ==
  ASSUME TypeOK', GapsAreDeaths', proc' # "alive"
  PROVE  SamplerInv'
BY DEF SamplerInv, Live, BeliefIsExact, OnlyKnownShareEnergy

LEMMA SamplerInvStep == SamplerInv /\ [Next]_vars => SamplerInv'
<1>. SUFFICES ASSUME SamplerInv, [Next]_vars PROVE SamplerInv'
  OBVIOUS
<1>. USE DEF watchState, sampler, bounds
<1>0. TypeOK /\ GapsAreDeaths /\ BeliefIsExact /\ OnlyKnownShareEnergy
  BY DEF SamplerInv, Live
<1>1. ASSUME NEW s \in Sessions, Hook(s)
      PROVE  SamplerInv'
  BY <1>0, <1>1, SamplerUntouched DEF Hook, TypeOK
<1>2. ASSUME NEW s \in Sessions, FallIdle(s)
      PROVE  SamplerInv'
  BY <1>0, <1>2, SamplerUntouched DEF FallIdle, TypeOK
<1>3. ASSUME BackoffElapses
      PROVE  SamplerInv'
  BY <1>0, <1>3, SamplerUntouched DEF BackoffElapses, TypeOK
<1>4. ASSUME SampleWindow
      PROVE  SamplerInv'
  BY <1>0, <1>4, SamplerUntouched DEF SampleWindow, TypeOK
<1>5. ASSUME ApplyOp
      PROVE  SamplerInv'
  <2>1. /\ ops \in Seq(Ops) /\ ops # <<>> /\ ops' = Tail(ops)
        /\ outputs \in SUBSET Sessions /\ watches \in SUBSET Sessions
        /\ outputs' = Applied(outputs, Head(ops)) /\ watches' = Applied(watches, Head(ops))
    BY <1>0, <1>5 DEF ApplyOp, TypeOK
  <2>2. HeldAfter(outputs, ops)' = HeldAfter(outputs, ops) /\ HeldAfter(watches, ops)' = HeldAfter(watches, ops)
    <3>1. HeldAfter(outputs', ops') = HeldAfter(outputs, ops)
      BY <2>1, FirstApplied
    <3>2. HeldAfter(watches', ops') = HeldAfter(watches, ops)
      BY <2>1, FirstApplied
    <3>3. QED
      BY <3>1, <3>2
  <2>3. TypeOK'
    <3>1. ops' \in Seq(Ops) /\ outputs' \subseteq Sessions
      BY <2>1, FirstApplied
    <3>2. watches' \subseteq outputs'
      BY <1>0, <2>1 DEF Applied, TypeOK
    <3>3. QED
      BY <1>0, <1>5, <3>1, <3>2 DEF ApplyOp, TypeOK
  <2>4. QED
    BY <1>0, <1>5, <2>2, <2>3
    DEF ApplyOp, SamplerInv, GapsAreDeaths, Live, BeliefIsExact, OnlyKnownShareEnergy
<1>6. ASSUME Die
      PROVE  SamplerInv'
  <2>1. TypeOK' /\ proc' = "dead"
    BY <1>0, <1>6, BoundsAssumption DEF Die, NoSampler, TypeOK
  <2>2. GapsAreDeaths'
    BY <1>0, <1>6 DEF Die, GapsAreDeaths, TypeOK
  <2>3. QED
    BY <2>1, <2>2, NoLiveSampler
<1>7. ASSUME NEW S \in SUBSET Sessions, BeginPass(S)
      PROVE  SamplerInv'
  <2>1. TypeOK'
    BY <1>0, <1>7 DEF BeginPass, TypeOK
  <2>2. QED
    BY <1>7, <2>1, SamplerUntouched DEF BeginPass
<1>8. ASSUME NEW S \in SUBSET Sessions, IngestFails(S)
      PROVE  SamplerInv'
  <2>1. TypeOK'
    BY <1>0, <1>8, BoundsAssumption DEF IngestFails, TypeOK
  <2>2. QED
    BY <1>8, <2>1, SamplerUntouched DEF IngestFails
<1>9. ASSUME NEW S \in SUBSET Sessions, BeginRefresh(S)
      PROVE  SamplerInv'
  BY <1>0, <1>9, SamplerUntouched DEF BeginRefresh, TypeOK
<1>10. ASSUME Retire
       PROVE  SamplerInv'
  <2>. DEFINE gone == known \cap idle
  <2>1. /\ known' = known \ gone /\ watchSent' = watchSent \ gone
        /\ UNCHANGED <<gaps, deaths>>
    BY <1>10 DEF Retire
  <2>2. CASE known' = {}
    <3>1. /\ proc' = "none" /\ ops' = <<>> /\ outputs' = {} /\ watches' = {} /\ idle' = {}
          /\ sampled' \in {sampled, sampled \cup outputs} /\ pc' = "reap"
          /\ UNCHANGED <<hooked, rooted, backoff, gaps, refresh, leaving, deaths, fails>>
      BY <1>10, <2>2 DEF Retire, NoSampler
    <3>2. <<>> \in Seq(Ops) /\ sampled' \subseteq Sessions /\ watchSent' \subseteq known'
      BY <1>0, <2>1, <3>1 DEF TypeOK
    <3>3. TypeOK'
      BY <1>0, <2>1, <3>1, <3>2 DEF TypeOK
    <3>4. GapsAreDeaths'
      BY <1>0, <2>1, <3>1 DEF GapsAreDeaths
    <3>5. QED
      BY <3>1, <3>4, <3>3, NoLiveSampler
  <2>3. CASE known' # {} /\ proc # "alive"
    <3>1. TypeOK' /\ UNCHANGED proc
      BY <1>0, <1>10, <2>3 DEF Retire, TypeOK
    <3>2. GapsAreDeaths'
      BY <1>0, <2>1, <3>1 DEF GapsAreDeaths
    <3>3. QED
      BY <2>3, <3>1, <3>2, NoLiveSampler
  <2>4. CASE known' # {} /\ proc = "alive"
    <3>1. PICK removals \in Removals(gone) : ops' = ops \o removals
      BY <1>10, <2>4 DEF Retire
    <3>2. gone \in SUBSET Sessions /\ ops \in Seq(Ops)
          /\ outputs \in SUBSET Sessions /\ watches \in SUBSET Sessions
      BY <1>0 DEF TypeOK
    <3>3. removals \in Seq(Ops)
      BY <3>1, <3>2, RemovalsAre
    <3>4. UNCHANGED <<proc, outputs, watches, sampled>>
      BY <1>10, <2>4 DEF Retire
    <3>5. ops' \in Seq(Ops)
      BY <3>1, <3>2, <3>3, ConcatProperties
    <3>6. TypeOK'
      BY <1>0, <1>10, <2>1, <3>4, <3>5 DEF Retire, TypeOK
    <3>7. \A held \in SUBSET Sessions :
            HeldAfter(held, ops \o removals) = HeldAfter(held, ops) \ gone
      <4>. HIDE DEF gone
      <4>1. QED
        BY <3>1, <3>2, RemovalsQueued
    <3>8. HeldAfter(outputs', ops') = HeldAfter(outputs, ops) \ gone
      BY <3>1, <3>2, <3>4, <3>7
    <3>9. HeldAfter(watches', ops') = HeldAfter(watches, ops) \ gone
      BY <3>1, <3>2, <3>4, <3>7
    <3>10. QED
      BY <1>0, <2>1, <2>4, <3>4, <3>6, <3>8, <3>9
      DEF SamplerInv, GapsAreDeaths, Live, BeliefIsExact, OnlyKnownShareEnergy
  <2>5. QED
    BY <2>2, <2>3, <2>4
<1>11. ASSUME Reap
       PROVE  SamplerInv'
  <2>1. CASE proc = "dead"
    <3>1. GapsAreDeaths'
      BY <1>0, <1>11, <2>1 DEF Reap, GapsAreDeaths, TypeOK
    <3>2. TypeOK' /\ proc' = "none"
      BY <1>0, <1>11, <2>1, <3>1, BoundsAssumption DEF Reap, TypeOK, GapsAreDeaths
    <3>3. QED
      BY <3>1, <3>2, NoLiveSampler
  <2>2. CASE proc # "dead"
    BY <1>0, <1>11, <2>2, SamplerUntouched DEF Reap, TypeOK
  <2>3. QED
    BY <2>1, <2>2
<1>12. ASSUME SpawnFails
       PROVE  SamplerInv'
  <2>1. TypeOK'
    BY <1>0, <1>12, BoundsAssumption DEF SpawnFails, TypeOK
  <2>2. QED
    BY <1>12, <2>1, SamplerUntouched DEF SpawnFails
<1>13. ASSUME Ensure
       PROVE  SamplerInv'
  <2>1. CASE known # {} /\ proc = "none" /\ ~backoff
    <3>1. /\ proc' = "alive" /\ watchSent' = {} /\ ops' = <<>> /\ watches' = {}
          /\ outputs' = {First(known)} /\ First(known) \in known
      BY <1>0, <1>13, <2>1, FirstIsKnown DEF Ensure, SentAfterSpawn, TypeOK
    <3>2. TypeOK' /\ UNCHANGED <<known, gaps, deaths>>
      BY <1>0, <1>13, <3>1 DEF Ensure, TypeOK
    <3>3. HeldAfter(outputs', ops') = outputs' /\ HeldAfter(watches', ops') = {}
      BY <1>0, <3>1, NothingQueued DEF TypeOK
    <3>4. QED
      BY <1>0, <2>1, <3>1, <3>2, <3>3
      DEF SamplerInv, GapsAreDeaths, Live, BeliefIsExact, OnlyKnownShareEnergy
  <2>2. CASE ~(known # {} /\ proc = "none" /\ ~backoff)
    BY <1>0, <1>13, <2>2, SamplerUntouched DEF Ensure, TypeOK
  <2>3. QED
    BY <2>1, <2>2
<1>14. ASSUME NEW s \in Sessions, Refresh(s)
       PROVE  SamplerInv'
  <2>1. CASE NothingToSend(s)
    BY <1>0, <1>14, <2>1, SamplerUntouched DEF Refresh, NothingToSend, TypeOK
  <2>2. CASE SendWatch(s) /\ proc = "alive"
    <3>1. /\ ops' = Append(ops, Op("watch", s)) /\ watchSent' = watchSent \cup {s}
          /\ s \in known /\ Op("watch", s) \in Ops
          /\ UNCHANGED <<proc, gaps, deaths, known, outputs, watches>>
      BY <1>14, <2>2 DEF SendWatch, Refresh, Op, Ops
    <3>2. ops' \in Seq(Ops)
      BY <1>0, <3>1 DEF TypeOK
    <3>3. TypeOK'
      BY <1>0, <1>14, <2>2, <3>1, <3>2 DEF SendWatch, Refresh, TypeOK
    <3>4. HeldAfter(outputs', ops') = HeldAfter(outputs, ops) \cup {s}
          /\ HeldAfter(watches', ops') = HeldAfter(watches, ops) \cup {s}
      BY <1>0, <3>1, WatchQueued DEF TypeOK
    <3>5. QED
      BY <1>0, <2>2, <3>1, <3>3, <3>4
      DEF SamplerInv, GapsAreDeaths, Live, BeliefIsExact, OnlyKnownShareEnergy
  <2>3. CASE SendWatch(s) /\ proc = "dead"
    <3>1. GapsAreDeaths' /\ proc' # "alive"
      BY <1>0, <1>14, <2>3 DEF SendWatch, Refresh, GapsAreDeaths, TypeOK
    <3>2. TypeOK'
      <4>1. gaps' \in 0..MaxDeaths /\ proc' \in {"none", "dead"} /\ backoff' \in BOOLEAN
        <5>1. \/ UNCHANGED <<proc, backoff, gaps>>
              \/ proc' = "none" /\ backoff' = TRUE /\ gaps' = gaps + 1
          BY <2>3 DEF SendWatch
        <5>2. gaps + 1 \in 0..MaxDeaths
          BY <1>0, <2>3, BoundsAssumption DEF GapsAreDeaths, TypeOK
        <5>3. QED
          BY <1>0, <2>3, <5>1, <5>2 DEF TypeOK
      <4>2. ops' = ops /\ watchSent' \subseteq known'
        BY <1>0, <1>14, <2>3 DEF SendWatch, Refresh, TypeOK
      <4>3. QED
        BY <1>0, <1>14, <4>1, <4>2 DEF Refresh, TypeOK
    <3>3. QED
      BY <3>1, <3>2, NoLiveSampler
  <2>4. QED
    BY <1>14, <2>1, <2>2, <2>3 DEF Refresh, SendWatch
<1>15. ASSUME EndPass
       PROVE  SamplerInv'
  <2>1. CASE leaving
    <3>1. TypeOK' /\ GapsAreDeaths' /\ proc' = "none"
      BY <1>0, <1>15, <2>1 DEF EndPass, NoSampler, GapsAreDeaths, TypeOK
    <3>2. QED
      BY <3>1, NoLiveSampler
  <2>2. CASE ~leaving
    BY <1>0, <1>15, <2>2, SamplerUntouched DEF EndPass, TypeOK
  <2>3. QED
    BY <2>1, <2>2
<1>16. ASSUME RebuildFails
       PROVE  SamplerInv'
  <2>1. TypeOK'
    BY <1>0, <1>16, BoundsAssumption DEF RebuildFails, TypeOK
  <2>2. QED
    BY <1>16, <2>1, SamplerUntouched DEF RebuildFails
<1>17. ASSUME Shutdown
       PROVE  SamplerInv'
  <2>1. TypeOK' /\ GapsAreDeaths' /\ proc' = "none"
    BY <1>0, <1>17 DEF Shutdown, NoSampler, GapsAreDeaths, TypeOK
  <2>2. QED
    BY <2>1, NoLiveSampler
<1>18. ASSUME UNCHANGED vars
       PROVE  SamplerInv'
  BY <1>0, <1>18, SamplerUntouched DEF vars, TypeOK
<1>19. QED
  BY <1>1, <1>2, <1>3, <1>4, <1>5, <1>6, <1>7, <1>8, <1>9, <1>10, <1>11, <1>12, <1>13, <1>14,
     <1>15, <1>16, <1>17, <1>18
  DEF Next, World, PassStep, Failures

LEMMA AlwaysSamplerInv == Spec => []SamplerInv
  BY SamplerInvInit, SamplerInvStep, PTL DEF Spec

\* The ranges of the supervisor's and the sampler's variables; among them that no
\* more gaps are published than samplers died (watch.rs, reap_dead_sampler).
THEOREM SamplerTypeCorrect == Spec => []TypeOK
<1>1. SamplerInv => TypeOK
  BY DEF SamplerInv
<1>2. QED
  BY AlwaysSamplerInv, <1>1, PTL

\* What the supervisor has announced (watch_sent) is what the sampler measures once
\* it has applied the ops under way, whatever is retired, comes back or dies
\* (watch.rs, send_watch_op, retire_idle_sessions, ensure_sampler; apply_op).
THEOREM BeliefStaysExact == Spec => []BeliefIsExact
<1>1. SamplerInv => BeliefIsExact
  BY DEF SamplerInv, Live
<1>2. QED
  BY AlwaysSamplerInv, <1>1, PTL

\* No window's energy is shared with a session the supervisor has forgotten, but
\* for removals on their way (watch.rs, retire_idle_sessions).
THEOREM EnergyForTheKnown == Spec => []OnlyKnownShareEnergy
<1>1. SamplerInv => OnlyKnownShareEnergy
  BY DEF SamplerInv, Live
<1>2. QED
  BY AlwaysSamplerInv, <1>1, PTL

\* A sampler that died leaves its place with exactly one gap published, unless
\* nobody is left to measure (watch.rs, reap_dead_sampler, send_watch_op).
THEOREM EveryDeathIsAGap == Spec => DeathIsAGap
<1>1. ASSUME SamplerInv, [Next]_vars
      PROVE  /\ gaps' # gaps => proc = "dead" /\ proc' = "none" /\ gaps' = gaps + 1
             /\ proc = "dead" /\ proc' # "dead" /\ known' # {} /\ ~leaving' => gaps' # gaps
  <2>. USE DEF watchState, sampler, bounds
  <2>0. gaps \in Nat
    BY <1>1 DEF SamplerInv, TypeOK
  <2>1. CASE \E s \in Sessions : Hook(s) \/ FallIdle(s)
    BY <2>1 DEF Hook, FallIdle
  <2>2. CASE BackoffElapses \/ SampleWindow \/ ApplyOp \/ Die
    BY <2>2 DEF BackoffElapses, SampleWindow, ApplyOp, Die
  <2>3. CASE \E S \in SUBSET Sessions : BeginPass(S) \/ BeginRefresh(S) \/ IngestFails(S)
    BY <2>3 DEF BeginPass, BeginRefresh, IngestFails
  <2>4. CASE Retire
    BY <2>4 DEF Retire
  <2>5. CASE Reap
    BY <2>0, <2>5 DEF Reap
  <2>6. CASE Ensure \/ SpawnFails
    BY <2>6 DEF Ensure, SpawnFails
  <2>7. CASE \E s \in Sessions : Refresh(s)
    BY <2>0, <2>7 DEF Refresh, SendWatch, NothingToSend
  <2>8. CASE EndPass \/ RebuildFails \/ Shutdown
    BY <2>8 DEF EndPass, RebuildFails, Shutdown
  <2>9. CASE UNCHANGED vars
    BY <2>9 DEF vars
  <2>10. QED
    BY <1>1, <2>1, <2>2, <2>3, <2>4, <2>5, <2>6, <2>7, <2>8, <2>9
    DEF Next, World, PassStep, Failures
<1>2. QED
  BY AlwaysSamplerInv, <1>1, PTL DEF Spec, DeathIsAGap

-----------------------------------------------------------------------------
(* The pipes to a child (SidecarProtocol) *)

Requests == [id : Nat, asks : Questions \cup {NoQuestion}]
Lines == [id : Nat, tells : Questions \cup {NoQuestion}]

SidecarTypeOK ==
  /\ child \in {"running", "exited"}
  /\ stdin \in Seq(Requests) /\ channel \in Seq(Lines)
  /\ nextId \in Nat /\ asking \in Requests
  /\ returned \subseteq [asked : Questions \cup {NoQuestion}, told : Questions \cup {NoQuestion}]

(* An answer carries nothing but an id to be told by.  It can be trusted     *)
(* because no request that is written later has the id of one that is still  *)
(* in a pipe: ids in the pipes are at most next_id, and the one that is       *)
(* waited for is next_id and stands for the same question everywhere.        *)
Known(id) == id <= nextId
PipesAgree ==
  /\ asking # Idle => asking.id = nextId /\ asking.id > 0
  /\ \A i \in DOMAIN stdin :
        /\ Known(stdin[i].id)
        /\ asking # Idle /\ stdin[i].id = asking.id => stdin[i].asks = asking.asks
  /\ \A i \in DOMAIN channel :
        /\ Known(channel[i].id)
        /\ asking # Idle /\ channel[i].id = asking.id => channel[i].tells = asking.asks

SidecarInv == SidecarTypeOK /\ PipesAgree /\ AnswerIsOwn

LEMMA IdleTypes == Idle \in Requests /\ Idle.id = 0 /\ Stray \in Lines /\ Stray.id = 0
  BY DEF Idle, Stray, Requests, Lines

LEMMA SidecarInvInit == SidecarInit => SidecarInv
  BY IdleTypes DEF SidecarInit, SidecarInv, SidecarTypeOK, PipesAgree, AnswerIsOwn

\* A line at the end of a pipe, and a line taken from its front.
LEMMA PipeAppend ==
  ASSUME NEW S, NEW s \in Seq(S), NEW e \in S
  PROVE  /\ Append(s, e) \in Seq(S)
         /\ \A i \in DOMAIN Append(s, e) :
               \/ i \in DOMAIN s /\ Append(s, e)[i] = s[i]
               \/ Append(s, e)[i] = e
  OBVIOUS

LEMMA PipeLines ==
  ASSUME NEW S, NEW s \in Seq(S)
  PROVE  \A i \in DOMAIN s : s[i] \in S
  OBVIOUS

LEMMA PipeTail ==
  ASSUME NEW S, NEW s \in Seq(S), s # <<>>
  PROVE  /\ Tail(s) \in Seq(S) /\ Head(s) \in S
         /\ 1 \in DOMAIN s /\ Head(s) = s[1]
         /\ \A i \in DOMAIN Tail(s) : i + 1 \in DOMAIN s /\ Tail(s)[i] = s[i + 1]
  OBVIOUS

LEMMA SidecarInvStep == SidecarInv /\ [SidecarNext]_sidecarVars => SidecarInv'
<1>. SUFFICES ASSUME SidecarInv, [SidecarNext]_sidecarVars
              PROVE  SidecarInv'
  OBVIOUS
<1>. USE IdleTypes DEF SidecarInv, SidecarTypeOK, PipesAgree, AnswerIsOwn, Known
<1>1. ASSUME NEW q \in Questions, AskChild(q)
      PROVE  SidecarInv'
  <2>. DEFINE m == [id |-> nextId + 1, asks |-> q]
  <2>1. /\ m \in Requests /\ m.id > 0 /\ m # Idle /\ asking' = m /\ nextId' = nextId + 1
        /\ stdin' = stdin \/ stdin' = Append(stdin, m)
    BY <1>1 DEF AskChild, NewId, Written, Requests, Idle
  <2>2. /\ Append(stdin, m) \in Seq(Requests)
        /\ \A i \in DOMAIN Append(stdin, m) :
              \/ i \in DOMAIN stdin /\ Append(stdin, m)[i] = stdin[i]
              \/ Append(stdin, m)[i] = m
    BY <2>1, PipeAppend
  <2>3. \A i \in DOMAIN stdin : stdin[i].id \in Nat /\ stdin[i].id < m.id
    <3>1. \A i \in DOMAIN stdin : stdin[i] \in Requests
      BY PipeLines
    <3>2. QED
      BY <3>1 DEF Requests
  <2>4. \A i \in DOMAIN channel : channel[i].id \in Nat /\ channel[i].id < m.id
    <3>1. \A i \in DOMAIN channel : channel[i] \in Lines
      BY PipeLines
    <3>2. QED
      BY <3>1 DEF Lines
  <2>. HIDE DEF m
  <2>5. stdin' \in Seq(Requests) /\ m.id = nextId + 1
    BY <2>1, <2>2 DEF m
  <2>6. \A i \in DOMAIN stdin' :
          stdin'[i].id <= nextId' /\ (stdin'[i].id = m.id => stdin'[i].asks = m.asks)
    BY <2>1, <2>2, <2>3, <2>5, SMTT(30)
  <2>7. \A i \in DOMAIN channel' : channel'[i].id <= nextId' /\ channel'[i].id # m.id
    BY <1>1, <2>1, <2>4, <2>5 DEF AskChild
  <2>8. QED
    BY <1>1, <2>1, <2>5, <2>6, <2>7 DEF AskChild
<1>2. CASE AskFails
  <2>1. /\ asking' = Idle /\ nextId' = nextId + 1
        /\ UNCHANGED <<child, stdin, channel, returned>>
    BY <1>2 DEF AskFails, NewId
  <2>2. /\ \A i \in DOMAIN stdin : stdin[i] \in Requests
        /\ \A i \in DOMAIN channel : channel[i] \in Lines
    BY PipeLines
  <2>3. /\ \A i \in DOMAIN stdin : stdin[i].id <= nextId + 1
        /\ \A i \in DOMAIN channel : channel[i].id <= nextId + 1
    BY <2>2 DEF Requests, Lines
  <2>4. QED
    BY <2>1, <2>3
<1>3. CASE SendOp
  <2>1. /\ Append(stdin, Idle) \in Seq(Requests)
        /\ \A i \in DOMAIN Append(stdin, Idle) :
              \/ i \in DOMAIN stdin /\ Append(stdin, Idle)[i] = stdin[i]
              \/ Append(stdin, Idle)[i] = Idle
    BY PipeAppend
  <2>2. QED
    BY <1>3, <2>1 DEF SendOp, Written
<1>4. CASE ReceiveLine
  <2>1. /\ Tail(channel) \in Seq(Lines) /\ Head(channel) \in Lines
        /\ 1 \in DOMAIN channel /\ Head(channel) = channel[1]
        /\ \A i \in DOMAIN Tail(channel) :
              i + 1 \in DOMAIN channel /\ Tail(channel)[i] = channel[i + 1]
    BY <1>4, PipeTail DEF ReceiveLine
  <2>2. CASE Matches(Head(channel))
    <3>1. /\ Head(channel).tells = asking.asks
          /\ returned' = returned \cup {[asked |-> asking.asks, told |-> asking.asks]}
          /\ asking' = Idle
      BY <1>4, <2>1, <2>2 DEF ReceiveLine, Matches
    <3>2. QED
      BY <1>4, <2>1, <3>1 DEF ReceiveLine, Requests
  <2>3. CASE ~ Matches(Head(channel))
    BY <1>4, <2>1, <2>3 DEF ReceiveLine
  <2>4. QED
    BY <2>2, <2>3
<1>5. CASE RequestTimesOut \/ ChannelCloses
  BY <1>5 DEF RequestTimesOut, ChannelCloses
<1>6. CASE AnswerNext
  <2>. DEFINE answer == [id |-> Head(stdin).id, tells |-> Head(stdin).asks]
  <2>1. /\ Tail(stdin) \in Seq(Requests) /\ Head(stdin) \in Requests
        /\ 1 \in DOMAIN stdin /\ Head(stdin) = stdin[1]
        /\ \A i \in DOMAIN Tail(stdin) :
              i + 1 \in DOMAIN stdin /\ Tail(stdin)[i] = stdin[i + 1]
    BY <1>6, PipeTail DEF AnswerNext
  <2>2. answer \in Lines
    BY <2>1 DEF Requests, Lines
  <2>3. /\ Append(channel, answer) \in Seq(Lines)
        /\ \A i \in DOMAIN Append(channel, answer) :
              \/ i \in DOMAIN channel /\ Append(channel, answer)[i] = channel[i]
              \/ Append(channel, answer)[i] = answer
    BY <2>2, PipeAppend
  <2>4. /\ answer.id <= nextId
        /\ asking # Idle /\ answer.id = asking.id => answer.tells = asking.asks
    BY <2>1
  <2>5. channel' = channel \/ channel' = Append(channel, answer)
    BY <1>6 DEF AnswerNext
  <2>. HIDE DEF answer
  <2>6. channel' \in Seq(Lines)
    BY <2>3, <2>5
  <2>7. \A i \in DOMAIN channel' :
          /\ channel'[i].id <= nextId
          /\ asking # Idle /\ channel'[i].id = asking.id => channel'[i].tells = asking.asks
    BY <2>3, <2>4, <2>5
  <2>8. QED
    BY <1>6, <2>1, <2>6, <2>7 DEF AnswerNext
<1>7. CASE Mutter
  <2>1. /\ Append(channel, Stray) \in Seq(Lines)
        /\ \A i \in DOMAIN Append(channel, Stray) :
              \/ i \in DOMAIN channel /\ Append(channel, Stray)[i] = channel[i]
              \/ Append(channel, Stray)[i] = Stray
    BY PipeAppend
  <2>2. QED
    BY <1>7, <2>1, SMTT(30) DEF Mutter
<1>8. CASE ChildExits
  BY <1>8 DEF ChildExits
<1>9. CASE Respawn
  <2>1. /\ child' = "running" /\ stdin' = <<>> /\ channel' = <<>> /\ nextId' = 0
        /\ asking' = Idle /\ returned' = returned
    BY <1>9 DEF Respawn
  <2>2. QED
    BY <2>1
<1>10. CASE UNCHANGED sidecarVars
  <2>1. /\ child' = child /\ stdin' = stdin /\ channel' = channel /\ nextId' = nextId
        /\ asking' = asking /\ returned' = returned
    BY <1>10 DEF sidecarVars
  <2>2. QED
    BY <2>1
<1>11. QED
  BY <1>1, <1>2, <1>3, <1>4, <1>5, <1>6, <1>7, <1>8, <1>9, <1>10
  DEF SidecarNext, CallerStep, ChildStep

\* What a request returns was answered to it, however many requests before it timed
\* out or failed, whatever the child printed beside, and however many children there
\* were (af-sidecar, request).
THEOREM NoAnswerGoesAstray == SidecarSpec => []AnswerIsOwn
<1>1. SidecarInv => AnswerIsOwn
  BY DEF SidecarInv
<1>2. QED
  BY SidecarInvInit, SidecarInvStep, <1>1, PTL DEF SidecarSpec
=============================================================================
