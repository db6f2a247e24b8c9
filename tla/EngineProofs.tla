---------------------------- MODULE EngineProofs ----------------------------
(***************************************************************************)
(* Proofs about what the engine keeps, for every value of the constants:   *)
(* streams, incidents and retained events stay within their limits, an     *)
(* open incident about a rate has the baseline that shows it, and the      *)
(* samples of a window are in the order of their events.                   *)
(***************************************************************************)
EXTENDS IngestProofs

(* There is room for an incident on every stream: 16 <= 32 in the code.    *)
RoomForOpen == MAX_STREAMS <= MAX_INCIDENTS

(* What holds of every engine state, within a transaction as well: the     *)
(* retained events alone may exceed their limit until Finish forgets some, *)
(* which it can do by their order because no ID is retained twice.         *)
Sized(st) ==
  /\ IsFiniteSet(DOMAIN st.streams) /\ Cardinality(DOMAIN st.streams) <= MAX_STREAMS
  /\ IsFiniteSet(st.incidents) /\ Cardinality(st.incidents) <= MAX_INCIDENTS
  /\ IsFiniteSet(st.dedup)
  /\ \A d \in st.dedup : d.ts >= st.floor
  /\ \A d, e \in st.dedup : d.id = e.id => d = e

(* A tenant without a row is within every limit.                           *)
LEMMA EmptySized == Sized(Empty)
<1>1. /\ Empty.streams = [x \in {} |-> 0] /\ DOMAIN Empty.streams = {}
      /\ Empty.incidents = {} /\ Empty.dedup = {}
  BY DEF Empty
<1> QED  BY <1>1, FS_EmptySet, SizesAssumption DEF Sized

-----------------------------------------------------------------------------
(***************************************************************************)
(* _prune.                                                                 *)
(***************************************************************************)

(* Pruning adds nothing: an incident that expires replaces itself.         *)
LEMMA PruneSized ==
  ASSUME NEW st, IsEngine(st), Sized(st), NEW now \in Int
  PROVE  Sized(Prune(st, now))
<1> DEFINE cutoff == now - RETENTION
           kept   == {i \in st.incidents : i.opened > cutoff}
           live   == {x \in DOMAIN st.streams : st.streams[x].last > cutoff}
           Expirer(i) == {x \in live : /\ Lapses(st.streams[x], kept, cutoff)
                                       /\ IncidentOf(kept, st.streams[x]) = i}
           Aged(i) == IF Expirer(i) = {} THEN i
                      ELSE LET x == CHOOSE x \in Expirer(i) : TRUE
                           IN Resolve(i, "expired", st.streams[x].baseline[1].ts + RETENTION)
           aged    == {Aged(i) : i \in kept}
           streams == [x \in live |-> PruneStream(st.streams[x], kept, cutoff)]
           dedup   == {d \in st.dedup : d.ts > cutoff}
<1>1. /\ Prune(st, now).streams = streams /\ Prune(st, now).dedup = dedup
      /\ Prune(st, now).incidents = aged /\ Prune(st, now).floor = st.floor
  BY DEF Prune, IsEngine
<1>2. IsFiniteSet(live) /\ Cardinality(live) <= MAX_STREAMS
  <2>1. live \in SUBSET DOMAIN st.streams
    OBVIOUS
  <2> HIDE DEF live
  <2>2. /\ IsFiniteSet(live) /\ Cardinality(live) <= Cardinality(DOMAIN st.streams)
    BY <2>1, FS_Subset DEF Sized
  <2> QED  BY <2>2, FS_CardinalityType, SizesAssumption DEF Sized
<1>3. IsFiniteSet(aged) /\ Cardinality(aged) <= MAX_INCIDENTS
  <2> DEFINE age == [i \in kept |-> Aged(i)]
  <2>1. kept \in SUBSET st.incidents
    OBVIOUS
  <2>2. age \in Surjection(kept, aged)
    <3>1. age \in [kept -> aged]
      <4> HIDE DEF kept, Aged
      <4> QED  OBVIOUS
    <3>2. \A j \in aged : \E i \in kept : age[i] = j
      <4> HIDE DEF kept, Aged
      <4> QED  OBVIOUS
    <3> HIDE DEF age, aged, kept, Aged
    <3> QED  BY <3>1, <3>2 DEF Surjection
  <2> HIDE DEF kept, aged, age
  <2>3. IsFiniteSet(kept) /\ Cardinality(kept) <= Cardinality(st.incidents)
    BY <2>1, FS_Subset DEF Sized
  <2>4. IsFiniteSet(aged) /\ Cardinality(aged) <= Cardinality(kept)
    BY <2>2, <2>3, FS_Surjection
  <2> QED  BY <2>3, <2>4, FS_CardinalityType, SizesAssumption DEF Sized
<1>4. IsFiniteSet(dedup) /\ dedup \subseteq st.dedup
  <2>1. dedup \in SUBSET st.dedup
    OBVIOUS
  <2> HIDE DEF dedup
  <2> QED  BY <2>1, FS_Subset DEF Sized
<1>5. DOMAIN streams = live
  OBVIOUS
<1> HIDE DEF live, kept, aged, dedup, streams
<1> QED  BY <1>1, <1>2, <1>3, <1>4, <1>5 DEF Sized

-----------------------------------------------------------------------------
(***************************************************************************)
(* One event.                                                              *)
(***************************************************************************)

(* The open incidents are no more than the streams they are active on.     *)
LEMMA OpenBounded ==
  ASSUME NEW st, OpenIsActive(st), IdsUnique(st), NEW hosts, IsFiniteSet(hosts),
         NEW open, open \subseteq st.incidents,
         \A i \in open : i.status = "open" /\ i.stream \in hosts
  PROVE  IsFiniteSet(open) /\ Cardinality(open) <= Cardinality(hosts)
<1> DEFINE host == [i \in open |-> i.stream]
<1>1. host \in [open -> hosts]
  OBVIOUS
<1>2. \A i, j \in open : host[i] = host[j] => i = j
  BY DEF OpenIsActive, IdsUnique
<1>3. host \in Injection(open, hosts)
  BY <1>1, <1>2 DEF Injection, IsInjective
<1> QED  BY <1>3, FS_Injection

(* Opening an incident on a stream that has none: if the list is full, one *)
(* of its incidents is closed and makes room.                              *)
LEMMA RoomMade ==
  ASSUME NEW st, GoodEngine(st), Sized(st), RoomForOpen, NEW x,
         IF x \in DOMAIN st.streams THEN st.streams[x].active = None
         ELSE Cardinality(DOMAIN st.streams) < MAX_STREAMS,
         NEW found
  PROVE  /\ IsFiniteSet(MakeRoom(st.incidents) \cup {found})
         /\ Cardinality(MakeRoom(st.incidents) \cup {found}) <= MAX_INCIDENTS
<1> DEFINE open   == {i \in st.incidents : i.status = "open"}
           closed == {i \in st.incidents : i.status # "open"}
           hosts  == DOMAIN st.streams \ {x}
           room   == MakeRoom(st.incidents)
<1>1. /\ st.incidents \in SUBSET IncidentRecord /\ OpenIsActive(st) /\ IdsUnique(st)
      /\ MAX_STREAMS \in Nat /\ MAX_INCIDENTS \in Nat
  BY EngineParts, SizesAssumption DEF GoodEngine
<1>2. IsFiniteSet(hosts) /\ Cardinality(hosts) < MAX_STREAMS
  <2>1. /\ IsFiniteSet(DOMAIN st.streams \ {x})
        /\ Cardinality(DOMAIN st.streams \ {x}) =
             IF x \in DOMAIN st.streams THEN Cardinality(DOMAIN st.streams) - 1
             ELSE Cardinality(DOMAIN st.streams)
    BY FS_RemoveElement DEF Sized
  <2> QED  BY <1>1, <2>1, FS_CardinalityType DEF Sized
<1>3. Cardinality(open) < MAX_INCIDENTS
  <2>1. \A i \in open : i.id # None
    BY <1>1, IdNotNone DEF IncidentRecord
  <2>2. \A i \in open : i.status = "open" /\ i.stream \in hosts
    BY <1>1, <2>1 DEF OpenIsActive
  <2>3. open \subseteq st.incidents
    OBVIOUS
  <2> HIDE DEF open, hosts
  <2>4. IsFiniteSet(open) /\ Cardinality(open) <= Cardinality(hosts)
    BY <1>1, <1>2, <2>2, <2>3, OpenBounded
  <2> QED  BY <1>1, <1>2, <2>4, FS_CardinalityType DEF RoomForOpen
<1>4. IsFiniteSet(room) /\ Cardinality(room) < MAX_INCIDENTS
  <2>1. CASE Cardinality(st.incidents) < MAX_INCIDENTS
    <3>1. room = st.incidents
      BY <1>1, <2>1, FS_CardinalityType DEF MakeRoom, Sized
    <3> QED  BY <2>1, <3>1 DEF Sized
  <2>2. CASE Cardinality(st.incidents) >= MAX_INCIDENTS
    <3>1. closed # {}
      <4>1. closed = {} => open = st.incidents
        OBVIOUS
      <4>2. Cardinality(st.incidents) \in Nat
        BY FS_CardinalityType DEF Sized
      <4> HIDE DEF open, closed
      <4> QED  BY <1>1, <1>3, <2>2, <4>1, <4>2
    <3>2. First(closed) \in st.incidents
      <4>1. closed \in SUBSET IncidentRecord /\ closed \subseteq st.incidents
        BY <1>1
      <4> HIDE DEF closed
      <4> QED  BY <3>1, <4>1, FirstIn
    <3>3. room = st.incidents \ {First(closed)}
      BY <2>2, <3>1 DEF MakeRoom
    <3> HIDE DEF closed
    <3>4. IsFiniteSet(room) /\ Cardinality(room) = Cardinality(st.incidents) - 1
      BY <3>2, <3>3, FS_RemoveElement DEF Sized
    <3> QED  BY <1>1, <3>4, FS_CardinalityType DEF Sized
  <2> QED  BY <1>1, <2>1, <2>2, FS_CardinalityType DEF Sized
<1> HIDE DEF room
<1>5. /\ IsFiniteSet(room \cup {found})
      /\ Cardinality(room \cup {found}) = IF found \in room THEN Cardinality(room)
                                          ELSE Cardinality(room) + 1
  BY <1>4, FS_AddElement
<1> QED  BY <1>1, <1>4, <1>5, FS_CardinalityType DEF room

(* Evidence is gathered in place.                                          *)
LEMMA ReplacedInPlace ==
  ASSUME NEW S, IsFiniteSet(S), NEW i \in S, NEW j
  PROVE  IsFiniteSet((S \ {i}) \cup {j}) /\ Cardinality((S \ {i}) \cup {j}) <= Cardinality(S)
<1>1. IsFiniteSet(S \ {i}) /\ Cardinality(S \ {i}) = Cardinality(S) - 1
  BY FS_RemoveElement
<1> DEFINE rest == S \ {i}
<1> HIDE DEF rest
<1>2. /\ IsFiniteSet(rest \cup {j})
      /\ Cardinality(rest \cup {j}) = IF j \in rest THEN Cardinality(rest)
                                      ELSE Cardinality(rest) + 1
  BY <1>1, FS_AddElement DEF rest
<1> QED  BY <1>1, <1>2, FS_CardinalityType DEF rest

(* The incident list stays within its limit through one event.             *)
LEMMA AcceptIncidents ==
  ASSUME NEW st, GoodEngine(st), Sized(st), RoomForOpen,
         NEW e \in Events, Admissible(st, e),
         NEW p, p = Push(StreamFor(st, e), e),
         NEW seen, seen = Evaluate(st, e, p)
  PROVE  IsFiniteSet(seen.incidents) /\ Cardinality(seen.incidents) <= MAX_INCIDENTS
<1>1. /\ IsEngine(st) /\ p \in StreamRecord
      /\ e.stream \in DOMAIN st.streams => p.active = st.streams[e.stream].active
      /\ e.stream \notin DOMAIN st.streams =>
           p.active = None /\ Cardinality(DOMAIN st.streams) < MAX_STREAMS
  BY StreamForType, PushType DEF GoodEngine, Admissible
<1>2. CASE p.active = None
  <2>1. seen = Detect(st, e, p)
    BY <1>2 DEF Evaluate
  <2>2. CASE Signals(p) = {}
    <3>1. seen.incidents = st.incidents
      BY <2>1, <2>2 DEF Detect
    <3> QED  BY <3>1 DEF Sized
  <2>3. CASE Signals(p) # {}
    <3>1. seen.incidents = MakeRoom(st.incidents) \cup {OpenIncident(st, e, Signals(p))}
      BY <2>1, <2>3 DEF Detect
    <3>2. IF e.stream \in DOMAIN st.streams THEN st.streams[e.stream].active = None
          ELSE Cardinality(DOMAIN st.streams) < MAX_STREAMS
      BY <1>1, <1>2
    <3>3. ASSUME NEW found
          PROVE  /\ IsFiniteSet(MakeRoom(st.incidents) \cup {found})
                 /\ Cardinality(MakeRoom(st.incidents) \cup {found}) <= MAX_INCIDENTS
      BY <3>2, RoomMade
    <3> QED  BY <3>1, <3>3
  <2> QED  BY <2>2, <2>3
<1>3. CASE p.active # None
  <2> DEFINE before == IncidentOf(st.incidents, p)
             after  == [before EXCEPT !.signals = @ \cup Signals(p)]
  <2>1. before \in st.incidents
    <3> DEFINE named == {i \in st.incidents : i.id = p.active}
    <3>1. named # {}
      BY <1>1, <1>3 DEF GoodEngine, ActiveIsOpen
    <3>2. named \in SUBSET IncidentRecord /\ named \subseteq st.incidents
      BY <1>1, EngineParts
    <3>3. before = First(named)
      BY DEF IncidentOf
    <3> HIDE DEF named, before
    <3> QED  BY <3>1, <3>2, <3>3, FirstIn
  <2>2. \E j : seen.incidents = (st.incidents \ {before}) \cup {j}
    <3>1. seen = Follow(st, e, p)
      BY <1>3 DEF Evaluate
    <3>2. \/ seen.incidents = (st.incidents \ {before}) \cup {Resolve(after, "resolved", e.ts)}
          \/ seen.incidents = (st.incidents \ {before}) \cup {after}
      BY <3>1 DEF Follow
    <3> HIDE DEF before, after
    <3> QED  BY <3>2
  <2> HIDE DEF before
  <2>3. IsFiniteSet(seen.incidents) /\ Cardinality(seen.incidents) <= Cardinality(st.incidents)
    <3>1. PICK j : seen.incidents = (st.incidents \ {before}) \cup {j}
      BY <2>2
    <3>2. IsFiniteSet(st.incidents)
      BY DEF Sized
    <3>3. /\ IsFiniteSet((st.incidents \ {before}) \cup {j})
          /\ Cardinality((st.incidents \ {before}) \cup {j}) <= Cardinality(st.incidents)
      BY <2>1, <3>2, ReplacedInPlace
    <3> QED  BY <3>1, <3>3
  <2> QED  BY <2>3, FS_CardinalityType, SizesAssumption DEF Sized
<1> QED  BY <1>2, <1>3

(* An accepted event leaves everything but dedup within its limit.         *)
LEMMA AcceptSized ==
  ASSUME NEW st, GoodEngine(st), Sized(st), RoomForOpen, NEW e \in Events, Admissible(st, e)
  PROVE  Sized(Accept(st, e))
<1> DEFINE p    == Push(StreamFor(st, e), e)
           seen == Evaluate(st, e, p)
           live == DOMAIN st.streams \cup {e.stream}
           next == Accept(st, e)
<1>1. IsFiniteSet(seen.incidents) /\ Cardinality(seen.incidents) <= MAX_INCIDENTS
  BY AcceptIncidents
<1>2. next = Replaced(st, e, Graduate(seen.stream), seen.incidents)
  BY AcceptShape DEF GoodEngine
<1> HIDE DEF seen, next
<1>3. /\ DOMAIN next.streams = live /\ next.incidents = seen.incidents
      /\ next.dedup = st.dedup \cup {e} /\ next.floor = st.floor
  BY <1>2 DEF Replaced
<1>4. IsFiniteSet(live) /\ Cardinality(live) <= MAX_STREAMS
  <2>1. /\ IsFiniteSet(live)
        /\ Cardinality(live) = IF e.stream \in DOMAIN st.streams
                               THEN Cardinality(DOMAIN st.streams)
                               ELSE Cardinality(DOMAIN st.streams) + 1
    BY FS_AddElement DEF Sized
  <2>2. e.stream \in DOMAIN st.streams \/ Cardinality(DOMAIN st.streams) < MAX_STREAMS
    BY DEF Admissible
  <2> HIDE DEF live
  <2> QED  BY <2>1, <2>2, FS_CardinalityType, SizesAssumption DEF Sized
<1>5. IsFiniteSet(next.dedup)
  BY <1>3, FS_AddElement DEF Sized
<1>6. /\ \A d \in next.dedup : d.ts >= next.floor
      /\ \A d, f \in next.dedup : d.id = f.id => d = f
  <2>1. e.ts > st.floor /\ \A d \in st.dedup : d.id # e.id
    BY DEF Admissible
  <2>2. e.ts \in Nat /\ st.floor \in Nat
    BY EventParts, EngineParts DEF GoodEngine
  <2> QED  BY <1>3, <2>1, <2>2 DEF Sized
<1> HIDE DEF live
<1> QED  BY <1>1, <1>3, <1>4, <1>5, <1>6 DEF Sized, next

-----------------------------------------------------------------------------
(***************************************************************************)
(* The end of the batch.                                                   *)
(***************************************************************************)

(* The retained events have a first one in (timestamp, event ID) order.    *)
LEMMA OldestOf ==
  ASSUME NEW S \in SUBSET Events, S # {}, \A d, e \in S : d.id = e.id => d = e
  PROVE  \E m \in S : \A d \in S \ {m} : Before(m, d)
<1> DEFINE times == {d.ts : d \in S}
<1>1. \E t \in times : \A u \in times : t <= u
  <2>1. times \in SUBSET Nat /\ times # {}
    BY EventParts
  <2> HIDE DEF times
  <2> QED  BY <2>1, SmallestOf
<1>2. PICK t \in times : \A u \in times : t <= u
  BY <1>1
<1> DEFINE ids == {d.id : d \in {d \in S : d.ts = t}}
<1>3. \E n \in ids : \A k \in ids : n <= k
  <2>1. ids \in SUBSET Nat /\ ids # {}
    BY <1>2, EventParts
  <2> HIDE DEF ids
  <2> QED  BY <2>1, SmallestOf
<1>4. PICK m \in S : m.ts = t /\ \A d \in S : d.ts = t => m.id <= d.id
  BY <1>3
<1>5. ASSUME NEW d \in S \ {m}  PROVE Before(m, d)
  <2>1. m.ts <= d.ts /\ m.id # d.id
    BY <1>2, <1>4
  <2>2. m.ts \in Nat /\ d.ts \in Nat /\ m.id \in Nat /\ d.id \in Nat
    BY EventParts
  <2> QED  BY <1>4, <2>1, <2>2 DEF Before
<1> QED  BY <1>5

(* Those kept come before fewer than MAX_DEDUP others, so the first of     *)
(* them shows that they are no more than MAX_DEDUP.                        *)
LEMMA KeptBounded ==
  ASSUME NEW S \in SUBSET Events, IsFiniteSet(S), \A d, e \in S : d.id = e.id => d = e
  PROVE  IsFiniteSet(S \ Evicted(S)) /\ Cardinality(S \ Evicted(S)) <= MAX_DEDUP
<1> DEFINE kept     == S \ Evicted(S)
           After(m) == {d \in S : Before(m, d)}
<1>1. kept \in SUBSET S /\ MAX_DEDUP \in Nat \ {0}
  BY SizesAssumption
<1>2. \A m \in kept : ~ (Cardinality(After(m)) >= MAX_DEDUP)
  BY DEF Evicted
<1> HIDE DEF kept
<1>3. IsFiniteSet(kept) /\ Cardinality(kept) \in Nat
  BY <1>1, FS_Subset, FS_CardinalityType
<1>4. CASE kept = {}
  BY <1>1, <1>3, <1>4, FS_EmptySet DEF kept
<1>5. CASE kept # {}
  <2>1. PICK m \in kept : \A d \in kept \ {m} : Before(m, d)
    BY <1>1, <1>5, OldestOf
  <2> DEFINE later == After(m)
             rest  == kept \ {m}
  <2>2. rest \in SUBSET later /\ later \in SUBSET S
    BY <1>1, <2>1
  <2>3. ~ (Cardinality(later) >= MAX_DEDUP)
    BY <1>2
  <2>4. IsFiniteSet(rest) /\ Cardinality(rest) = Cardinality(kept) - 1
    BY <1>3, FS_RemoveElement
  <2> HIDE DEF later, rest
  <2>5. IsFiniteSet(later) /\ Cardinality(later) \in Nat
    BY <2>2, FS_Subset, FS_CardinalityType
  <2>6. Cardinality(rest) <= Cardinality(later)
    BY <2>2, <2>5, FS_Subset
  <2> QED  BY <1>1, <1>3, <2>3, <2>4, <2>5, <2>6 DEF kept
<1> QED  BY <1>4, <1>5

(* Whatever comes before a forgotten event is forgotten too, so the floor  *)
(* is no later than any event kept.                                        *)
LEMMA KeptAbove ==
  ASSUME NEW S \in SUBSET Events, IsFiniteSet(S),
         NEW gone, gone = Evicted(S), NEW g \in gone, NEW d \in S \ gone
  PROVE  d.ts >= g.ts
<1> DEFINE After(m) == {e \in S : Before(m, e)}
<1>1. g \in S /\ d.ts \in Nat /\ g.ts \in Nat /\ d.id \in Nat /\ g.id \in Nat
  BY EventParts DEF Evicted
<1>2. Cardinality(After(g)) >= MAX_DEDUP /\ ~ (Cardinality(After(d)) >= MAX_DEDUP)
  BY DEF Evicted
<1>3. ASSUME d.ts < g.ts  PROVE FALSE
  <2>1. \A e \in S : Before(g, e) => Before(d, e)
    <3>1. \A e \in S : e.ts \in Nat
      BY EventParts
    <3> QED  BY <1>1, <1>3, <3>1 DEF Before
  <2> DEFINE afterG == After(g)
             afterD == After(d)
  <2>2. afterG \in SUBSET afterD /\ afterD \in SUBSET S
    BY <2>1
  <2>3. Cardinality(afterG) >= MAX_DEDUP /\ ~ (Cardinality(afterD) >= MAX_DEDUP)
    BY <1>2
  <2> HIDE DEF afterG, afterD
  <2>4. IsFiniteSet(afterD)
    BY <2>2, FS_Subset
  <2>5. IsFiniteSet(afterG) /\ Cardinality(afterG) <= Cardinality(afterD)
    BY <2>2, <2>4, FS_Subset
  <2> QED  BY <2>3, <2>4, <2>5, FS_CardinalityType, SizesAssumption
<1> QED  BY <1>1, <1>3

(* What a commit writes is within every limit.                             *)
LEMMA FinishSized ==
  ASSUME NEW st, GoodEngine(st), Sized(st)
  PROVE  Sized(Finish(st)) /\ Cardinality(Finish(st).dedup) <= MAX_DEDUP
<1> DEFINE gone == Evicted(st.dedup)
           kept == st.dedup \ gone
<1>1. /\ IsEngine(st) /\ st.dedup \in SUBSET Events /\ st.floor \in Nat
      /\ gone \in SUBSET st.dedup
      /\ \A d \in st.dedup : d.ts \in Nat
  BY EngineParts, EventParts DEF GoodEngine, Evicted
<1>2. IsFiniteSet(kept) /\ Cardinality(kept) <= MAX_DEDUP
  BY <1>1, KeptBounded DEF Sized
<1>3. CASE gone = {}
  <2>1. Finish(st) = st /\ kept = st.dedup
    BY <1>3 DEF Finish
  <2> QED  BY <1>2, <2>1
<1>4. CASE gone # {}
  <2>1. HighestTime(gone) \in {g.ts : g \in gone}
    <3> DEFINE T == {g.ts : g \in gone}
    <3>1. T \in SUBSET Nat /\ T # {}
      BY <1>1, <1>4
    <3>2. PICK bound \in Nat : \A t \in T : t <= bound
      BY <1>1 DEF GoodEngine, DedupBounded
    <3>3. \E m \in T : \A t \in T : t <= m
      <4> HIDE DEF T
      <4> QED  BY <3>1, <3>2, LargestOf
    <3>4. \E t \in {g.ts : g \in gone} : \A g \in gone : g.ts <= t
      BY <3>3
    <3> HIDE DEF gone, T
    <3> QED  BY <3>4 DEF HighestTime
  <2>2. PICK g \in gone : HighestTime(gone) = g.ts
    BY <2>1
  <2>3. \A d \in kept : d.ts >= g.ts /\ d.ts >= st.floor /\ d \in st.dedup
    <3>1. \A d \in kept : d.ts >= g.ts
      BY <1>1, KeptAbove DEF Sized
    <3> QED  BY <3>1 DEF Sized
  <2> HIDE DEF gone
  <2>4. /\ Finish(st).streams = st.streams /\ Finish(st).incidents = st.incidents
        /\ Finish(st).dedup = kept
        /\ Finish(st).floor = Greater(st.floor, HighestTime(gone))
    BY <1>1, <1>4 DEF Finish, IsEngine, gone
  <2> HIDE DEF kept
  <2>5. \A d \in kept : d.ts >= Finish(st).floor
    BY <2>2, <2>3, <2>4 DEF Greater
  <2> QED  BY <1>2, <2>3, <2>4, <2>5 DEF Sized
<1> QED  BY <1>3, <1>4

-----------------------------------------------------------------------------
(***************************************************************************)
(* Evidence.  An open incident freezes the baseline its comparisons were   *)
(* made with: nothing slides into it, and losing a sample closes the       *)
(* incident.                                                               *)
(***************************************************************************)

(* Rate signals are not the name of a measurement.                         *)
MetricsApart == Metrics \cap {"high_failure_rate", "failure_rate_regression"} = {}

Evidenced(s, i) ==
  /\ i.signals \ {"high_failure_rate"} # {} => Len(s.baseline) = WINDOW
  /\ \A m \in i.signals \cap Metrics : Cardinality(KnownAt(s.baseline, m)) >= KNOWN

Supported(st) ==
  /\ \A x \in DOMAIN st.streams : Len(st.streams[x].baseline) \in {0, WINDOW}
  /\ \A i \in st.incidents : i.status = "open" => Evidenced(st.streams[i.stream], i)

(* A full baseline stays full while samples move through it.               *)
LEMMA LastNLen ==
  ASSUME NEW rows \in Rows, NEW n \in Nat \ {0}, Len(rows) >= n
  PROVE  Len(LastN(rows, n)) = n
<1>1. Len(rows) \in Nat
  BY LenProperties DEF Rows
<1>2. CASE Len(rows) = n
  BY <1>1, <1>2 DEF LastN
<1>3. CASE Len(rows) # n
  <2> DEFINE from == Len(rows) - n + 1
  <2>1. from \in Nat \ {0} /\ LastN(rows, n) = SubSeq(rows, from, Len(rows))
    BY <1>1, <1>3 DEF LastN
  <2>2. \A i \in from..Len(rows) : rows[i] \in SampleRecord
    BY <1>1, <2>1, ElementOfSeq DEF Rows
  <2> QED  BY <1>1, <2>1, <2>2, SubSeqProperties
<1> QED  BY <1>2, <1>3

(* Pushing a sample keeps the baseline full, and as it is under an         *)
(* incident.                                                               *)
LEMMA PushBaseline ==
  ASSUME NEW s \in StreamRecord, NEW e \in Events, Len(s.baseline) \in {0, WINDOW}
  PROVE  /\ Len(Push(s, e).baseline) \in {0, WINDOW}
         /\ s.active # None => Push(s, e).baseline = s.baseline
<1> DEFINE full  == Len(s.current) = WINDOW
           slide == full /\ s.active = None /\ s.baseline # << >>
<1>1. s.baseline \in Rows /\ s.current \in Rows /\ WINDOW \in Nat \ {0}
  BY SizesAssumption DEF StreamRecord, Rows
<1>2. Push(s, e).baseline = IF slide THEN LastN(Append(s.baseline, s.current[1]), WINDOW)
                            ELSE s.baseline
  BY DEF Push, StreamRecord
<1>3. CASE slide
  <2>1. s.current[1] \in SampleRecord
    BY <1>1, <1>3, ElementOfSeq DEF Rows
  <2>2. Len(s.baseline) = WINDOW
    BY <1>1, <1>3, EmptySeq DEF Rows
  <2> DEFINE longer == Append(s.baseline, s.current[1])
  <2>3. longer \in Rows /\ Len(longer) = WINDOW + 1
    BY <1>1, <2>1, <2>2, AppendProperties DEF Rows
  <2> HIDE DEF longer
  <2>4. Len(longer) >= WINDOW
    BY <1>1, <2>3
  <2>5. Len(LastN(longer, WINDOW)) = WINDOW
    BY <1>1, <2>3, <2>4, LastNLen
  <2> QED  BY <1>2, <1>3, <2>5 DEF longer
<1>4. CASE ~slide
  BY <1>2, <1>4
<1> QED  BY <1>3, <1>4

(* A comparison fires on a full baseline in which the metric is known.     *)
LEMMA FiresOnEvidence ==
  ASSUME NEW s \in StreamRecord, Len(s.baseline) \in {0, WINDOW}, MetricsApart,
         NEW kind \in Signals(s)
  PROVE  /\ kind # "high_failure_rate" => Len(s.baseline) = WINDOW
         /\ kind \in Metrics => Cardinality(KnownAt(s.baseline, kind)) >= KNOWN
<1>1. WINDOW \in Nat \ {0}
  BY SizesAssumption
<1>2. Fires(s, kind)
  BY DEF Signals
<1>3. kind # "high_failure_rate" => Full(s)
  BY <1>2 DEF Fires
<1>4. kind \in Metrics => MetricDegraded(s.baseline, s.current, kind)
  BY <1>2 DEF Fires, MetricsApart
<1> QED  BY <1>1, <1>3, <1>4 DEF Full, MetricDegraded

(* Evidence of an incident grows by what fires.                            *)
LEMMA EvidenceGrows ==
  ASSUME NEW s \in StreamRecord, Len(s.baseline) \in {0, WINDOW}, MetricsApart,
         NEW i, NEW j, Evidenced(s, i), j.signals \subseteq i.signals \cup Signals(s)
  PROVE  Evidenced(s, j)
<1>1. ASSUME NEW kind \in j.signals
      PROVE  /\ kind # "high_failure_rate" => Len(s.baseline) = WINDOW
             /\ kind \in Metrics => Cardinality(KnownAt(s.baseline, kind)) >= KNOWN
  <2>1. CASE kind \in i.signals
    BY <2>1 DEF Evidenced
  <2>2. CASE kind \in Signals(s)
    BY <2>2, FiresOnEvidence
  <2> QED  BY <2>1, <2>2
<1> QED  BY <1>1 DEF Evidenced

(* A window that lost nothing to pruning is the window it was.             *)
LEMMA FreshWhole ==
  ASSUME NEW rows \in Rows, NEW cutoff \in Int, ~ (Len(Fresh(rows, cutoff)) < Len(rows))
  PROVE  Fresh(rows, cutoff) = rows
<1> DEFINE stale == {i \in DOMAIN rows : rows[i].ts <= cutoff}
           k     == Cardinality(stale)
<1>1. DOMAIN rows = 1..Len(rows) /\ Len(rows) \in Nat
  BY LenProperties DEF Rows
<1>2. k \in Nat
  <2>1. IsFiniteSet(1..Len(rows)) /\ stale \in SUBSET (1..Len(rows))
    BY <1>1, FS_Interval
  <2> HIDE DEF stale
  <2> QED  BY <2>1, FS_Subset, FS_CardinalityType
<1>3. Fresh(rows, cutoff) = SubSeq(rows, k + 1, Len(rows))
  BY DEF Fresh
<1> HIDE DEF k
<1>4. \A i \in k + 1 .. Len(rows) : rows[i] \in SampleRecord
  BY <1>1, <1>2, ElementOfSeq DEF Rows
<1>5. Len(Fresh(rows, cutoff)) = IF k + 1 <= Len(rows) THEN Len(rows) - k ELSE 0
  BY <1>1, <1>2, <1>3, <1>4, SubSeqProperties
<1>6. CASE k = 0
  BY <1>3, <1>6, SubSeqFull DEF Rows
<1>7. CASE k # 0
  <2>1. Len(rows) = 0
    <3> DEFINE long == Len(rows)
               left == Len(Fresh(rows, cutoff))
    <3>1. long \in Nat /\ left = (IF k + 1 <= long THEN long - k ELSE 0) /\ ~ (left < long)
      BY <1>1, <1>5
    <3> HIDE DEF long, left
    <3>2. long = 0
      BY <1>2, <1>7, <3>1
    <3> QED  BY <3>2 DEF long
  <2>2. Fresh(rows, cutoff) = << >> /\ rows = << >>
    BY <1>2, <1>3, <2>1, SubSeqEmpty, EmptySeq DEF Rows
  <2> QED  BY <2>2
<1> QED  BY <1>6, <1>7

(* Pruning rebuilds a baseline in full or drops it.                        *)
LEMMA PruneBaseline ==
  ASSUME NEW s \in StreamRecord, NEW kept \in SUBSET IncidentRecord, NEW cutoff \in Int,
         Len(s.baseline) \in {0, WINDOW}
  PROVE  /\ Len(PruneStream(s, kept, cutoff).baseline) \in {0, WINDOW}
         /\ ~Shrinks(s, cutoff) => PruneStream(s, kept, cutoff).baseline = s.baseline
<1> DEFINE base == Fresh(s.baseline, cutoff)
           rows == base \o Fresh(s.current, cutoff)
<1>1. s.baseline \in Rows /\ s.current \in Rows /\ WINDOW \in Nat \ {0}
  BY SizesAssumption DEF StreamRecord, Rows
<1>2. rows \in Rows
  BY <1>1, FreshType, ConcatProperties DEF Rows
<1>3. PruneStream(s, kept, cutoff).baseline =
        IF ~Shrinks(s, cutoff) THEN base
        ELSE IF Len(rows) >= WINDOW THEN SubSeq(rows, 1, WINDOW) ELSE << >>
  BY DEF PruneStream, TrimVersions, StreamRecord
<1> HIDE DEF rows
<1>4. Len(rows) >= WINDOW => Len(SubSeq(rows, 1, WINDOW)) = WINDOW
  <2>1. Len(rows) \in Nat
    BY <1>2, LenProperties DEF Rows
  <2>2. Len(rows) >= WINDOW => \A i \in 1..WINDOW : rows[i] \in SampleRecord
    BY <1>1, <1>2, <2>1, ElementOfSeq DEF Rows
  <2> QED  BY <1>1, <2>2, SubSeqProperties
<1>5. ~Shrinks(s, cutoff) => base = s.baseline
  BY <1>1, FreshWhole DEF Shrinks
<1>6. Len(<< >>) = 0
  OBVIOUS
<1> HIDE DEF base
<1> QED  BY <1>3, <1>4, <1>5, <1>6

(* Pruning expires an incident whose baseline it touches.                  *)
LEMMA PruneSupported ==
  ASSUME NEW st, GoodEngine(st), Supported(st), NEW now \in Int
  PROVE  Supported(Prune(st, now))
<1> DEFINE cutoff == now - RETENTION
           kept   == {i \in st.incidents : i.opened > cutoff}
           live   == {x \in DOMAIN st.streams : st.streams[x].last > cutoff}
           Expirer(i) == {x \in live : /\ Lapses(st.streams[x], kept, cutoff)
                                       /\ IncidentOf(kept, st.streams[x]) = i}
           Aged(i) == IF Expirer(i) = {} THEN i
                      ELSE LET x == CHOOSE x \in Expirer(i) : TRUE
                           IN Resolve(i, "expired", st.streams[x].baseline[1].ts + RETENTION)
           streams == [x \in live |-> PruneStream(st.streams[x], kept, cutoff)]
           pruned  == Prune(st, now)
<1>1. /\ pruned.streams = streams /\ pruned.incidents = {Aged(i) : i \in kept}
      /\ cutoff \in Int /\ kept \in SUBSET IncidentRecord
  BY EngineParts, SizesAssumption DEF Prune, IsEngine, GoodEngine
<1>2. GoodEngine(pruned)
  BY PruneGood
<1> HIDE DEF pruned, cutoff
<1>3. ASSUME NEW x \in live
      PROVE  LET s == st.streams[x]
             IN /\ Len(streams[x].baseline) \in {0, WINDOW}
                /\ streams[x].active # None => streams[x].baseline = s.baseline
  <2> DEFINE s == st.streams[x]
  <2>1. s \in StreamRecord /\ Len(s.baseline) \in {0, WINDOW} /\ streams[x] = PruneStream(s, kept, cutoff)
    BY EngineParts DEF GoodEngine, Supported
  <2> HIDE DEF kept, s, streams
  <2>2. /\ Len(streams[x].baseline) \in {0, WINDOW}
        /\ ~Shrinks(s, cutoff) => streams[x].baseline = s.baseline
    BY <1>1, <2>1, PruneBaseline
  <2>3. streams[x].active = IF Lapses(s, kept, cutoff) THEN None ELSE Linked(s, kept)
    <3>1. s \in StreamRecord /\ kept \in SUBSET IncidentRecord /\ cutoff \in Int
      BY <1>1, <2>1
    <3>2. PruneStream(s, kept, cutoff).active
            = IF Lapses(s, kept, cutoff) THEN None ELSE Linked(s, kept)
      BY <3>1, PruneStreamType, Zenon
    <3> QED  BY <2>1, <3>2
  <2>4. streams[x].active # None => ~Shrinks(s, cutoff)
    BY <2>3 DEF Lapses
  <2> QED  BY <2>2, <2>4 DEF s
<1>4. ASSUME NEW j \in pruned.incidents, j.status = "open"
      PROVE  Evidenced(pruned.streams[j.stream], j)
  <2>1. PICK i \in kept : j = Aged(i)
    BY <1>1
  <2>2. j = i /\ i \in st.incidents
    <3>1. i \in IncidentRecord
      BY <1>1
    <3>2. Expirer(i) # {} => Aged(i).status = "expired"
      BY <3>1 DEF Resolve, IncidentRecord
    <3> HIDE DEF Expirer
    <3> QED  BY <1>4, <2>1, <3>2
  <2>3. /\ j.stream \in DOMAIN pruned.streams /\ pruned.streams[j.stream].active = j.id
        /\ j.id # None
    <3>1. pruned.incidents \subseteq IncidentRecord
      BY <1>2, EngineParts DEF GoodEngine
    <3> QED  BY <1>2, <1>4, <3>1, IdNotNone DEF GoodEngine, OpenIsActive, IncidentRecord
  <2>4. Evidenced(st.streams[j.stream], j)
    BY <1>4, <2>2 DEF Supported
  <2>5. pruned.streams[j.stream].baseline = st.streams[j.stream].baseline
    BY <1>1, <1>3, <2>3
  <2> QED  BY <2>4, <2>5 DEF Evidenced
<1>5. \A x \in DOMAIN pruned.streams : Len(pruned.streams[x].baseline) \in {0, WINDOW}
  BY <1>1, <1>3
<1> QED  BY <1>4, <1>5 DEF Supported, pruned

(* The open incident of the stream an event is judged in is the active one.*)
LEMMA ActiveFound ==
  ASSUME NEW st, GoodEngine(st), NEW e \in Events, Admissible(st, e),
         NEW p, p = Push(StreamFor(st, e), e)
  PROVE  /\ IsEngine(st) /\ p \in StreamRecord
         /\ e.stream \in DOMAIN st.streams => p.active = st.streams[e.stream].active
         /\ p.active = None => \A j \in st.incidents : j.status = "open" => j.stream # e.stream
         /\ p.active # None =>
              /\ e.stream \in DOMAIN st.streams
              /\ IncidentOf(st.incidents, p) \in st.incidents
              /\ IncidentOf(st.incidents, p).status = "open"
              /\ IncidentOf(st.incidents, p).stream = e.stream
              /\ \A j \in st.incidents : j.status = "open" /\ j.stream = e.stream =>
                   j = IncidentOf(st.incidents, p)
<1>1. /\ IsEngine(st) /\ p \in StreamRecord
      /\ e.stream \in DOMAIN st.streams => p.active = st.streams[e.stream].active
      /\ e.stream \notin DOMAIN st.streams => p.active = None
  BY StreamForType, PushType DEF GoodEngine
<1>2. \A j \in st.incidents : j.status = "open" /\ j.stream = e.stream =>
        e.stream \in DOMAIN st.streams /\ p.active = j.id
  BY <1>1 DEF GoodEngine, OpenIsActive
<1>3. p.active = None => \A j \in st.incidents : j.status = "open" => j.stream # e.stream
  <2>1. \A j \in st.incidents : j.id # None
    BY <1>1, EngineParts, IdNotNone DEF IncidentRecord
  <2> QED  BY <1>2, <2>1
<1>4. CASE p.active # None
  <2>1. e.stream \in DOMAIN st.streams
    BY <1>1, <1>4
  <2>2. PICK i \in st.incidents : i.id = p.active /\ i.stream = e.stream /\ i.status = "open"
    BY <1>1, <1>4, <2>1 DEF GoodEngine, ActiveIsOpen
  <2>3. \A j \in st.incidents : j.id = i.id => j = i
    BY DEF GoodEngine, IdsUnique
  <2>4. st.incidents \in SUBSET IncidentRecord
    BY <1>1, EngineParts
  <2>5. IncidentOf(st.incidents, p) = i
    BY <2>2, <2>3, <2>4, IncidentOfUnique
  <2> QED  BY <1>1, <1>2, <1>4, <2>1, <2>2, <2>3, <2>5
<1> QED  BY <1>1, <1>3, <1>4

(* The stream an event is judged in has the baseline it had.               *)
LEMMA StreamForBaseline ==
  ASSUME NEW st, IsEngine(st), NEW e \in Events
  PROVE  StreamFor(st, e).baseline = IF e.stream \in DOMAIN st.streams
                                     THEN st.streams[e.stream].baseline ELSE << >>
<1>1. NewStream(e) \in StreamRecord /\ NewStream(e).baseline = << >>
  BY EventParts, EmptySeq DEF NewStream, StreamRecord
<1>2. e.stream \in DOMAIN st.streams => st.streams[e.stream] \in StreamRecord
  BY EngineParts
<1> QED  BY <1>1, <1>2, TrimType DEF StreamFor

(* What an event leaves of its stream, apart from the incident list: the   *)
(* stream as pushed, its first window made the baseline, or the window     *)
(* that recovered.                                                         *)
LEMMA AcceptStream ==
  ASSUME NEW st, GoodEngine(st), NEW e \in Events, Admissible(st, e),
         NEW p, p = Push(StreamFor(st, e), e),
         NEW g, g = Graduate(Evaluate(st, e, p).stream)
  PROVE  /\ g.last = p.last /\ g.versions = p.versions
         /\ \/ g.baseline = p.baseline /\ g.current = p.current
            \/ /\ p.baseline = << >> /\ Len(p.current) = WINDOW
               /\ g.baseline = p.current /\ g.current = << >> /\ g.active = None
            \/ /\ Len(p.current) >= WINDOW
               /\ g.baseline = LastN(p.current, WINDOW) /\ g.current = << >> /\ g.active = None
<1> DEFINE r      == Evaluate(st, e, p).stream
           opened == [p EXCEPT !.active = OpenIncident(st, e, Signals(p)).id]
           over   == [p EXCEPT !.active = None, !.baseline = LastN(p.current, WINDOW),
                               !.current = << >>]
<1>1. p \in StreamRecord /\ WINDOW \in Nat \ {0}
  BY ActiveFound, SizesAssumption
<1>2. r = p \/ (r = opened /\ p.active = None) \/ (r = over /\ Len(p.current) >= WINDOW)
  BY DEF Evaluate, Detect, Follow, Recovered
<1>3. OpenIncident(st, e, Signals(p)).id # None
  <2>1. OpenIncident(st, e, Signals(p)).id \in IncidentIds
    BY EventParts DEF OpenIncident, IncidentIds
  <2> QED  BY <2>1, IdNotNone
<1>4. g = IF r.baseline = << >> /\ Len(r.current) = WINDOW /\ r.active = None
          THEN [r EXCEPT !.baseline = r.current, !.current = << >>] ELSE r
  BY DEF Graduate
<1> HIDE DEF r
<1>5. CASE r = p
  BY <1>1, <1>4, <1>5 DEF StreamRecord
<1>6. CASE r = opened /\ p.active = None
  <2>1. r.active # None
    BY <1>1, <1>3, <1>6 DEF StreamRecord
  <2> QED  BY <1>1, <1>4, <1>6, <2>1 DEF StreamRecord
<1>7. CASE r = over /\ Len(p.current) >= WINDOW
  <2>1. r.current = << >> /\ Len(r.current) = 0
    BY <1>1, <1>7 DEF StreamRecord
  <2>2. g = r
    BY <1>1, <1>4, <2>1
  <2> QED  BY <1>1, <1>7, <2>2 DEF StreamRecord
<1> QED  BY <1>2, <1>5, <1>6, <1>7

(* What an event leaves of the incident list: the open incidents of other  *)
(* streams are as they were, the one of its own has gathered what fires.   *)
LEMMA AcceptEvidence ==
  ASSUME NEW st, GoodEngine(st), Supported(st), MetricsApart,
         NEW e \in Events, Admissible(st, e),
         NEW p, p = Push(StreamFor(st, e), e), Len(p.baseline) \in {0, WINDOW},
         NEW j \in Evaluate(st, e, p).incidents, j.status = "open"
  PROVE  /\ j.stream # e.stream => j \in st.incidents
         /\ j.stream = e.stream => Evidenced(p, j)
<1> DEFINE found  == OpenIncident(st, e, Signals(p))
           before == IncidentOf(st.incidents, p)
           after  == [before EXCEPT !.signals = @ \cup Signals(p)]
<1>1. /\ p \in StreamRecord /\ IsEngine(st) /\ st.incidents \in SUBSET IncidentRecord
      /\ p.active = None => \A i \in st.incidents : i.status = "open" => i.stream # e.stream
      /\ p.active # None =>
           /\ e.stream \in DOMAIN st.streams /\ before \in st.incidents
           /\ before.status = "open" /\ before.stream = e.stream
           /\ \A i \in st.incidents : i.status = "open" /\ i.stream = e.stream => i = before
           /\ p.active = st.streams[e.stream].active
  BY ActiveFound, EngineParts
<1> HIDE DEF before
<1>2. CASE p.active = None
  <2>1. j \in st.incidents \/ j = found
    <3>1. MakeRoom(st.incidents) \subseteq st.incidents
      BY <1>1, MakeRoomKeepsOpen
    <3> QED  BY <1>2, <3>1 DEF Evaluate, Detect
  <2>2. j = found => Evidenced(p, j)
    <3>1. found.signals = Signals(p)
      BY DEF OpenIncident
    <3>2. Evidenced(p, [signals |-> {}])
      BY DEF Evidenced
    <3>3. j = found => j.signals \subseteq [signals |-> {}].signals \cup Signals(p)
      BY <3>1
    <3> QED  BY <1>1, <3>2, <3>3, EvidenceGrows
  <2>3. found.stream = e.stream
    BY DEF OpenIncident
  <2> HIDE DEF found
  <2> QED  BY <1>1, <1>2, <2>1, <2>2, <2>3
<1>3. CASE p.active # None
  <2>1. before \in IncidentRecord
    BY <1>1, <1>3
  <2>2. \/ j \in st.incidents /\ j # before
        \/ j = after
        \/ j = Resolve(after, "resolved", e.ts)
    BY <1>3 DEF Evaluate, Follow, before
  <2>3. Resolve(after, "resolved", e.ts).status = "resolved"
    BY <2>1 DEF Resolve, IncidentRecord
  <2>4. after.stream = e.stream /\ after.signals = before.signals \cup Signals(p)
    BY <1>1, <1>3, <2>1 DEF IncidentRecord
  <2>5. Evidenced(p, before)
    <3>1. Evidenced(st.streams[e.stream], before) /\ Len(st.streams[e.stream].baseline) \in {0, WINDOW}
      BY <1>1, <1>3 DEF Supported
    <3>2. /\ StreamFor(st, e) \in StreamRecord
          /\ StreamFor(st, e).active = st.streams[e.stream].active
          /\ StreamFor(st, e).baseline = st.streams[e.stream].baseline
      BY <1>1, <1>3, StreamForType, StreamForBaseline
    <3>3. p.baseline = st.streams[e.stream].baseline
      BY <1>1, <1>3, <3>1, <3>2, PushBaseline
    <3> QED  BY <3>1, <3>3 DEF Evidenced
  <2> HIDE DEF after
  <2>6. Evidenced(p, after)
    BY <1>1, <2>4, <2>5, EvidenceGrows
  <2> QED  BY <1>1, <1>3, <2>2, <2>3, <2>4, <2>6
<1> QED  BY <1>2, <1>3

(* So accepting an event keeps every open incident supported.              *)
LEMMA AcceptSupported ==
  ASSUME NEW st, GoodEngine(st), Supported(st), MetricsApart, StampedOnce,
         NEW e \in Events, Admissible(st, e)
  PROVE  Supported(Accept(st, e))
<1> DEFINE p    == Push(StreamFor(st, e), e)
           seen == Evaluate(st, e, p)
           g    == Graduate(seen.stream)
           next == Accept(st, e)
<1>1. IsEngine(st) /\ p \in StreamRecord /\ GoodEngine(next) /\ WINDOW \in Nat \ {0}
  BY ActiveFound, AcceptGood, SizesAssumption
<1>2. next = Replaced(st, e, g, seen.incidents)
  BY <1>1, AcceptShape
<1>3. Len(p.baseline) \in {0, WINDOW}
  <2>1. Len(StreamFor(st, e).baseline) \in {0, WINDOW}
    <3>1. Len(<< >>) = 0
      OBVIOUS
    <3> QED  BY <1>1, <3>1, StreamForBaseline DEF Supported
  <2> QED  BY <1>1, <2>1, StreamForType, PushBaseline
<1>4. /\ Len(g.baseline) \in {0, WINDOW}
      /\ g.active # None => g.baseline = p.baseline
  <2>1. p.current \in Rows
    BY <1>1 DEF StreamRecord, Rows
  <2>2. Len(p.current) >= WINDOW => Len(LastN(p.current, WINDOW)) = WINDOW
    BY <1>1, <2>1, LastNLen
  <2>3. \/ g.baseline = p.baseline
        \/ g.baseline = p.current /\ Len(p.current) = WINDOW /\ g.active = None
        \/ /\ Len(p.current) >= WINDOW /\ g.baseline = LastN(p.current, WINDOW)
           /\ g.active = None
    BY AcceptStream
  <2> HIDE DEF p, g
  <2> QED  BY <1>3, <2>2, <2>3
<1>5. \A j \in seen.incidents : j.status = "open" =>
        /\ j.stream # e.stream => j \in st.incidents
        /\ j.stream = e.stream => Evidenced(p, j)
  BY <1>3, AcceptEvidence
<1> HIDE DEF p, seen, g, next
<1>6. /\ DOMAIN next.streams = DOMAIN st.streams \cup {e.stream}
      /\ next.streams[e.stream] = g
      /\ \A x \in DOMAIN st.streams : x # e.stream => next.streams[x] = st.streams[x]
      /\ next.incidents = seen.incidents
  BY <1>2 DEF Replaced
<1>7. ASSUME NEW j \in next.incidents, j.status = "open"
      PROVE  Evidenced(next.streams[j.stream], j)
  <2>1. next.streams[j.stream].active = j.id /\ j.id # None /\ j.stream \in DOMAIN next.streams
    <3>1. next.incidents \subseteq IncidentRecord
      BY <1>1, EngineParts DEF GoodEngine
    <3> QED  BY <1>1, <1>7, <3>1, IdNotNone DEF GoodEngine, OpenIsActive, IncidentRecord
  <2>2. CASE j.stream = e.stream
    BY <1>4, <1>5, <1>6, <1>7, <2>1, <2>2 DEF Evidenced
  <2>3. CASE j.stream # e.stream
    BY <1>5, <1>6, <1>7, <2>1, <2>3 DEF Supported
  <2> QED  BY <2>2, <2>3
<1>8. \A x \in DOMAIN next.streams : Len(next.streams[x].baseline) \in {0, WINDOW}
  BY <1>4, <1>6 DEF Supported
<1> QED  BY <1>7, <1>8 DEF Supported, next

(* The end of the batch touches neither streams nor incidents.             *)
LEMMA FinishUntouched ==
  ASSUME NEW st, IsEngine(st)
  PROVE  Finish(st).streams = st.streams /\ Finish(st).incidents = st.incidents
BY DEF Finish, IsEngine

-----------------------------------------------------------------------------
(***************************************************************************)
(* Windows in time order.  A window is followed through the operations by  *)
(* the samples it holds and their order.                                   *)
(***************************************************************************)

Held(rows) == {rows[i] : i \in DOMAIN rows}

(* Every sample of a comes before every sample of b.                       *)
Precedes(a, b) == \A q \in Held(a), r \in Held(b) : q.ts <= r.ts

(* A stretch of a window in order is in order.                             *)
LEMMA Stretch ==
  ASSUME NEW rows \in Rows, InOrder(rows),
         NEW m \in 1..Len(rows) + 1, NEW n \in m - 1..Len(rows)
  PROVE  LET part == SubSeq(rows, m, n)
         IN /\ part \in Rows /\ Len(part) = n - m + 1 /\ InOrder(part)
            /\ Held(part) = {rows[i] : i \in m..n}
            /\ Held(part) \subseteq Held(rows)
<1> DEFINE part == SubSeq(rows, m, n)
<1>1. DOMAIN rows = 1..Len(rows) /\ Len(rows) \in Nat /\ m \in Nat \ {0} /\ n \in Nat
  BY LenProperties DEF Rows
<1>2. \A i \in m..n : rows[i] \in SampleRecord
  BY <1>1, ElementOfSeq DEF Rows
<1>3. /\ part \in Seq(SampleRecord) /\ Len(part) = n - m + 1
      /\ \A i \in 1..n - m + 1 : part[i] = rows[m + i - 1]
  BY <1>1, <1>2, SubSeqProperties
<1> HIDE DEF part
<1>4. DOMAIN part = 1..n - m + 1
  BY <1>3, LenProperties
<1>5. InOrder(part)
  <2> SUFFICES ASSUME NEW i \in 1..n - m + 1, NEW j \in 1..n - m + 1, i < j
               PROVE  part[i].ts <= part[j].ts
    BY <1>4 DEF InOrder
  <2>1. m + i - 1 \in DOMAIN rows /\ m + j - 1 \in DOMAIN rows /\ m + i - 1 < m + j - 1
    BY <1>1
  <2> QED  BY <1>3, <2>1 DEF InOrder
<1>6. Held(part) = {rows[i] : i \in m..n}
  <2>1. \A i \in 1..n - m + 1 : m + i - 1 \in m..n
    BY <1>1
  <2>2. \A k \in m..n : k - m + 1 \in 1..n - m + 1 /\ m + (k - m + 1) - 1 = k
    BY <1>1
  <2>3. \A k \in m..n : part[k - m + 1] = rows[k]
    BY <1>3, <2>2
  <2>4. Held(part) = {part[i] : i \in 1..n - m + 1}
    BY <1>4 DEF Held
  <2>5. ASSUME NEW i \in 1..n - m + 1  PROVE part[i] \in {rows[k] : k \in m..n}
    BY <1>3, <2>1
  <2>6. ASSUME NEW k \in m..n  PROVE rows[k] \in {part[i] : i \in 1..n - m + 1}
    BY <2>2, <2>3
  <2> QED  BY <2>4, <2>5, <2>6
<1>7. m..n \subseteq DOMAIN rows
  BY <1>1
<1>8. Held(part) \subseteq Held(rows)
  BY <1>6, <1>7 DEF Held
<1>9. part \in Rows
  BY <1>3 DEF Rows
<1> QED  BY <1>3, <1>5, <1>6, <1>8, <1>9 DEF part

(* The next sample keeps it in order.                                      *)
LEMMA NextSample ==
  ASSUME NEW rows \in Rows, InOrder(rows), NEW r \in SampleRecord,
         \A q \in Held(rows) : q.ts <= r.ts
  PROVE  LET longer == Append(rows, r)
         IN /\ longer \in Rows /\ Len(longer) = Len(rows) + 1 /\ InOrder(longer)
            /\ Held(longer) = Held(rows) \cup {r}
            /\ \A i \in 1..Len(rows) : longer[i] = rows[i]
<1> DEFINE longer == Append(rows, r)
<1>1. DOMAIN rows = 1..Len(rows) /\ Len(rows) \in Nat
  BY LenProperties DEF Rows
<1>2. /\ longer \in Seq(SampleRecord) /\ Len(longer) = Len(rows) + 1
      /\ \A i \in 1..Len(rows) : longer[i] = rows[i]
      /\ longer[Len(rows) + 1] = r
  BY AppendProperties DEF Rows
<1> HIDE DEF longer
<1>3. DOMAIN longer = 1..Len(rows) + 1
  BY <1>2, LenProperties
<1>4. InOrder(longer)
  <2> SUFFICES ASSUME NEW i \in 1..Len(rows) + 1, NEW j \in 1..Len(rows) + 1, i < j
               PROVE  longer[i].ts <= longer[j].ts
    BY <1>3 DEF InOrder
  <2>1. i \in 1..Len(rows) /\ longer[i] = rows[i] /\ rows[i] \in Held(rows)
    BY <1>1, <1>2 DEF Held
  <2>2. CASE j = Len(rows) + 1
    BY <1>2, <2>1, <2>2
  <2>3. CASE j # Len(rows) + 1
    BY <1>1, <1>2, <2>1, <2>3 DEF InOrder
  <2> QED  BY <2>2, <2>3
<1>5. Held(longer) = Held(rows) \cup {r}
  <2>1. 1..Len(rows) + 1 = (1..Len(rows)) \cup {Len(rows) + 1}
    BY <1>1
  <2> QED  BY <1>1, <1>2, <1>3, <2>1 DEF Held
<1> QED  BY <1>2, <1>4, <1>5 DEF Rows, longer

(* Two windows of which one precedes the other make one in order.          *)
LEMMA Joined ==
  ASSUME NEW a \in Rows, NEW b \in Rows, InOrder(a), InOrder(b), Precedes(a, b)
  PROVE  /\ a \o b \in Rows /\ Len(a \o b) = Len(a) + Len(b) /\ InOrder(a \o b)
         /\ Held(a \o b) = Held(a) \cup Held(b)
<1> DEFINE rows == a \o b
<1>1. /\ DOMAIN a = 1..Len(a) /\ Len(a) \in Nat
      /\ DOMAIN b = 1..Len(b) /\ Len(b) \in Nat
  BY LenProperties DEF Rows
<1>2. /\ rows \in Seq(SampleRecord) /\ Len(rows) = Len(a) + Len(b)
      /\ \A i \in 1..Len(a) + Len(b) : rows[i] = IF i <= Len(a) THEN a[i] ELSE b[i - Len(a)]
  BY ConcatProperties DEF Rows
<1> HIDE DEF rows
<1>3. DOMAIN rows = 1..Len(a) + Len(b)
  BY <1>2, LenProperties
<1>4. ASSUME NEW i \in 1..Len(a) + Len(b)
      PROVE  \/ i \in DOMAIN a /\ rows[i] = a[i]
             \/ i > Len(a) /\ i - Len(a) \in DOMAIN b /\ rows[i] = b[i - Len(a)]
  BY <1>1, <1>2
<1>5. InOrder(rows)
  <2> SUFFICES ASSUME NEW i \in 1..Len(a) + Len(b), NEW j \in 1..Len(a) + Len(b), i < j
               PROVE  rows[i].ts <= rows[j].ts
    BY <1>3 DEF InOrder
  <2>1. CASE i \in DOMAIN a /\ j \in DOMAIN a
    BY <1>1, <1>4, <2>1 DEF InOrder
  <2>2. CASE i \in DOMAIN a /\ j \notin DOMAIN a
    BY <1>1, <1>4, <2>2 DEF Precedes, Held
  <2>3. CASE i \notin DOMAIN a
    <3>1. /\ i - Len(a) \in DOMAIN b /\ rows[i] = b[i - Len(a)]
          /\ j - Len(a) \in DOMAIN b /\ rows[j] = b[j - Len(a)]
          /\ i - Len(a) < j - Len(a)
      BY <1>1, <1>4, <2>3
    <3> QED  BY <3>1 DEF InOrder
  <2> QED  BY <2>1, <2>2, <2>3
<1>6. Held(rows) = Held(a) \cup Held(b)
  <2>1. ASSUME NEW i \in DOMAIN a  PROVE i \in DOMAIN rows /\ rows[i] = a[i]
    BY <1>1, <1>2, <1>3
  <2>2. ASSUME NEW i \in DOMAIN b
        PROVE  Len(a) + i \in DOMAIN rows /\ rows[Len(a) + i] = b[i]
    <3>1. Len(a) + i \in 1..Len(a) + Len(b) /\ ~ (Len(a) + i <= Len(a)) /\ Len(a) + i - Len(a) = i
      BY <1>1
    <3> QED  BY <1>2, <1>3, <3>1
  <2> QED  BY <1>3, <1>4, <2>1, <2>2 DEF Held
<1> QED  BY <1>2, <1>5, <1>6 DEF Rows, rows

(* The first n positions are n.                                            *)
LEMMA CountUpTo ==
  ASSUME NEW n \in Nat
  PROVE  IsFiniteSet(1..n) /\ Cardinality(1..n) = n
<1>1. IsFiniteSet(1..n) /\ Cardinality(1..n) = IF 1 > n THEN 0 ELSE n - 1 + 1
  BY FS_Interval
<1> QED  BY <1>1

(* Of a window in order, the stale samples are the first k.                *)
LEMMA FreshCut ==
  ASSUME NEW rows \in Rows, InOrder(rows), NEW cutoff \in Int
  PROVE  \E k \in 0..Len(rows) :
           /\ \A i \in 1..Len(rows) : rows[i].ts <= cutoff <=> i <= k
           /\ Fresh(rows, cutoff) = SubSeq(rows, k + 1, Len(rows))
           /\ Fresh(rows, cutoff) \in Rows /\ Len(Fresh(rows, cutoff)) = Len(rows) - k
           /\ \A i \in 1..Len(rows) - k : Fresh(rows, cutoff)[i] = rows[k + i]
<1> DEFINE stale == {i \in DOMAIN rows : rows[i].ts <= cutoff}
           k     == Cardinality(stale)
<1>1. DOMAIN rows = 1..Len(rows) /\ Len(rows) \in Nat
  BY LenProperties DEF Rows
<1>2. \A i \in 1..Len(rows) : rows[i].ts \in Nat
  <2>1. \A i \in 1..Len(rows) : rows[i] \in SampleRecord
    BY ElementOfSeq DEF Rows
  <2> QED  BY <2>1 DEF SampleRecord
<1>3. k \in 0..Len(rows)
  <2>1. IsFiniteSet(1..Len(rows)) /\ Cardinality(1..Len(rows)) = Len(rows)
    BY <1>1, CountUpTo
  <2>3. stale \in SUBSET (1..Len(rows))
    BY <1>1
  <2> HIDE DEF stale
  <2>2. IsFiniteSet(stale) /\ k <= Len(rows)
    BY <2>1, <2>3, FS_Subset
  <2> QED  BY <1>1, <2>2, FS_CardinalityType
(* No stale sample follows one that is not.                                *)
<1>4. ASSUME NEW i \in 1..Len(rows), rows[i].ts > cutoff  PROVE i > k
  <2>1. stale \in SUBSET (1..i - 1)
    <3> SUFFICES ASSUME NEW j \in stale, ~ (j < i)  PROVE FALSE
      BY <1>1
    <3>1. j \in 1..Len(rows) /\ rows[j].ts <= cutoff
      BY <1>1
    <3>2. rows[i].ts <= rows[j].ts
      BY <1>1, <1>2, <3>1 DEF InOrder
    <3> QED  BY <1>2, <1>4, <3>1, <3>2
  <2>2. IsFiniteSet(1..i - 1) /\ Cardinality(1..i - 1) = i - 1
    <3>1. i - 1 \in Nat
      BY <1>1
    <3> QED  BY <3>1, CountUpTo
  <2> HIDE DEF stale
  <2>3. k <= i - 1
    BY <2>1, <2>2, FS_Subset
  <2> QED  BY <1>1, <1>3, <2>3
(* And what is as old as a stale sample is stale.                          *)
<1>5. ASSUME NEW i \in 1..Len(rows), rows[i].ts <= cutoff  PROVE i <= k
  <2>1. 1..i \subseteq stale
    <3> SUFFICES ASSUME NEW j \in 1..i, j < i  PROVE j \in stale
      BY <1>1, <1>5
    <3>1. j \in 1..Len(rows) /\ rows[j].ts <= rows[i].ts
      BY <1>1 DEF InOrder
    <3> QED  BY <1>1, <1>2, <1>5, <3>1
  <2>2. IsFiniteSet(stale)
    <3>1. IsFiniteSet(1..Len(rows)) /\ stale \subseteq 1..Len(rows)
      BY <1>1, CountUpTo
    <3> HIDE DEF stale
    <3> QED  BY <3>1, FS_Subset
  <2>3. Cardinality(1..i) = i
    BY CountUpTo
  <2> HIDE DEF stale
  <2>4. Cardinality(1..i) <= k
    BY <2>1, <2>2, FS_Subset
  <2> QED  BY <2>3, <2>4
<1>6. Fresh(rows, cutoff) = SubSeq(rows, k + 1, Len(rows))
  BY DEF Fresh
<1> HIDE DEF k, stale
<1>7. /\ Fresh(rows, cutoff) \in Rows /\ Len(Fresh(rows, cutoff)) = Len(rows) - k
      /\ \A i \in 1..Len(rows) - k : Fresh(rows, cutoff)[i] = rows[k + i]
  <2>1. \A i \in k + 1..Len(rows) : rows[i] \in SampleRecord
    BY <1>1, <1>3, ElementOfSeq DEF Rows
  <2>2. k + 1 \in Int /\ Len(rows) \in Int
    BY <1>1, <1>3
  <2>3. /\ Fresh(rows, cutoff) \in Seq(SampleRecord)
        /\ Len(Fresh(rows, cutoff)) = IF k + 1 <= Len(rows) THEN Len(rows) - (k + 1) + 1 ELSE 0
        /\ \A i \in 1..Len(rows) - (k + 1) + 1 : Fresh(rows, cutoff)[i] = rows[(k + 1) + i - 1]
    BY <1>6, <2>1, <2>2, SubSeqProperties
  <2>4. ASSUME NEW i \in 1..Len(rows) - k  PROVE Fresh(rows, cutoff)[i] = rows[k + i]
    <3>1. i \in 1..Len(rows) - (k + 1) + 1 /\ (k + 1) + i - 1 = k + i
      BY <1>1, <1>3
    <3> QED  BY <2>3, <3>1
  <2>5. \A n \in Nat : \A j \in 0..n :
          (IF j + 1 <= n THEN n - (j + 1) + 1 ELSE 0) = n - j
    OBVIOUS
  <2>6. Len(Fresh(rows, cutoff)) = Len(rows) - k
    BY <1>1, <1>3, <2>3, <2>5
  <2> QED  BY <2>3, <2>4, <2>6 DEF Rows
<1>8. \A i \in 1..Len(rows) : rows[i].ts <= cutoff <=> i <= k
  BY <1>1, <1>2, <1>3, <1>4, <1>5
<1> QED  BY <1>3, <1>6, <1>7, <1>8

(* Dropping them keeps the others.                                         *)
LEMMA FreshOrdered ==
  ASSUME NEW rows \in Rows, InOrder(rows), NEW cutoff \in Int
  PROVE  LET left == Fresh(rows, cutoff)
         IN /\ left \in Rows /\ Len(left) <= Len(rows) /\ InOrder(left)
            /\ Held(left) \subseteq Held(rows)
            /\ \A r \in Held(rows) : r.ts > cutoff => r \in Held(left)
            /\ \A r \in Held(left) : r.ts > cutoff
<1>1. /\ DOMAIN rows = 1..Len(rows) /\ Len(rows) \in Nat
      /\ \A i \in 1..Len(rows) : rows[i].ts \in Nat
  <2>1. \A i \in 1..Len(rows) : rows[i] \in SampleRecord
    BY ElementOfSeq DEF Rows
  <2> QED  BY <2>1, LenProperties DEF SampleRecord, Rows
<1>2. PICK k \in 0..Len(rows) :
        /\ \A i \in 1..Len(rows) : rows[i].ts <= cutoff <=> i <= k
        /\ Fresh(rows, cutoff) = SubSeq(rows, k + 1, Len(rows))
  BY FreshCut
<1>3. k + 1 \in 1..Len(rows) + 1 /\ Len(rows) \in (k + 1) - 1..Len(rows)
  BY <1>1
<1>4. LET left == Fresh(rows, cutoff)
      IN /\ left \in Rows /\ Len(left) = Len(rows) - (k + 1) + 1 /\ InOrder(left)
         /\ Held(left) = {rows[i] : i \in k + 1..Len(rows)}
         /\ Held(left) \subseteq Held(rows)
  BY <1>2, <1>3, Stretch
<1>5. \A i \in 1..Len(rows) : rows[i].ts > cutoff <=> i \in k + 1..Len(rows)
  BY <1>1, <1>2
<1>6. Len(rows) - (k + 1) + 1 <= Len(rows) /\ k + 1..Len(rows) \subseteq 1..Len(rows)
  BY <1>1
<1> QED  BY <1>1, <1>4, <1>5, <1>6 DEF Held

(* A stream whose two windows follow one another in time up to its last    *)
(* timestamp, with the labels of all their samples.                        *)
InWindow(s) ==
  /\ Len(s.baseline) \in {0, WINDOW} /\ Len(s.current) <= WINDOW
  /\ InOrder(s.baseline) /\ InOrder(s.current) /\ Precedes(s.baseline, s.current)
  /\ \A r \in Held(s.baseline) \cup Held(s.current) : r.ts <= s.last /\ r.version \in s.versions
  /\ IsFiniteSet(s.versions) /\ Cardinality(s.versions) <= MAX_VERSIONS

(* Its last sample is there.                                               *)
Latest(s) == \E r \in Held(s.baseline) \cup Held(s.current) : r.ts = s.last

Windowed(st) ==
  \A x \in DOMAIN st.streams : InWindow(st.streams[x]) /\ Latest(st.streams[x])

(* The samples of a window, and of none.                                   *)
LEMMA HeldTyped ==
  /\ \A rows \in Rows : /\ Held(rows) \subseteq SampleRecord
                        /\ rows # << >> => rows[1] \in Held(rows) /\ Len(rows) \in Nat \ {0}
                        /\ DOMAIN rows = 1..Len(rows) /\ Len(rows) \in Nat
  /\ << >> \in Rows /\ Held(<< >>) = {} /\ InOrder(<< >>) /\ Len(<< >>) = 0
<1>1. ASSUME NEW rows \in Rows
      PROVE  /\ Held(rows) \subseteq SampleRecord
             /\ rows # << >> => rows[1] \in Held(rows) /\ Len(rows) \in Nat \ {0}
             /\ DOMAIN rows = 1..Len(rows) /\ Len(rows) \in Nat
  <2>1. DOMAIN rows = 1..Len(rows) /\ Len(rows) \in Nat
    BY LenProperties DEF Rows
  <2>2. \A i \in 1..Len(rows) : rows[i] \in SampleRecord
    BY ElementOfSeq DEF Rows
  <2>3. rows # << >> => Len(rows) \in Nat \ {0}
    BY EmptySeq DEF Rows
  <2> QED  BY <2>1, <2>2, <2>3 DEF Held
<1>2. << >> \in Rows /\ Held(<< >>) = {} /\ InOrder(<< >>) /\ Len(<< >>) = 0
  BY EmptySeq DEF Rows, Held, InOrder
<1> QED  BY <1>1, <1>2

(* Trimming forgets only labels no sample has.                             *)
LEMMA TrimInWindow ==
  ASSUME NEW s \in StreamRecord, InWindow(s)
  PROVE  InWindow(TrimVersions(s)) /\ (Latest(s) => Latest(TrimVersions(s)))
<1> DEFINE t == TrimVersions(s)
<1>1. s.baseline \in Rows /\ s.current \in Rows
  BY DEF StreamRecord, Rows
<1>2. /\ t.baseline = s.baseline /\ t.current = s.current /\ t.last = s.last
      /\ t.versions = s.versions \cap Labels(s.baseline \o s.current)
  BY TrimType DEF TrimVersions, StreamRecord
<1>3. Held(s.baseline \o s.current) = Held(s.baseline) \cup Held(s.current)
  BY <1>1, Joined DEF InWindow
<1>4. \A r \in Held(s.baseline) \cup Held(s.current) : r.version \in t.versions
  <2>1. \A r \in Held(s.baseline \o s.current) : r.version \in Labels(s.baseline \o s.current)
    BY DEF Held, Labels
  <2> QED  BY <1>2, <1>3, <2>1 DEF InWindow
<1>5. IsFiniteSet(t.versions) /\ Cardinality(t.versions) <= MAX_VERSIONS
  <2>1. t.versions \in SUBSET s.versions
    BY <1>2
  <2>2. IsFiniteSet(s.versions) /\ Cardinality(s.versions) <= MAX_VERSIONS
    BY DEF InWindow
  <2> HIDE DEF t
  <2>3. IsFiniteSet(t.versions) /\ Cardinality(t.versions) <= Cardinality(s.versions)
    BY <2>1, <2>2, FS_Subset
  <2> QED  BY <2>2, <2>3, FS_CardinalityType, SizesAssumption
<1> HIDE DEF t
<1> QED  BY <1>2, <1>4, <1>5 DEF InWindow, Latest, t

(* The stream an event is judged in, a new one included.                   *)
LEMMA StreamForInWindow ==
  ASSUME NEW st, IsEngine(st), Windowed(st), NEW e \in Events
  PROVE  InWindow(StreamFor(st, e))
<1>1. CASE e.stream \in DOMAIN st.streams
  <2>1. st.streams[e.stream] \in StreamRecord /\ InWindow(st.streams[e.stream])
    BY <1>1, EngineParts DEF Windowed
  <2> QED  BY <1>1, <2>1, TrimInWindow DEF StreamFor
<1>2. CASE e.stream \notin DOMAIN st.streams
  <2>1. NewStream(e) \in StreamRecord
    BY EventParts, EmptySeq DEF NewStream, StreamRecord
  <2>2. /\ NewStream(e).baseline = << >> /\ NewStream(e).current = << >>
        /\ NewStream(e).versions = {}
    BY DEF NewStream
  <2>3. InWindow(NewStream(e))
    BY <2>2, HeldTyped, FS_EmptySet, SizesAssumption DEF InWindow, Precedes
  <2> QED  BY <1>2, <2>1, <2>3, TrimInWindow DEF StreamFor
<1> QED  BY <1>1, <1>2

(* An event no earlier than the last one is the next sample.               *)
LEMMA PushInWindow ==
  ASSUME NEW s \in StreamRecord, InWindow(s), NEW e \in Events, e.ts >= s.last,
         e.version \in s.versions \/ Cardinality(s.versions) < MAX_VERSIONS
  PROVE  /\ InWindow(Push(s, e))
         /\ \E r \in Held(Push(s, e).current) : r.ts = Push(s, e).last
         /\ \A r \in Held(Push(s, e).baseline) \cup Held(Push(s, e).current) :
              r \in Held(s.baseline) \cup Held(s.current) \/ r = Sample(e)
<1> DEFINE p     == Push(s, e)
           full  == Len(s.current) = WINDOW
           slide == full /\ s.active = None /\ s.baseline # << >>
           base  == IF slide THEN LastN(Append(s.baseline, s.current[1]), WINDOW) ELSE s.baseline
           rest  == IF full THEN Tail(s.current) ELSE s.current
           new   == Sample(e)
<1>1. /\ s.baseline \in Rows /\ s.current \in Rows /\ WINDOW \in Nat \ {0}
      /\ new \in SampleRecord /\ new.ts = e.ts /\ new.version = e.version
      /\ e.ts \in Nat /\ s.last \in Nat
  BY EventParts, SizesAssumption DEF StreamRecord, Rows, Sample
<1>2. /\ p.baseline = base /\ p.current = Append(rest, new) /\ p.last = e.ts
      /\ p.versions = s.versions \cup {e.version}
  BY DEF Push, StreamRecord
<1>3. /\ InOrder(s.baseline) /\ InOrder(s.current) /\ Precedes(s.baseline, s.current)
      /\ Len(s.baseline) \in {0, WINDOW} /\ Len(s.current) <= WINDOW
      /\ \A r \in Held(s.baseline) \cup Held(s.current) :
           r \in SampleRecord /\ r.ts <= e.ts /\ r.version \in p.versions
  <2>1. Held(s.baseline) \cup Held(s.current) \subseteq SampleRecord
    BY <1>1, HeldTyped
  <2>2. \A r \in SampleRecord : r.ts \in Nat
    BY DEF SampleRecord
  <2> HIDE DEF p
  <2> QED  BY <1>1, <1>2, <2>1, <2>2 DEF InWindow
<1>4. full => s.current # << >> /\ Len(s.current) \in Nat /\ s.current[1] \in Held(s.current)
  BY <1>1, HeldTyped
<1>5. /\ rest \in Rows /\ InOrder(rest) /\ Held(rest) \subseteq Held(s.current)
      /\ Len(rest) <= WINDOW - 1
      /\ full => \A r \in Held(rest) : s.current[1].ts <= r.ts
  <2>1. CASE full
    <3>1. rest = SubSeq(s.current, 2, Len(s.current))
      BY <1>1, <1>4, <2>1, TailIsSubSeq DEF Rows
    <3>2. 2 \in 1..Len(s.current) + 1 /\ Len(s.current) \in 2 - 1..Len(s.current)
      BY <1>1, <2>1
    <3> HIDE DEF rest
    <3>3. /\ rest \in Rows /\ Len(rest) = Len(s.current) - 2 + 1 /\ InOrder(rest)
          /\ Held(rest) = {s.current[i] : i \in 2..Len(s.current)}
          /\ Held(rest) \subseteq Held(s.current)
      BY <1>1, <1>3, <3>1, <3>2, Stretch
    <3>4. \A i \in 2..Len(s.current) : s.current[1].ts <= s.current[i].ts
      <4>1. DOMAIN s.current = 1..Len(s.current) /\ Len(s.current) \in Nat
        BY <1>1, HeldTyped
      <4> QED  BY <1>3, <4>1 DEF InOrder
    <3> QED  BY <1>1, <2>1, <3>3, <3>4
  <2>2. CASE ~full
    <3>1. Len(s.current) \in Nat
      BY <1>1, HeldTyped
    <3> QED  BY <1>1, <1>3, <2>2, <3>1
  <2> QED  BY <2>1, <2>2
<1>6. /\ base \in Rows /\ InOrder(base) /\ Len(base) \in {0, WINDOW}
      /\ \/ Held(base) \subseteq Held(s.baseline)
         \/ full /\ Held(base) \subseteq Held(s.baseline) \cup {s.current[1]}
  <2>1. CASE slide
    <3> DEFINE longer == Append(s.baseline, s.current[1])
    <3>1. Len(s.baseline) = WINDOW
      BY <1>1, <1>3, <2>1, HeldTyped
    <3>2. s.current[1] \in SampleRecord /\ \A q \in Held(s.baseline) : q.ts <= s.current[1].ts
      BY <1>3, <1>4, <2>1 DEF Precedes
    <3>3. /\ longer \in Rows /\ Len(longer) = WINDOW + 1 /\ InOrder(longer)
          /\ Held(longer) = Held(s.baseline) \cup {s.current[1]}
      BY <1>1, <1>3, <3>1, <3>2, NextSample
    <3> HIDE DEF longer
    <3> DEFINE end == Len(longer)
    <3>4. ~ (end <= WINDOW) /\ end - WINDOW + 1 = 2 /\ end - 2 + 1 = WINDOW
      BY <1>1, <3>3
    <3>5. 2 \in 1..end + 1 /\ end \in 2 - 1..end
      BY <1>1, <3>3
    <3>6. base = LastN(longer, WINDOW)
      BY <2>1 DEF longer
    <3> HIDE DEF base
    <3>7. base = SubSeq(longer, 2, end)
      <4>1. LastN(longer, WINDOW) = SubSeq(longer, end - WINDOW + 1, end)
        BY <3>4 DEF LastN
      <4> QED  BY <3>4, <3>6, <4>1
    <3>8. /\ base \in Rows /\ Len(base) = WINDOW /\ InOrder(base)
          /\ Held(base) \subseteq Held(longer)
      <4>1. LET part == SubSeq(longer, 2, end)
            IN /\ part \in Rows /\ Len(part) = end - 2 + 1 /\ InOrder(part)
               /\ Held(part) \subseteq Held(longer)
        BY <3>3, <3>5, Stretch
      <4> QED  BY <3>4, <3>7, <4>1
    <3> QED  BY <2>1, <3>3, <3>8
  <2>2. CASE ~slide
    BY <1>1, <1>3, <2>2
  <2> QED  BY <2>1, <2>2
<1> HIDE DEF p, base, rest, new, full
<1>7. /\ Append(rest, new) \in Rows /\ Len(Append(rest, new)) = Len(rest) + 1
      /\ InOrder(Append(rest, new)) /\ Held(Append(rest, new)) = Held(rest) \cup {new}
  <2>1. \A q \in Held(rest) : q.ts <= new.ts
    BY <1>1, <1>3, <1>5
  <2> QED  BY <1>1, <1>5, <2>1, NextSample
<1>8. Precedes(base, Append(rest, new))
  <2> SUFFICES ASSUME NEW q \in Held(base), NEW r \in Held(rest) \cup {new}  PROVE q.ts <= r.ts
    BY <1>7 DEF Precedes
  <2>1. q \in Held(s.baseline) \/ (full /\ q = s.current[1])
    BY <1>6
  <2>2. CASE r = new
    BY <1>1, <1>3, <1>4, <2>1, <2>2
  <2>3. CASE r \in Held(rest)
    BY <1>3, <1>5, <2>1, <2>3 DEF Precedes
  <2> QED  BY <2>2, <2>3
<1>9. \A r \in Held(base) \cup Held(Append(rest, new)) : r.ts <= e.ts /\ r.version \in p.versions
  <2>1. new.ts <= e.ts /\ new.version \in p.versions
    BY <1>1, <1>2
  <2>2. \A r \in Held(base) \cup Held(rest) : r \in Held(s.baseline) \cup Held(s.current)
    BY <1>4, <1>5, <1>6
  <2> QED  BY <1>3, <1>7, <2>1, <2>2
<1>14. \A r \in Held(base) \cup Held(Append(rest, new)) :
         r \in Held(s.baseline) \cup Held(s.current) \/ r = new
  BY <1>4, <1>5, <1>6, <1>7
<1>10. IsFiniteSet(p.versions) /\ Cardinality(p.versions) <= MAX_VERSIONS
  <2>1. IsFiniteSet(s.versions) /\ Cardinality(s.versions) <= MAX_VERSIONS
    BY DEF InWindow
  <2>2. /\ IsFiniteSet(s.versions \cup {e.version})
        /\ Cardinality(s.versions \cup {e.version}) =
             IF e.version \in s.versions THEN Cardinality(s.versions)
             ELSE Cardinality(s.versions) + 1
    BY <2>1, FS_AddElement
  <2> QED  BY <1>2, <2>1, <2>2, FS_CardinalityType, SizesAssumption
<1>11. Len(rest) \in Nat /\ Len(rest) + 1 <= WINDOW
  BY <1>1, <1>5, HeldTyped
<1>12. InWindow(p)
  BY <1>2, <1>6, <1>7, <1>8, <1>9, <1>10, <1>11 DEF InWindow
<1>13. \E r \in Held(p.current) : r.ts = p.last
  BY <1>1, <1>2, <1>7
<1> QED  BY <1>2, <1>12, <1>13, <1>14 DEF p, new

(* A window that becomes the baseline is one that was in order.            *)
LEMMA Promoted ==
  ASSUME NEW p \in StreamRecord, InWindow(p), \E r \in Held(p.current) : r.ts = p.last,
         Len(p.current) >= WINDOW,
         NEW g, g.baseline = p.current, g.current = << >>,
         g.last = p.last, g.versions = p.versions
  PROVE  InWindow(g) /\ Latest(g)
<1>1. /\ Len(p.current) <= WINDOW /\ Len(p.current) \in Nat /\ WINDOW \in Nat
      /\ p.current \in Rows
  BY HeldTyped, SizesAssumption DEF InWindow, StreamRecord, Rows
<1>2. Len(p.current) = WINDOW
  BY <1>1
<1> QED  BY <1>1, <1>2, HeldTyped DEF InWindow, Latest, Precedes

(* Accepting an event keeps the windows of its stream in order.            *)
LEMMA AcceptWindowed ==
  ASSUME NEW st, GoodEngine(st), Windowed(st), NEW e \in Events, Admissible(st, e)
  PROVE  Windowed(Accept(st, e))
<1> DEFINE p    == Push(StreamFor(st, e), e)
           seen == Evaluate(st, e, p)
           g    == Graduate(seen.stream)
           next == Accept(st, e)
<1>1. IsEngine(st) /\ p \in StreamRecord /\ WINDOW \in Nat
  BY ActiveFound, SizesAssumption
<1>2. InWindow(p) /\ \E r \in Held(p.current) : r.ts = p.last
  <2>1. StreamFor(st, e) \in StreamRecord /\ InWindow(StreamFor(st, e))
    BY <1>1, StreamForType, StreamForInWindow
  <2> QED  BY <2>1, PushInWindow DEF Admissible
<1>3. InWindow(g) /\ Latest(g)
  <2>1. /\ g.last = p.last /\ g.versions = p.versions
        /\ \/ g.baseline = p.baseline /\ g.current = p.current
           \/ Len(p.current) = WINDOW /\ g.baseline = p.current /\ g.current = << >>
           \/ /\ Len(p.current) >= WINDOW
              /\ g.baseline = LastN(p.current, WINDOW) /\ g.current = << >>
    BY AcceptStream
  <2>2. Len(p.current) <= WINDOW /\ Len(p.current) \in Nat
    <3>1. p.current \in Rows
      BY <1>1 DEF StreamRecord, Rows
    <3> QED  BY <1>2, <3>1, HeldTyped DEF InWindow
  <2>3. LastN(p.current, WINDOW) = p.current
    BY <2>2 DEF LastN
  <2> HIDE DEF p, g
  <2>4. CASE g.baseline = p.baseline /\ g.current = p.current
    BY <1>2, <2>1, <2>4 DEF InWindow, Latest
  <2>5. CASE Len(p.current) >= WINDOW /\ g.baseline = p.current /\ g.current = << >>
    BY <1>1, <1>2, <2>1, <2>5, Promoted
  <2> QED  BY <1>1, <2>1, <2>2, <2>3, <2>4, <2>5
<1>4. next = Replaced(st, e, g, seen.incidents)
  BY <1>1, AcceptShape
<1> HIDE DEF p, seen, g, next
<1>5. /\ DOMAIN next.streams = DOMAIN st.streams \cup {e.stream}
      /\ next.streams[e.stream] = g
      /\ \A x \in DOMAIN st.streams : x # e.stream => next.streams[x] = st.streams[x]
  BY <1>4 DEF Replaced
<1> QED  BY <1>3, <1>5 DEF Windowed, next

(* Pruning a live stream: the fresh samples are a window and part of one,  *)
(* or too few for a baseline.                                              *)
LEMMA PruneInWindow ==
  ASSUME NEW s \in StreamRecord, NEW kept \in SUBSET IncidentRecord, NEW cutoff \in Int,
         InWindow(s), Latest(s), s.last > cutoff
  PROVE  LET t == PruneStream(s, kept, cutoff)
         IN /\ InWindow(t) /\ Latest(t)
            /\ \A r \in Held(t.baseline) \cup Held(t.current) : r.ts > cutoff
<1> DEFINE base == Fresh(s.baseline, cutoff)
           cur  == Fresh(s.current, cutoff)
           rows == base \o cur
           all  == Held(base) \cup Held(cur)
           next == [s EXCEPT !.active = IF Lapses(s, kept, cutoff) THEN None
                                        ELSE Linked(s, kept)]
           slid == [next EXCEPT !.baseline = base, !.current = cur]
           head == IF Len(rows) >= WINDOW THEN SubSeq(rows, 1, WINDOW) ELSE << >>
           tail == IF Len(rows) >= WINDOW THEN SubSeq(rows, WINDOW + 1, Len(rows)) ELSE rows
           rebuilt == [next EXCEPT !.baseline = head, !.current = tail]
<1>1. s.baseline \in Rows /\ s.current \in Rows /\ WINDOW \in Nat \ {0}
  BY SizesAssumption DEF StreamRecord, Rows
<1>2. /\ base \in Rows /\ InOrder(base) /\ Held(base) \subseteq Held(s.baseline)
      /\ cur \in Rows /\ InOrder(cur) /\ Held(cur) \subseteq Held(s.current)
      /\ Len(base) <= Len(s.baseline) /\ Len(cur) <= Len(s.current)
      /\ \A r \in Held(s.baseline) \cup Held(s.current) : r.ts > cutoff => r \in all
      /\ \A r \in all : r.ts > cutoff
  BY <1>1, FreshOrdered DEF InWindow
<1>3. /\ Precedes(base, cur)
      /\ \A r \in all : r.ts <= s.last /\ r.version \in s.versions
      /\ \E r \in all : r.ts = s.last
  <2> HIDE DEF base, cur
  <2> QED  BY <1>2 DEF InWindow, Latest, Precedes
<1>4. rows \in Rows /\ Len(rows) = Len(base) + Len(cur) /\ InOrder(rows) /\ Held(rows) = all
  BY <1>2, <1>3, Joined
<1>5. /\ Len(base) \in Nat /\ Len(cur) \in Nat /\ Len(s.baseline) \in {0, WINDOW}
      /\ Len(s.current) \in Nat /\ Len(s.current) <= WINDOW /\ Len(rows) \in Nat
  BY <1>1, <1>2, <1>4, HeldTyped DEF InWindow
<1>6. /\ next \in StreamRecord /\ next.last = s.last /\ next.versions = s.versions
  BY DEF Linked, StreamRecord
<1>7. PruneStream(s, kept, cutoff) = TrimVersions(IF ~Shrinks(s, cutoff) THEN slid ELSE rebuilt)
  BY DEF PruneStream
<1>8. CASE ~Shrinks(s, cutoff)
  <2>1. ~ (Len(base) < Len(s.baseline))
    BY <1>8 DEF Shrinks
  <2> HIDE DEF base, cur, next
  <2>2. Len(base) \in {0, WINDOW} /\ Len(cur) <= WINDOW
    BY <1>1, <1>2, <1>5, <2>1
  <2>3. /\ slid \in StreamRecord /\ slid.baseline = base /\ slid.current = cur
        /\ slid.last = s.last /\ slid.versions = s.versions
    BY <1>2, <1>6 DEF StreamRecord, Rows
  <2> HIDE DEF slid
  <2>4. InWindow(slid) /\ Latest(slid)
    BY <1>2, <1>3, <2>2, <2>3 DEF InWindow, Latest
  <2> QED  BY <1>2, <1>7, <1>8, <2>3, <2>4, TrimInWindow, TrimType
<1>9. CASE Shrinks(s, cutoff)
  <2>1. Len(base) < Len(s.baseline)
    BY <1>9 DEF Shrinks
  <2> HIDE DEF base, cur, next, all
  <2>2. Len(rows) < 2 * WINDOW
    BY <1>1, <1>2, <1>4, <1>5, <2>1
  <2> HIDE DEF rows
  <2>3. /\ head \in Rows /\ tail \in Rows /\ InOrder(head) /\ InOrder(tail)
        /\ Len(head) \in {0, WINDOW} /\ Len(tail) <= WINDOW
        /\ Held(head) \cup Held(tail) = all /\ Precedes(head, tail)
    <3>1. CASE Len(rows) >= WINDOW
      <4> DEFINE n == Len(rows)
      <4>1. /\ 1 \in 1..n + 1 /\ WINDOW \in 1 - 1..n
            /\ WINDOW + 1 \in 1..n + 1 /\ n \in (WINDOW + 1) - 1..n
            /\ WINDOW - 1 + 1 = WINDOW /\ n - (WINDOW + 1) + 1 <= WINDOW
        BY <1>1, <1>5, <2>2, <3>1
      <4>2. LET part == SubSeq(rows, 1, WINDOW)
            IN /\ part \in Rows /\ Len(part) = WINDOW - 1 + 1 /\ InOrder(part)
               /\ Held(part) = {rows[i] : i \in 1..WINDOW}
        BY <1>4, <4>1, Stretch
      <4>3. LET part == SubSeq(rows, WINDOW + 1, n)
            IN /\ part \in Rows /\ Len(part) = n - (WINDOW + 1) + 1 /\ InOrder(part)
               /\ Held(part) = {rows[i] : i \in WINDOW + 1..n}
        BY <1>4, <4>1, Stretch
      <4>4. head = SubSeq(rows, 1, WINDOW) /\ tail = SubSeq(rows, WINDOW + 1, n)
        BY <3>1
      <4> HIDE DEF head, tail
      <4>5. /\ Held(head) = {rows[i] : i \in 1..WINDOW}
            /\ Held(tail) = {rows[i] : i \in WINDOW + 1..n}
        BY <4>2, <4>3, <4>4
      <4>6. DOMAIN rows = 1..n /\ n \in Nat
        BY <1>4, HeldTyped
      <4>7. Held(head) \cup Held(tail) = all
        <5>1. 1..n = (1..WINDOW) \cup (WINDOW + 1..n)
          BY <1>1, <3>1, <4>6
        <5>2. Held(rows) = {rows[i] : i \in 1..WINDOW} \cup {rows[i] : i \in WINDOW + 1..n}
          BY <4>6, <5>1 DEF Held
        <5> QED  BY <1>4, <4>5, <5>2
      <4>8. Precedes(head, tail)
        <5>1. \A i \in 1..WINDOW, j \in WINDOW + 1..n : rows[i].ts <= rows[j].ts
          BY <1>1, <1>4, <3>1, <4>6 DEF InOrder
        <5> QED  BY <4>5, <5>1 DEF Precedes
      <4>9. /\ head \in Rows /\ tail \in Rows /\ InOrder(head) /\ InOrder(tail)
            /\ Len(head) = WINDOW /\ Len(tail) <= WINDOW
        BY <4>1, <4>2, <4>3, <4>4
      <4> QED  BY <4>7, <4>8, <4>9
    <3>2. CASE ~ (Len(rows) >= WINDOW)
      <4>1. head = << >> /\ tail = rows
        BY <3>2
      <4>2. Len(rows) <= WINDOW
        BY <1>1, <1>5, <3>2
      <4> QED  BY <1>4, <4>1, <4>2, HeldTyped DEF Precedes
    <3> QED  BY <3>1, <3>2
  <2> HIDE DEF head, tail
  <2>4. /\ rebuilt \in StreamRecord /\ rebuilt.baseline = head /\ rebuilt.current = tail
        /\ rebuilt.last = s.last /\ rebuilt.versions = s.versions
    BY <1>6, <2>3 DEF StreamRecord, Rows
  <2> HIDE DEF rebuilt
  <2>5. InWindow(rebuilt) /\ Latest(rebuilt)
    BY <1>3, <2>3, <2>4 DEF InWindow, Latest
  <2>6. Held(rebuilt.baseline) \cup Held(rebuilt.current) = Held(base) \cup Held(cur)
    BY <2>3, <2>4 DEF all
  <2> QED  BY <1>2, <1>7, <1>9, <2>4, <2>5, <2>6, TrimInWindow, TrimType DEF all
<1> QED  BY <1>8, <1>9

(* Pruning keeps the windows of every live stream in order.                *)
LEMMA PruneWindowed ==
  ASSUME NEW st, IsEngine(st), Windowed(st), NEW now \in Int
  PROVE  Windowed(Prune(st, now))
<1> DEFINE cutoff == now - RETENTION
           kept   == {i \in st.incidents : i.opened > cutoff}
           live   == {x \in DOMAIN st.streams : st.streams[x].last > cutoff}
<1>1. /\ Prune(st, now).streams = [x \in live |-> PruneStream(st.streams[x], kept, cutoff)]
      /\ cutoff \in Int /\ kept \in SUBSET IncidentRecord
  BY EngineParts, SizesAssumption DEF Prune, IsEngine
<1> HIDE DEF cutoff, kept
<1>2. ASSUME NEW x \in live
      PROVE  /\ InWindow(PruneStream(st.streams[x], kept, cutoff))
             /\ Latest(PruneStream(st.streams[x], kept, cutoff))
  BY <1>1, EngineParts, PruneInWindow DEF Windowed
<1> HIDE DEF live
<1> QED  BY <1>1, <1>2 DEF Windowed
-----------------------------------------------------------------------------
(***************************************************************************)
(* What becomes of an incident.                                            *)
(***************************************************************************)

(* What pruning makes of a listed incident that is young enough: an open   *)
(* one whose baseline loses a sample expires.                              *)
AgedIn(st, cutoff, i) ==
  IF i.status = "open" /\ Shrinks(st.streams[i.stream], cutoff)
  THEN Resolve(i, "expired", st.streams[i.stream].baseline[1].ts + RETENTION) ELSE i

(* A baseline that shrinks has a first sample.                             *)
LEMMA ShrinksFirst ==
  ASSUME NEW s \in StreamRecord, NEW cutoff \in Int, Shrinks(s, cutoff)
  PROVE  s.baseline # << >> /\ s.baseline[1] \in SampleRecord /\ 1 \in DOMAIN s.baseline
<1>1. s.baseline \in Rows
  BY DEF StreamRecord, Rows
<1>2. Len(s.baseline) \in Nat \ {0} /\ DOMAIN s.baseline = 1..Len(s.baseline)
  <2>1. Len(s.baseline) \in Nat /\ DOMAIN s.baseline = 1..Len(s.baseline)
    BY <1>1, LenProperties DEF Rows
  <2>2. Len(s.baseline) # 0
    BY <1>1, <2>1, FreshType DEF Shrinks
  <2> QED  BY <2>1, <2>2
<1>3. Len(<< >>) = 0
  OBVIOUS
<1> QED  BY <1>1, <1>2, <1>3, ElementOfSeq DEF Rows

(* The incidents and the streams a pruning at now keeps.                   *)
Young(st, now)  == {i \in st.incidents : i.opened > now - RETENTION}
Living(st, now) == {x \in DOMAIN st.streams : st.streams[x].last > now - RETENTION}

(* A kept incident and the stream it is active in.                         *)
LEMMA KeptOwner ==
  ASSUME NEW st, GoodEngine(st), NEW now \in Int,
         NEW i \in Young(st, now)
  PROVE  /\ \A x \in DOMAIN st.streams :
              st.streams[x].active = i.id =>
                /\ Linked(st.streams[x], Young(st, now)) = i.id
                /\ IncidentOf(Young(st, now), st.streams[x]) = i
                /\ i.status = "open" /\ i.stream = x
         /\ i.status = "open" =>
              /\ i.stream \in DOMAIN st.streams /\ st.streams[i.stream].active = i.id
              /\ st.streams[i.stream].last > now - RETENTION
<1> DEFINE kept == Young(st, now)
<1>1. /\ IsEngine(st) /\ kept \in SUBSET IncidentRecord /\ i \in kept /\ i \in st.incidents
      /\ st.incidents \subseteq IncidentRecord
  BY EngineParts DEF GoodEngine, Young
<1>2. i.id # None /\ i.opened \in Nat /\ i.opened > now - RETENTION
  BY <1>1, IdNotNone DEF IncidentRecord, Young
<1> HIDE DEF kept
<1>3. ASSUME NEW x \in DOMAIN st.streams, st.streams[x].active = i.id
      PROVE  /\ Linked(st.streams[x], kept) = i.id /\ IncidentOf(kept, st.streams[x]) = i
             /\ i.status = "open" /\ i.stream = x
  <2>1. \A j \in kept : j.id = i.id => j = i
    BY DEF GoodEngine, IdsUnique, Young, kept
  <2>2. PICK j \in st.incidents : j.id = i.id /\ j.stream = x /\ j.status = "open"
    BY <1>2, <1>3 DEF GoodEngine, ActiveIsOpen
  <2>3. j = i
    BY <1>1, <2>2 DEF GoodEngine, IdsUnique
  <2>4. IncidentOf(kept, st.streams[x]) = i
    BY <1>1, <1>3, <2>1, IncidentOfUnique
  <2>5. Linked(st.streams[x], kept) = i.id
    BY <1>1, <1>3 DEF Linked
  <2> QED  BY <2>2, <2>3, <2>4, <2>5
<1>4. ASSUME i.status = "open"
      PROVE  /\ i.stream \in DOMAIN st.streams /\ st.streams[i.stream].active = i.id
             /\ st.streams[i.stream].last > now - RETENTION
  <2>1. /\ i.stream \in DOMAIN st.streams /\ st.streams[i.stream].active = i.id
        /\ i.opened <= st.streams[i.stream].last
    BY <1>1, <1>4 DEF GoodEngine, OpenIsActive, OpenedByLast
  <2>2. st.streams[i.stream].last \in Nat
    BY <1>1, <2>1, EngineParts DEF StreamRecord
  <2> QED  BY <1>2, <2>1, <2>2, SizesAssumption
<1> QED  BY <1>3, <1>4 DEF kept

(* _prune on streams and incidents, told without the order it goes in.     *)
LEMMA PruneShape ==
  ASSUME NEW st, GoodEngine(st), NEW now \in Int
  PROVE  /\ Prune(st, now).streams
              = [x \in Living(st, now) |->
                   PruneStream(st.streams[x], Young(st, now), now - RETENTION)]
         /\ Prune(st, now).incidents = {AgedIn(st, now - RETENTION, i) : i \in Young(st, now)}
         /\ Prune(st, now).accepted = st.accepted
<1> DEFINE kept == Young(st, now)
           live == Living(st, now)
           cutoff == now - RETENTION
           Expirer(i) == {x \in live : /\ Lapses(st.streams[x], kept, cutoff)
                                       /\ IncidentOf(kept, st.streams[x]) = i}
           Aged(i) == IF Expirer(i) = {} THEN i
                      ELSE LET x == CHOOSE x \in Expirer(i) : TRUE
                           IN Resolve(i, "expired", st.streams[x].baseline[1].ts + RETENTION)
<1>1. /\ Prune(st, now).streams = [x \in live |-> PruneStream(st.streams[x], kept, cutoff)]
      /\ Prune(st, now).incidents = {Aged(i) : i \in kept}
      /\ Prune(st, now).accepted = st.accepted
  BY DEF Prune, IsEngine, GoodEngine, Young, Living
<1> HIDE DEF kept
<1>2. ASSUME NEW i \in kept  PROVE Aged(i) = AgedIn(st, cutoff, i)
  <2> HIDE DEF Expirer, Aged
  <2>1. \A x \in DOMAIN st.streams : st.streams[x].active = i.id =>
          /\ Linked(st.streams[x], kept) = i.id /\ IncidentOf(kept, st.streams[x]) = i
          /\ i.status = "open" /\ i.stream = x
    BY KeptOwner DEF kept
  <2>2. i.status = "open" => i.stream \in live /\ st.streams[i.stream].active = i.id
    BY KeptOwner DEF kept, Living
  <2>3. i.id # None
    BY EngineParts, IdNotNone DEF GoodEngine, IncidentRecord, kept, Young
  <2>4. ASSUME NEW x \in Expirer(i)
        PROVE  x = i.stream /\ i.status = "open" /\ Shrinks(st.streams[x], cutoff)
    <3>1. /\ x \in DOMAIN st.streams /\ Linked(st.streams[x], kept) # None
          /\ Shrinks(st.streams[x], cutoff) /\ IncidentOf(kept, st.streams[x]) = i
      BY DEF Lapses, Expirer, Living
    <3>2. PICK j \in kept : j.id = st.streams[x].active
      BY <3>1 DEF Linked
    <3> HIDE DEF cutoff
    <3>3. IncidentOf(kept, st.streams[x]) = j
      BY <3>1, <3>2, KeptOwner DEF kept
    <3>4. j = i
      BY <3>1, <3>3
    <3> QED  BY <2>1, <3>1, <3>2, <3>4
  <2>5. i.status = "open" /\ Shrinks(st.streams[i.stream], cutoff) => i.stream \in Expirer(i)
    BY <2>1, <2>2, <2>3 DEF Lapses, Expirer, Living
  <2> HIDE DEF cutoff
  <2>6. CASE Expirer(i) = {}
    BY <2>5, <2>6 DEF AgedIn, Aged
  <2>7. CASE Expirer(i) # {}
    <3>1. (CHOOSE x \in Expirer(i) : TRUE) = i.stream
      BY <2>4, <2>7
    <3>2. i.status = "open" /\ Shrinks(st.streams[i.stream], cutoff)
      BY <2>4, <2>7
    <3> QED  BY <2>7, <3>1, <3>2 DEF AgedIn, Aged
  <2> QED  BY <2>6, <2>7
<1> HIDE DEF Aged
<1> QED  BY <1>1, <1>2 DEF kept

(* What ageing leaves of an incident.                                      *)
LEMMA AgedParts ==
  ASSUME NEW st, GoodEngine(st), NEW now \in Int,
         NEW i \in st.incidents, i.opened > now - RETENTION,
         NEW j, j = AgedIn(st, now - RETENTION, i)
  PROVE  /\ j \in IncidentRecord
         /\ j.id = i.id /\ j.stream = i.stream /\ j.opened = i.opened /\ j.signals = i.signals
         /\ \/ j = i
            \/ /\ i.status = "open" /\ j.status = "expired"
               /\ Shrinks(st.streams[i.stream], now - RETENTION)
               /\ j.resolved = st.streams[i.stream].baseline[1].ts + RETENTION
         /\ j.status = "open" => j = i /\ ~Shrinks(st.streams[i.stream], now - RETENTION)
<1>1. i \in IncidentRecord /\ IsEngine(st) /\ now - RETENTION \in Int /\ RETENTION \in Nat
  BY EngineParts, SizesAssumption DEF GoodEngine
<1>2. CASE i.status = "open" /\ Shrinks(st.streams[i.stream], now - RETENTION)
  <2>1. i.stream \in DOMAIN st.streams
    BY <1>2 DEF GoodEngine, OpenIsActive
  <2>2. st.streams[i.stream].baseline[1].ts + RETENTION \in Int
    <3>1. st.streams[i.stream] \in StreamRecord
      BY <1>1, <2>1, EngineParts
    <3>2. st.streams[i.stream].baseline[1] \in SampleRecord
      BY <1>1, <1>2, <3>1, ShrinksFirst
    <3> QED  BY <1>1, <3>2 DEF SampleRecord
  <2>3. j = Resolve(i, "expired", st.streams[i.stream].baseline[1].ts + RETENTION)
    BY <1>2 DEF AgedIn
  <2> QED  BY <1>1, <1>2, <2>2, <2>3 DEF Resolve, IncidentRecord
<1>3. CASE ~ (i.status = "open" /\ Shrinks(st.streams[i.stream], now - RETENTION))
  BY <1>1, <1>3 DEF AgedIn
<1> QED  BY <1>2, <1>3

(* What pruning keeps of a stream an open incident is active in: all of    *)
(* its baseline, and what is still fresh of its current window.            *)
LEMMA KeptWindows ==
  ASSUME NEW st, GoodEngine(st), Windowed(st), NEW now \in Int,
         NEW i \in Prune(st, now).incidents, i.status = "open"
  PROVE  /\ i \in st.incidents /\ i.stream \in DOMAIN st.streams
         /\ i.stream \in DOMAIN Prune(st, now).streams
         /\ Prune(st, now).streams[i.stream].baseline = st.streams[i.stream].baseline
         /\ Prune(st, now).streams[i.stream].current
              = Fresh(st.streams[i.stream].current, now - RETENTION)
<1> DEFINE s    == st.streams[i.stream]
           kept == Young(st, now)
           t    == PruneStream(s, kept, now - RETENTION)
<1>1. /\ IsEngine(st) /\ kept \in SUBSET IncidentRecord /\ now - RETENTION \in Int
  BY EngineParts, SizesAssumption DEF GoodEngine, Young
<1>9. /\ Prune(st, now).streams
            = [x \in Living(st, now) |-> PruneStream(st.streams[x], kept, now - RETENTION)]
      /\ Prune(st, now).incidents = {AgedIn(st, now - RETENTION, k) : k \in kept}
  BY PruneShape
<1>2. PICK k \in kept : i = AgedIn(st, now - RETENTION, k)
  BY <1>9
<1>3. k \in st.incidents /\ k.opened > now - RETENTION
  BY DEF Young
<1>4. i = k /\ ~Shrinks(s, now - RETENTION)
  BY <1>2, <1>3, AgedParts
<1>5. i.stream \in Living(st, now)
  BY <1>4, KeptOwner DEF Living
<1>6. i.stream \in DOMAIN st.streams /\ Prune(st, now).streams[i.stream] = t
  BY <1>5, <1>9 DEF Living
<1>7. s \in StreamRecord /\ Len(s.baseline) \in {0, WINDOW}
  BY <1>1, <1>6, EngineParts DEF Windowed, InWindow
<1>8. t.baseline = s.baseline /\ t.current = Fresh(s.current, now - RETENTION)
  <2>1. t.baseline = s.baseline
    BY <1>1, <1>4, <1>7, PruneBaseline
  <2>2. t.current = Fresh(s.current, now - RETENTION)
    BY <1>4, <1>7 DEF PruneStream, TrimVersions, StreamRecord
  <2> QED  BY <2>1, <2>2
<1>10. DOMAIN Prune(st, now).streams = Living(st, now)
  BY <1>9
<1> QED  BY <1>3, <1>4, <1>5, <1>6, <1>8, <1>10

(* Evaluate and Graduate together, by cases: the stream is left alone, an  *)
(* incident opens, the active one gathers evidence, or it is resolved.     *)
Gathered(i, p) == [i EXCEPT !.signals = @ \cup Signals(p)]

Over(p) == [p EXCEPT !.active = None, !.baseline = LastN(p.current, WINDOW),
                     !.current = << >>]

Active(st, e, p, i) ==
  /\ p.active # None /\ e.stream \in DOMAIN st.streams
  /\ p.active = st.streams[e.stream].active
  /\ i \in st.incidents /\ i.id = p.active /\ i.status = "open" /\ i.stream = e.stream
  /\ i.opened <= e.ts

(* An event leaves the other streams alone.                                *)
LEMMA AcceptOthers ==
  ASSUME NEW st, IsEngine(st), NEW e \in Events
  PROVE  /\ DOMAIN Accept(st, e).streams = DOMAIN st.streams \cup {e.stream}
         /\ \A x \in DOMAIN st.streams :
              x # e.stream => Accept(st, e).streams[x] = st.streams[x]
         /\ LET seen == Evaluate(st, e, Push(StreamFor(st, e), e))
            IN /\ Accept(st, e).streams[e.stream] = Graduate(seen.stream)
               /\ Accept(st, e).incidents = seen.incidents
<1> DEFINE seen == Evaluate(st, e, Push(StreamFor(st, e), e))
           g    == Graduate(seen.stream)
<1>1. Accept(st, e) = Replaced(st, e, g, seen.incidents)
  BY AcceptShape
<1> HIDE DEF g, seen
<1>2. /\ DOMAIN Accept(st, e).streams = DOMAIN st.streams \cup {e.stream}
      /\ \A x \in DOMAIN st.streams :
           x # e.stream => Accept(st, e).streams[x] = st.streams[x]
      /\ Accept(st, e).streams[e.stream] = g /\ Accept(st, e).incidents = seen.incidents
  BY <1>1 DEF Replaced
<1> QED  BY <1>2 DEF g, seen

(* What it leaves of its own and of the incident list.                     *)
LEMMA AcceptCases ==
  ASSUME NEW st, GoodEngine(st), NEW e \in Events, Admissible(st, e),
         NEW p, p = Push(StreamFor(st, e), e),
         NEW next, next = Accept(st, e)
  PROVE  \/ /\ p.active = None /\ Signals(p) = {}
            /\ next.incidents = st.incidents /\ next.streams[e.stream] = Graduate(p)
         \/ /\ p.active = None /\ Signals(p) # {}
            /\ next.incidents = MakeRoom(st.incidents)
                                  \cup {OpenIncident(st, e, Signals(p))}
            /\ next.streams[e.stream] = [p EXCEPT !.active = <<e.stream, e.id>>]
         \/ \E i : /\ Active(st, e, p, i)
                   /\ ~ (Recovered(p, Gathered(i, p)) /\ Signals(p) = {})
                   /\ next.incidents = (st.incidents \ {i}) \cup {Gathered(i, p)}
                   /\ next.streams[e.stream] = p
         \/ \E i : /\ Active(st, e, p, i)
                   /\ next.incidents = (st.incidents \ {i})
                               \cup {Resolve(Gathered(i, p), "resolved", e.ts)}
                   /\ next.streams[e.stream] = Over(p)
                   /\ Signals(p) = {} /\ Recovered(p, Gathered(i, p))
<1> DEFINE seen   == Evaluate(st, e, p)
           g      == Graduate(seen.stream)
           found  == OpenIncident(st, e, Signals(p))
           before == IncidentOf(st.incidents, p)
<1>1. IsEngine(st) /\ p \in StreamRecord /\ p.last = e.ts
  BY ActiveFound, StreamForType, PushType
<1>3. next.streams[e.stream] = g /\ next.incidents = seen.incidents
  BY <1>1, AcceptOthers
<1>4. CASE p.active = None /\ Signals(p) = {}
  <2>1. seen = [incidents |-> st.incidents, stream |-> p]
    BY <1>4 DEF Evaluate, Detect
  <2> QED  BY <1>3, <1>4, <2>1
<1>5. CASE p.active = None /\ Signals(p) # {}
  <2>1. seen = [incidents |-> MakeRoom(st.incidents) \cup {found},
                stream    |-> [p EXCEPT !.active = <<e.stream, e.id>>]]
    BY <1>5 DEF Evaluate, Detect, OpenIncident
  <2>2. <<e.stream, e.id>> # None
    BY EventParts, IdNotNone DEF IncidentIds
  <2>3. g = [p EXCEPT !.active = <<e.stream, e.id>>]
    BY <1>1, <2>1, <2>2 DEF Graduate, StreamRecord
  <2> QED  BY <1>3, <1>5, <2>1, <2>3
<1>6. CASE p.active # None
  <2>1. Active(st, e, p, before)
    <3>1. /\ e.stream \in DOMAIN st.streams /\ before \in st.incidents
          /\ before.status = "open" /\ before.stream = e.stream
          /\ p.active = st.streams[e.stream].active
      BY <1>6, ActiveFound
    <3>2. before.id = p.active
      BY <3>1 DEF GoodEngine, OpenIsActive
    <3>3. before.opened <= st.streams[e.stream].last
      BY <3>1 DEF GoodEngine, OpenedByLast
    <3>4. st.streams[e.stream].last <= e.ts
      BY <1>1, <3>1, StreamForType DEF Admissible
    <3>5. before.opened \in Nat /\ st.streams[e.stream].last \in Nat /\ e.ts \in Nat
      BY <1>1, <3>1, EngineParts, EventParts DEF IncidentRecord, StreamRecord
    <3> HIDE DEF before
    <3> QED  BY <1>6, <3>1, <3>2, <3>3, <3>4, <3>5 DEF Active
  <2>2. CASE Recovered(p, Gathered(before, p)) /\ Signals(p) = {}
    <3>1. seen = [incidents |-> (st.incidents \ {before})
                                  \cup {Resolve(Gathered(before, p), "resolved", e.ts)},
                  stream    |-> Over(p)]
      BY <1>6, <2>2 DEF Evaluate, Follow, Gathered, Over
    <3>2. Over(p).current = << >> /\ WINDOW # 0 /\ Len(<< >>) = 0
      BY <1>1, SizesAssumption DEF Over, StreamRecord
    <3>3. g = Over(p)
      BY <3>1, <3>2 DEF Graduate
    <3> QED  BY <1>3, <2>1, <2>2, <3>1, <3>3
  <2>3. CASE ~ (Recovered(p, Gathered(before, p)) /\ Signals(p) = {})
    <3>1. seen = [incidents |-> (st.incidents \ {before}) \cup {Gathered(before, p)},
                  stream    |-> p]
      BY <1>6, <2>3 DEF Evaluate, Follow, Gathered
    <3>2. g = p
      BY <1>6, <3>1 DEF Graduate
    <3> QED  BY <1>3, <2>1, <2>3, <3>1, <3>2
  <2> QED  BY <2>2, <2>3
<1> QED  BY <1>4, <1>5, <1>6

(***************************************************************************)
(* Onset and resolution.  An open incident opens less than RETENTION +     *)
(* FUTURE after the first sample of its baseline, so that the lapse of     *)
(* that sample is no earlier stamp than the clock skew allows.             *)
(***************************************************************************)
Lasting(st) ==
  \A i \in st.incidents :
    /\ i.status = "resolved" => i.resolved >= i.opened
    /\ i.status = "expired"  => i.resolved + FUTURE > i.opened
    /\ i.status = "open" => LET rows == st.streams[i.stream].baseline
                            IN rows # << >> => i.opened < rows[1].ts + RETENTION + FUTURE

(* Every sample in a window is still within the retention period.          *)
Recent(st, now) ==
  \A x \in DOMAIN st.streams :
    \A r \in Held(st.streams[x].baseline) \cup Held(st.streams[x].current) :
      r.ts > now - RETENTION

(* What a pruned state holds is recent, and ageing stamps within the skew. *)
LEMMA PruneLasting ==
  ASSUME NEW st, GoodEngine(st), Windowed(st), Lasting(st), NEW now \in Int
  PROVE  Lasting(Prune(st, now)) /\ Recent(Prune(st, now), now)
<1> DEFINE kept   == Young(st, now)
           pruned == Prune(st, now)
<1>1. /\ pruned.streams
           = [x \in Living(st, now) |-> PruneStream(st.streams[x], kept, now - RETENTION)]
      /\ pruned.incidents = {AgedIn(st, now - RETENTION, i) : i \in kept}
  BY PruneShape
<1>2. /\ IsEngine(st) /\ kept \in SUBSET IncidentRecord /\ now - RETENTION \in Int
      /\ RETENTION \in Nat /\ FUTURE \in Nat
  BY EngineParts, SizesAssumption DEF GoodEngine, Young
<1>3. Recent(pruned, now)
  <2> SUFFICES ASSUME NEW x \in Living(st, now)
               PROVE  LET t == PruneStream(st.streams[x], kept, now - RETENTION)
                      IN \A r \in Held(t.baseline) \cup Held(t.current) :
                           r.ts > now - RETENTION
    BY <1>1 DEF Recent
  <2>1. /\ st.streams[x] \in StreamRecord /\ st.streams[x].last > now - RETENTION
        /\ InWindow(st.streams[x]) /\ Latest(st.streams[x])
    BY <1>2, EngineParts DEF Living, Windowed
  <2> HIDE DEF kept
  <2> QED  BY <1>2, <2>1, PruneInWindow
<1>4. ASSUME NEW j \in pruned.incidents
      PROVE  /\ j.status = "resolved" => j.resolved >= j.opened
             /\ j.status = "expired"  => j.resolved + FUTURE > j.opened
             /\ j.status = "open" => LET rows == pruned.streams[j.stream].baseline
                                     IN rows # << >> => j.opened < rows[1].ts + RETENTION + FUTURE
  <2>1. PICK i \in kept : j = AgedIn(st, now - RETENTION, i)
    BY <1>1
  <2>2. i \in st.incidents /\ i.opened > now - RETENTION
    BY DEF Young
  <2>3. /\ j.opened = i.opened
        /\ \/ j = i
           \/ /\ i.status = "open" /\ j.status = "expired"
              /\ Shrinks(st.streams[i.stream], now - RETENTION)
              /\ j.resolved = st.streams[i.stream].baseline[1].ts + RETENTION
    BY <2>1, <2>2, AgedParts
  <2>4. CASE j = i
    <3>1. j.status = "open" => pruned.streams[j.stream].baseline = st.streams[j.stream].baseline
      BY KeptWindows
    <3> HIDE DEF pruned
    <3> QED  BY <2>2, <2>4, <3>1 DEF Lasting
  <2>5. CASE /\ i.status = "open" /\ j.status = "expired"
             /\ Shrinks(st.streams[i.stream], now - RETENTION)
             /\ j.resolved = st.streams[i.stream].baseline[1].ts + RETENTION
    <3>1. st.streams[i.stream] \in StreamRecord
      BY <1>2, <2>2, <2>5, EngineParts DEF GoodEngine, OpenIsActive
    <3>2. /\ st.streams[i.stream].baseline # << >>
          /\ st.streams[i.stream].baseline[1] \in SampleRecord
      BY <1>2, <2>5, <3>1, ShrinksFirst
    <3>3. i.opened < st.streams[i.stream].baseline[1].ts + RETENTION + FUTURE
      BY <2>2, <2>5, <3>2 DEF Lasting
    <3>4. i.opened \in Nat /\ st.streams[i.stream].baseline[1].ts \in Nat
      BY <1>2, <2>2, <3>2, EngineParts DEF IncidentRecord, SampleRecord
    <3> QED  BY <1>2, <2>3, <2>5, <3>3, <3>4
  <2> QED  BY <2>3, <2>4, <2>5
<1> HIDE DEF pruned
<1> QED  BY <1>3, <1>4 DEF Lasting, pruned

(* The windows an event leaves hold nothing that was not there but its own *)
(* sample.                                                                 *)
LEMMA AcceptHeld ==
  ASSUME NEW st, GoodEngine(st), Windowed(st), NEW e \in Events, Admissible(st, e),
         NEW p, p = Push(StreamFor(st, e), e),
         NEW g, g = Accept(st, e).streams[e.stream]
  PROVE  /\ Held(g.baseline) \cup Held(g.current) \subseteq Held(p.baseline) \cup Held(p.current)
         /\ \A r \in Held(p.baseline) \cup Held(p.current) :
              \/ r = Sample(e)
              \/ /\ e.stream \in DOMAIN st.streams
                 /\ r \in Held(st.streams[e.stream].baseline)
                            \cup Held(st.streams[e.stream].current)
<1> DEFINE s == StreamFor(st, e)
<1>1. IsEngine(st) /\ p \in StreamRecord /\ s \in StreamRecord /\ InWindow(s) /\ WINDOW \in Nat
  BY ActiveFound, StreamForType, StreamForInWindow, SizesAssumption
<1>2. InWindow(p) /\ \A r \in Held(p.baseline) \cup Held(p.current) :
        r \in Held(s.baseline) \cup Held(s.current) \/ r = Sample(e)
  BY <1>1, PushInWindow DEF Admissible
<1>3. /\ e.stream \in DOMAIN st.streams =>
           /\ s.baseline = st.streams[e.stream].baseline
           /\ s.current = st.streams[e.stream].current
      /\ e.stream \notin DOMAIN st.streams => s.baseline = << >> /\ s.current = << >>
  <2>1. /\ NewStream(e) \in StreamRecord
        /\ NewStream(e).baseline = << >> /\ NewStream(e).current = << >>
    BY EventParts, EmptySeq DEF NewStream, StreamRecord
  <2>2. e.stream \in DOMAIN st.streams => st.streams[e.stream] \in StreamRecord
    BY <1>1, EngineParts
  <2> QED  BY <2>1, <2>2, TrimType DEF StreamFor
<1>4. Held(<< >>) = {}
  BY HeldTyped
<1> HIDE DEF s
<1>5. Held(g.baseline) \cup Held(g.current) \subseteq Held(p.baseline) \cup Held(p.current)
  <2>1. Len(p.current) \in Nat /\ Len(p.current) <= WINDOW
    BY <1>1, <1>2, HeldTyped DEF InWindow, StreamRecord, Rows
  <2>2. LastN(p.current, WINDOW) = p.current
    BY <2>1 DEF LastN
  <2>3. g = Graduate(Evaluate(st, e, p).stream)
    BY <1>1, AcceptOthers
  <2>4. \/ g.baseline = p.baseline /\ g.current = p.current
        \/ g.baseline = p.current /\ g.current = << >>
        \/ g.baseline = LastN(p.current, WINDOW) /\ g.current = << >>
    BY <2>3, AcceptStream
  <2> QED  BY <1>4, <2>2, <2>4
<1> QED  BY <1>2, <1>3, <1>4, <1>5

(* A timely event keeps the samples recent; an incident it opens is within *)
(* the skew of its baseline and one it resolves is resolved after it       *)
(* opened.                                                                 *)
LEMMA AcceptLasting ==
  ASSUME NEW st, GoodEngine(st), Windowed(st), Lasting(st), StampedOnce, NEW now \in Int,
         Recent(st, now), NEW e \in Events, Admissible(st, e), Timely(e, now)
  PROVE  Lasting(Accept(st, e)) /\ Recent(Accept(st, e), now)
<1> DEFINE next == Accept(st, e)
           p    == Push(StreamFor(st, e), e)
           g    == next.streams[e.stream]
<1>1. /\ IsEngine(st) /\ p \in StreamRecord /\ GoodEngine(next)
      /\ RETENTION \in Nat /\ FUTURE \in Nat /\ e.ts \in Nat
      /\ now - RETENTION < e.ts /\ e.ts <= now + FUTURE /\ Sample(e).ts = e.ts
  BY ActiveFound, AcceptGood, SizesAssumption, EventParts DEF Timely, Sample
<1>2. \A r \in Held(p.baseline) \cup Held(p.current) : r.ts > now - RETENTION
  <2>1. \A r \in Held(p.baseline) \cup Held(p.current) :
          \/ r = Sample(e)
          \/ /\ e.stream \in DOMAIN st.streams
             /\ r \in Held(st.streams[e.stream].baseline)
                        \cup Held(st.streams[e.stream].current)
    <3>1. PICK q, h : q = Push(StreamFor(st, e), e) /\ h = Accept(st, e).streams[e.stream]
      OBVIOUS
    <3>2. \A r \in Held(q.baseline) \cup Held(q.current) :
            \/ r = Sample(e)
            \/ /\ e.stream \in DOMAIN st.streams
               /\ r \in Held(st.streams[e.stream].baseline)
                          \cup Held(st.streams[e.stream].current)
      BY <3>1, AcceptHeld
    <3> QED  BY <3>1, <3>2
  <2>2. Sample(e).ts > now - RETENTION
    BY <1>1
  <2>3. \A x \in DOMAIN st.streams :
          \A r \in Held(st.streams[x].baseline) \cup Held(st.streams[x].current) :
            r.ts > now - RETENTION
    BY DEF Recent
  <2> QED  BY <2>1, <2>2, <2>3
<1>3. /\ DOMAIN next.streams = DOMAIN st.streams \cup {e.stream}
      /\ \A x \in DOMAIN st.streams : x # e.stream => next.streams[x] = st.streams[x]
  BY <1>1, AcceptOthers
<1>4. Recent(next, now)
  <2>1. Held(g.baseline) \cup Held(g.current) \subseteq Held(p.baseline) \cup Held(p.current)
    BY AcceptHeld
  <2>2. \A r \in Held(g.baseline) \cup Held(g.current) : r.ts > now - RETENTION
    BY <1>2, <2>1
  <2> HIDE DEF next, p
  <2> QED  BY <1>3, <2>2 DEF Recent
<1>5. ASSUME NEW j \in next.incidents
      PROVE  /\ j.status = "resolved" => j.resolved >= j.opened
             /\ j.status = "expired"  => j.resolved + FUTURE > j.opened
             /\ j.status = "open" => LET rows == next.streams[j.stream].baseline
                                     IN rows # << >> => j.opened < rows[1].ts + RETENTION + FUTURE
  <2>1. next.incidents \subseteq IncidentRecord /\ st.incidents \subseteq IncidentRecord
    BY <1>1, EngineParts DEF GoodEngine
(* An incident the event does not touch.                                   *)
  <2>2. CASE j \in st.incidents /\ ~ (j.status = "open" /\ j.stream = e.stream)
    <3>1. j.status = "open" => j.stream \in DOMAIN st.streams
      BY <2>2 DEF GoodEngine, OpenIsActive
    <3>2. j.status = "open" => next.streams[j.stream] = st.streams[j.stream]
      BY <1>3, <2>2, <3>1
    <3> HIDE DEF next
    <3> QED  BY <2>2, <3>2 DEF Lasting
(* The one it opens: the first sample of its baseline is recent.           *)
  <2>3. CASE /\ j = OpenIncident(st, e, Signals(p))
             /\ next.streams[e.stream] = [p EXCEPT !.active = <<e.stream, e.id>>]
    <3>1. j.status = "open" /\ j.opened = e.ts /\ j.stream = e.stream
      BY <2>3 DEF OpenIncident
    <3>2. next.streams[e.stream].baseline = p.baseline /\ p.baseline \in Rows
      BY <1>1, <2>3 DEF StreamRecord, Rows
    <3> HIDE DEF next, p
    <3>3. p.baseline # << >> => p.baseline[1].ts > now - RETENTION /\ p.baseline[1].ts \in Nat
      <4>1. p.baseline # << >> => p.baseline[1] \in Held(p.baseline) /\ p.baseline[1] \in SampleRecord
        BY <3>2, HeldTyped
      <4> QED  BY <1>2, <4>1 DEF SampleRecord
    <3>4. p.baseline # << >> => e.ts < p.baseline[1].ts + RETENTION + FUTURE
      BY <1>1, <3>3
    <3> QED  BY <3>1, <3>2, <3>4
(* The one that gathers evidence: its baseline is the frozen one.          *)
  <2>4. ASSUME NEW i, Active(st, e, p, i), j = Gathered(i, p), next.streams[e.stream] = p
        PROVE  j.status = "open" /\ p.baseline = st.streams[e.stream].baseline
               /\ j.opened = i.opened /\ j.stream = e.stream /\ i \in st.incidents
               /\ i.status = "open" /\ i.stream = e.stream
    <3>1. i \in IncidentRecord /\ i \in st.incidents /\ i.status = "open" /\ i.stream = e.stream
      BY <2>1, <2>4 DEF Active
    <3>2. StreamFor(st, e).active # None
      BY <1>1, <2>4, StreamForType DEF Active
    <3>3. e.stream \in DOMAIN st.streams
      BY <2>4 DEF Active
    <3>4. StreamFor(st, e).baseline = st.streams[e.stream].baseline /\ StreamFor(st, e) \in StreamRecord
      BY <1>1, <3>3, StreamForBaseline, StreamForType
    <3>5. Len(StreamFor(st, e).baseline) \in {0, WINDOW}
      BY <3>3, <3>4 DEF Windowed, InWindow
    <3>6. p.baseline = st.streams[e.stream].baseline
      BY <3>2, <3>4, <3>5, PushBaseline
    <3> QED  BY <2>4, <3>1, <3>6 DEF Gathered, IncidentRecord
  <2>5. ASSUME NEW i, Active(st, e, p, i), j = Resolve(Gathered(i, p), "resolved", e.ts)
        PROVE  j.status = "resolved" /\ j.resolved = e.ts /\ j.opened = i.opened /\ i.opened <= e.ts
    <3>1. i \in IncidentRecord
      BY <2>1, <2>5 DEF Active
    <3> QED  BY <2>5, <3>1 DEF Gathered, Resolve, IncidentRecord, Active
  <2>6. \/ j \in st.incidents /\ ~ (j.status = "open" /\ j.stream = e.stream)
        \/ /\ j = OpenIncident(st, e, Signals(p))
           /\ next.streams[e.stream] = [p EXCEPT !.active = <<e.stream, e.id>>]
        \/ \E i : Active(st, e, p, i) /\ j = Gathered(i, p) /\ next.streams[e.stream] = p
        \/ \E i : Active(st, e, p, i) /\ j = Resolve(Gathered(i, p), "resolved", e.ts)
    <3>1. p.active = None => \A i \in st.incidents : i.status = "open" => i.stream # e.stream
      BY ActiveFound
    <3>2. ASSUME NEW i, Active(st, e, p, i)
          PROVE  \A k \in st.incidents : k.status = "open" /\ k.stream = e.stream => k = i
      <4>1. \A k \in st.incidents : k.status = "open" /\ k.stream = e.stream => k.id = p.active
        BY <3>2 DEF GoodEngine, OpenIsActive, Active
      <4> QED  BY <3>2, <4>1 DEF GoodEngine, IdsUnique, Active
    <3>3. MakeRoom(st.incidents) \subseteq st.incidents
      BY <2>1, MakeRoomKeepsOpen
    <3>4. \/ p.active = None /\ next.incidents = st.incidents
          \/ /\ p.active = None
             /\ next.incidents = MakeRoom(st.incidents) \cup {OpenIncident(st, e, Signals(p))}
             /\ next.streams[e.stream] = [p EXCEPT !.active = <<e.stream, e.id>>]
          \/ \E i : /\ Active(st, e, p, i) /\ next.streams[e.stream] = p
                    /\ next.incidents = (st.incidents \ {i}) \cup {Gathered(i, p)}
          \/ \E i : /\ Active(st, e, p, i)
                    /\ next.incidents = (st.incidents \ {i})
                                \cup {Resolve(Gathered(i, p), "resolved", e.ts)}
      BY AcceptCases
    <3> HIDE DEF next, p
    <3>5. CASE p.active = None /\ next.incidents = st.incidents
      BY <3>1, <3>5
    <3>6. CASE /\ p.active = None
               /\ next.incidents = MakeRoom(st.incidents) \cup {OpenIncident(st, e, Signals(p))}
               /\ next.streams[e.stream] = [p EXCEPT !.active = <<e.stream, e.id>>]
      BY <3>1, <3>3, <3>6
    <3>7. ASSUME NEW i, Active(st, e, p, i), next.streams[e.stream] = p,
                 next.incidents = (st.incidents \ {i}) \cup {Gathered(i, p)},
                 j # Gathered(i, p)
          PROVE  j \in st.incidents /\ ~ (j.status = "open" /\ j.stream = e.stream)
      BY <3>2, <3>7
    <3>8. ASSUME NEW i, Active(st, e, p, i),
                 next.incidents = (st.incidents \ {i})
                                \cup {Resolve(Gathered(i, p), "resolved", e.ts)},
                 j # Resolve(Gathered(i, p), "resolved", e.ts)
          PROVE  j \in st.incidents /\ ~ (j.status = "open" /\ j.stream = e.stream)
      BY <3>2, <3>8
    <3> QED  BY <3>4, <3>5, <3>6, <3>7, <3>8
  <2> HIDE DEF next, p
  <2>7. CASE \E i : Active(st, e, p, i) /\ j = Gathered(i, p) /\ next.streams[e.stream] = p
    BY <2>4, <2>7 DEF Lasting
  <2>8. CASE \E i : Active(st, e, p, i) /\ j = Resolve(Gathered(i, p), "resolved", e.ts)
    BY <2>5, <2>8
  <2> QED  BY <2>2, <2>3, <2>6, <2>7, <2>8
<1> HIDE DEF next
<1> QED  BY <1>4, <1>5 DEF Lasting, next

(***************************************************************************)
(* Recovery.  Whether an incident has recovered is a matter of the two     *)
(* windows, and every change of a window under an incident is judged.      *)
(***************************************************************************)

Stuck(s, i) == Recovered(s, i) /\ Signals(s) = {}

Unstuck(st) ==
  \A i \in st.incidents : i.status = "open" => ~ Stuck(st.streams[i.stream], i)

(* Equal windows show the same.                                            *)
LEMMA SameWindows ==
  ASSUME NEW s, NEW t, s.baseline = t.baseline, s.current = t.current, NEW i
  PROVE  Signals(s) = Signals(t) /\ (Stuck(s, i) <=> Stuck(t, i))
<1>1. \A kind : Fires(s, kind) <=> Fires(t, kind)
  BY DEF Fires, Full
<1>2. Signals(s) = Signals(t)
  BY <1>1 DEF Signals
<1>3. \A kind : KindRecovered(s, kind) <=> KindRecovered(t, kind)
  BY DEF KindRecovered
<1>4. Recovered(s, i) <=> Recovered(t, i)
  BY <1>3 DEF Recovered
<1> QED  BY <1>2, <1>4 DEF Stuck

(* A current window that loses a sample is no longer full.                 *)
LEMMA PruneUnstuck ==
  ASSUME NEW st, GoodEngine(st), Windowed(st), Unstuck(st), NEW now \in Int
  PROVE  Unstuck(Prune(st, now))
<1> SUFFICES ASSUME NEW i \in Prune(st, now).incidents, i.status = "open"
             PROVE  ~ Stuck(Prune(st, now).streams[i.stream], i)
  BY DEF Unstuck
<1> DEFINE s == st.streams[i.stream]
           t == Prune(st, now).streams[i.stream]
<1>1. /\ i \in st.incidents /\ i.stream \in DOMAIN st.streams
      /\ t.baseline = s.baseline /\ t.current = Fresh(s.current, now - RETENTION)
  BY KeptWindows
<1>2. /\ s \in StreamRecord /\ Len(s.current) <= WINDOW /\ s.current \in Rows
      /\ WINDOW \in Nat /\ now - RETENTION \in Int
  BY <1>1, EngineParts, SizesAssumption
     DEF GoodEngine, Windowed, InWindow, StreamRecord, Rows
<1>3. ~ Stuck(s, i)
  BY <1>1 DEF Unstuck
<1> HIDE DEF s, t
<1>4. CASE Len(Fresh(s.current, now - RETENTION)) < Len(s.current)
  <2>1. Len(s.current) \in Nat /\ Len(t.current) \in Nat
    BY <1>1, <1>2, HeldTyped, FreshType
  <2> QED  BY <1>1, <1>2, <1>4, <2>1 DEF Stuck, Recovered, t
<1>5. CASE ~ (Len(Fresh(s.current, now - RETENTION)) < Len(s.current))
  <2>1. t.current = s.current
    BY <1>1, <1>2, <1>5, FreshWhole
  <2> QED  BY <1>1, <1>3, <2>1, SameWindows DEF t
<1> QED  BY <1>4, <1>5

(* An event is judged at once: the incident of its stream stays open only  *)
(* if something fires or has not recovered.                                *)
LEMMA AcceptUnstuck ==
  ASSUME NEW st, GoodEngine(st), Unstuck(st), StampedOnce, NEW e \in Events, Admissible(st, e)
  PROVE  Unstuck(Accept(st, e))
<1> DEFINE next == Accept(st, e)
           p    == Push(StreamFor(st, e), e)
<1>1. IsEngine(st) /\ p \in StreamRecord /\ GoodEngine(next)
  BY ActiveFound, AcceptGood
<1>2. \A x \in DOMAIN st.streams : x # e.stream => next.streams[x] = st.streams[x]
  BY <1>1, AcceptOthers
<1>3. \/ /\ p.active = None /\ next.incidents = st.incidents
      \/ /\ p.active = None /\ Signals(p) # {}
         /\ next.incidents = MakeRoom(st.incidents) \cup {OpenIncident(st, e, Signals(p))}
         /\ next.streams[e.stream] = [p EXCEPT !.active = <<e.stream, e.id>>]
      \/ \E i : /\ Active(st, e, p, i)
                /\ ~ (Recovered(p, Gathered(i, p)) /\ Signals(p) = {})
                /\ next.incidents = (st.incidents \ {i}) \cup {Gathered(i, p)}
                /\ next.streams[e.stream] = p
      \/ \E i : /\ Active(st, e, p, i)
                /\ next.incidents = (st.incidents \ {i})
                            \cup {Resolve(Gathered(i, p), "resolved", e.ts)}
  BY AcceptCases
<1>4. p.active = None => \A j \in st.incidents : j.status = "open" => j.stream # e.stream
  BY ActiveFound
<1>5. MakeRoom(st.incidents) \subseteq st.incidents /\ st.incidents \subseteq IncidentRecord
  BY <1>1, EngineParts, MakeRoomKeepsOpen
<1> HIDE DEF next, p
<1>6. \A j \in st.incidents : j.status = "open" => j.stream \in DOMAIN st.streams
  BY DEF GoodEngine, OpenIsActive
<1>7. \A i : Active(st, e, p, i) =>
        \A j \in st.incidents : j.status = "open" /\ j.stream = e.stream => j = i
  BY DEF GoodEngine, OpenIsActive, IdsUnique, Active
<1>8. \A j \in st.incidents : j.status = "open" /\ j.stream # e.stream =>
        ~ Stuck(next.streams[j.stream], j)
  BY <1>2, <1>6 DEF Unstuck
<1>9. p.active = None /\ next.incidents = st.incidents => Unstuck(next)
  BY <1>4, <1>8 DEF Unstuck
<1>10. ASSUME p.active = None, Signals(p) # {},
              next.incidents = MakeRoom(st.incidents) \cup {OpenIncident(st, e, Signals(p))},
              next.streams[e.stream] = [p EXCEPT !.active = <<e.stream, e.id>>]
       PROVE  Unstuck(next)
  <2> DEFINE found == OpenIncident(st, e, Signals(p))
  <2>1. found.stream = e.stream
    BY DEF OpenIncident
  <2>2. /\ next.streams[e.stream].baseline = p.baseline
        /\ next.streams[e.stream].current = p.current
    BY <1>1, <1>10 DEF StreamRecord
  <2>3. Signals(next.streams[e.stream]) # {}
    BY <1>10, <2>2, SameWindows
  <2>4. ~ Stuck(next.streams[found.stream], found)
    BY <2>1, <2>3 DEF Stuck
  <2> HIDE DEF found
  <2> QED  BY <1>4, <1>5, <1>8, <1>10, <2>4 DEF Unstuck, found
<1>11. ASSUME NEW i, Active(st, e, p, i),
              ~ (Recovered(p, Gathered(i, p)) /\ Signals(p) = {}),
              next.incidents = (st.incidents \ {i}) \cup {Gathered(i, p)},
              next.streams[e.stream] = p
       PROVE  Unstuck(next)
  <2>1. Gathered(i, p).stream = e.stream
    BY <1>5, <1>11 DEF Gathered, Active, IncidentRecord
  <2>2. ~ Stuck(next.streams[e.stream], Gathered(i, p))
    BY <1>11 DEF Stuck
  <2> QED  BY <1>7, <1>8, <1>11, <2>1, <2>2 DEF Unstuck
<1>12. ASSUME NEW i, Active(st, e, p, i),
              next.incidents = (st.incidents \ {i})
                          \cup {Resolve(Gathered(i, p), "resolved", e.ts)}
       PROVE  Unstuck(next)
  <2> DEFINE closed == Resolve(Gathered(i, p), "resolved", e.ts)
  <2>1. closed.status # "open"
    BY <1>5, <1>12 DEF Gathered, Resolve, Active, IncidentRecord
  <2> HIDE DEF closed
  <2>2. \A j \in next.incidents : j.status = "open" => j \in st.incidents /\ j.stream # e.stream
    BY <1>7, <1>12, <2>1 DEF closed
  <2> QED  BY <1>8, <2>2 DEF Unstuck
<1>13. Unstuck(next)
  BY <1>3, <1>9, <1>10, <1>11, <1>12
<1> QED  BY <1>13 DEF next

(***************************************************************************)
(* What a listed incident may become.                                      *)
(***************************************************************************)

(* i is still listed, as it opened and with the evidence it had.           *)
Survives(i, incidents) ==
  \E j \in incidents : i.id = j.id /\ i.opened = j.opened /\ i.signals \subseteq j.signals

(* Nothing else is listed under the name of i.                             *)
Sealed(i, incidents) == \A j \in incidents : j.id = i.id => j = i

LEMMA PrunePersists ==
  ASSUME NEW st, GoodEngine(st), NEW now \in Int, NEW i \in st.incidents
  PROVE  /\ i.opened > now - RETENTION => Survives(i, Prune(st, now).incidents)
         /\ i.status # "open" => Sealed(i, Prune(st, now).incidents)
<1> DEFINE aged(k) == AgedIn(st, now - RETENTION, k)
<1>1. Prune(st, now).incidents = {aged(k) : k \in Young(st, now)}
  BY PruneShape
<1>2. \A k \in Young(st, now) : k \in st.incidents /\ k.opened > now - RETENTION
  BY DEF Young
<1>3. ASSUME NEW k \in Young(st, now)
      PROVE  /\ aged(k).id = k.id /\ aged(k).opened = k.opened /\ aged(k).signals = k.signals
             /\ aged(k) = k \/ k.status = "open"
  BY <1>2, AgedParts
<1> HIDE DEF aged
<1>4. ASSUME i.opened > now - RETENTION  PROVE Survives(i, Prune(st, now).incidents)
  <2>1. i \in Young(st, now)
    BY <1>4 DEF Young
  <2> QED  BY <1>1, <1>3, <2>1 DEF Survives
<1>5. ASSUME i.status # "open", NEW j \in Prune(st, now).incidents, j.id = i.id
      PROVE  j = i
  <2>1. PICK k \in Young(st, now) : j = aged(k)
    BY <1>1
  <2>2. k = i
    BY <1>2, <1>3, <1>5, <2>1 DEF GoodEngine, IdsUnique
  <2> QED  BY <1>3, <1>5, <2>1, <2>2
<1> QED  BY <1>4, <1>5 DEF Sealed

(* An event that opens an incident has a name no listed one carries.       *)
LEMMA NameIsNew ==
  ASSUME NEW st, GoodEngine(st), StampedOnce, NEW e \in Events, Admissible(st, e),
         NEW i \in st.incidents
  PROVE  i.id # <<e.stream, e.id>>
<1>1. PICK d \in Events : /\ i.id = <<d.stream, d.id>>
                          /\ d \in st.dedup \/ d.ts <= st.floor
  BY DEF GoodEngine, OnsetsKnown
<1>2. SUFFICES ASSUME d.id = e.id  PROVE FALSE
  BY <1>1
<1>3. d.ts = e.ts /\ e.ts > st.floor /\ d \notin st.dedup
  BY <1>2 DEF StampedOnce, Admissible
<1>4. e.ts \in Nat /\ st.floor \in Nat
  BY EventParts, EngineParts DEF GoodEngine
<1> QED  BY <1>1, <1>3, <1>4

LEMMA AcceptPersists ==
  ASSUME NEW st, GoodEngine(st), StampedOnce, NEW e \in Events, Admissible(st, e),
         NEW i \in st.incidents
  PROVE  /\ i.status = "open" => Survives(i, Accept(st, e).incidents)
         /\ i.status # "open" => Sealed(i, Accept(st, e).incidents)
<1> DEFINE next == Accept(st, e)
           p    == Push(StreamFor(st, e), e)
<1>1. \/ next.incidents = st.incidents
      \/ next.incidents = MakeRoom(st.incidents) \cup {OpenIncident(st, e, Signals(p))}
      \/ \E k : /\ Active(st, e, p, k)
                /\ next.incidents = (st.incidents \ {k}) \cup {Gathered(k, p)}
      \/ \E k : /\ Active(st, e, p, k)
                /\ next.incidents = (st.incidents \ {k})
                            \cup {Resolve(Gathered(k, p), "resolved", e.ts)}
  <2>1. \/ /\ p.active = None /\ Signals(p) = {}
           /\ next.incidents = st.incidents /\ next.streams[e.stream] = Graduate(p)
        \/ /\ p.active = None /\ Signals(p) # {}
           /\ next.incidents = MakeRoom(st.incidents) \cup {OpenIncident(st, e, Signals(p))}
           /\ next.streams[e.stream] = [p EXCEPT !.active = <<e.stream, e.id>>]
        \/ \E k : /\ Active(st, e, p, k)
                  /\ ~ (Recovered(p, Gathered(k, p)) /\ Signals(p) = {})
                  /\ next.incidents = (st.incidents \ {k}) \cup {Gathered(k, p)}
                  /\ next.streams[e.stream] = p
        \/ \E k : /\ Active(st, e, p, k)
                  /\ next.incidents = (st.incidents \ {k})
                              \cup {Resolve(Gathered(k, p), "resolved", e.ts)}
                  /\ next.streams[e.stream] = Over(p)
                  /\ Signals(p) = {} /\ Recovered(p, Gathered(k, p))
    BY AcceptCases
  <2> HIDE DEF next, p
  <2> QED  BY <2>1
<1>2. /\ st.incidents \subseteq IncidentRecord
      /\ MakeRoom(st.incidents) \subseteq st.incidents
      /\ i.status = "open" => i \in MakeRoom(st.incidents)
      /\ \A j \in st.incidents : j.id = i.id => j = i
  BY EngineParts, MakeRoomKeepsOpen DEF GoodEngine, IdsUnique
<1>3. OpenIncident(st, e, Signals(p)).id # i.id
  BY NameIsNew DEF OpenIncident
<1> HIDE DEF next, p
<1>4. ASSUME next.incidents = st.incidents
      PROVE  /\ i.status = "open" => Survives(i, next.incidents)
             /\ i.status # "open" => Sealed(i, next.incidents)
  BY <1>2, <1>4 DEF Survives, Sealed
<1>5. ASSUME next.incidents = MakeRoom(st.incidents) \cup {OpenIncident(st, e, Signals(p))}
      PROVE  /\ i.status = "open" => Survives(i, next.incidents)
             /\ i.status # "open" => Sealed(i, next.incidents)
  BY <1>2, <1>3, <1>5 DEF Survives, Sealed
<1>6. ASSUME NEW k, Active(st, e, p, k), NEW j,
             j \in {Gathered(k, p), Resolve(Gathered(k, p), "resolved", e.ts)},
             next.incidents = (st.incidents \ {k}) \cup {j}
      PROVE  /\ i.status = "open" => Survives(i, next.incidents)
             /\ i.status # "open" => Sealed(i, next.incidents)
  <2>1. k \in st.incidents /\ k.status = "open"
    BY <1>6 DEF Active
  <2>2. j.id = k.id /\ j.opened = k.opened /\ k.signals \subseteq j.signals
    BY <1>2, <1>6, <2>1 DEF Gathered, Resolve, IncidentRecord
  <2>3. CASE i = k
    BY <1>6, <2>1, <2>2, <2>3 DEF Survives
  <2>4. CASE i # k
    BY <1>2, <1>6, <2>1, <2>2, <2>4 DEF Survives, Sealed
  <2> QED  BY <2>3, <2>4
<1>7. /\ i.status = "open" => Survives(i, next.incidents)
      /\ i.status # "open" => Sealed(i, next.incidents)
  BY <1>1, <1>4, <1>5, <1>6
<1> QED  BY <1>7 DEF next

(***************************************************************************)
(* The baseline under an incident.  was is the stream as the transaction   *)
(* found it.                                                               *)
(***************************************************************************)

Froze(was, st, x) ==
  x \in DOMAIN st.streams /\ st.streams[x].active = was.active =>
    st.streams[x].baseline = was.baseline

(* The event that opened was's incident cannot open another one.           *)
Spent(was, st, x, now) ==
  \E d \in Events : was.active = <<x, d.id>> /\ Barred(st, d, now)

LEMMA PruneFreezes ==
  ASSUME NEW st, GoodEngine(st), Windowed(st), NEW now \in Int,
         NEW x \in DOMAIN st.streams, st.streams[x].active # None
  PROVE  Froze(st.streams[x], Prune(st, now), x) /\ Spent(st.streams[x], Prune(st, now), x, now)
<1> DEFINE s    == st.streams[x]
           kept == Young(st, now)
           t    == PruneStream(s, kept, now - RETENTION)
<1>1. /\ IsEngine(st) /\ kept \in SUBSET IncidentRecord /\ now - RETENTION \in Int
      /\ s \in StreamRecord /\ Len(s.baseline) \in {0, WINDOW}
  BY EngineParts, SizesAssumption DEF GoodEngine, Young, Windowed, InWindow
<1>2. Prune(st, now).streams
        = [y \in Living(st, now) |-> PruneStream(st.streams[y], kept, now - RETENTION)]
  BY PruneShape
<1>3. Froze(s, Prune(st, now), x)
  <2> SUFFICES ASSUME x \in Living(st, now), t.active = s.active
               PROVE  t.baseline = s.baseline
    BY <1>2 DEF Froze
  <2> HIDE DEF s, kept
  <2>1. t.active = IF Lapses(s, kept, now - RETENTION) THEN None ELSE Linked(s, kept)
    BY <1>1, PruneStreamType, Zenon
  <2>2. ~Shrinks(s, now - RETENTION)
    <3>1. s.active # None
      BY DEF s
    <3> QED  BY <2>1, <3>1 DEF Lapses
  <2> QED  BY <1>1, <2>2, PruneBaseline
<1>4. Spent(s, Prune(st, now), x, now)
  <2>1. PICK i \in st.incidents : i.id = s.active /\ i.stream = x
    BY DEF GoodEngine, ActiveIsOpen
  <2>2. PICK d \in Events : /\ i.id = <<d.stream, d.id>> /\ i.stream = d.stream
                            /\ d \in st.dedup \/ d.ts <= st.floor
    BY DEF GoodEngine, OnsetsKnown
  <2>3. Barred(Prune(st, now), d, now)
    BY <1>1, <2>2, PruneBars DEF Barred
  <2> QED  BY <2>1, <2>2, <2>3 DEF Spent
<1> QED  BY <1>3, <1>4

LEMMA AcceptFreezes ==
  ASSUME NEW st, GoodEngine(st), Windowed(st), StampedOnce, NEW now \in Int,
         NEW e \in Events, Admissible(st, e), Timely(e, now),
         NEW was, NEW x, was.active # None, Froze(was, st, x), Spent(was, st, x, now)
  PROVE  Froze(was, Accept(st, e), x) /\ Spent(was, Accept(st, e), x, now)
<1> DEFINE next == Accept(st, e)
           p    == Push(StreamFor(st, e), e)
<1>1. /\ IsEngine(st) /\ p \in StreamRecord /\ RETENTION \in Nat
      /\ e.ts \in Nat /\ st.floor \in Nat
  BY ActiveFound, EventParts, EngineParts, SizesAssumption
<1>2. /\ DOMAIN next.streams = DOMAIN st.streams \cup {e.stream}
      /\ \A y \in DOMAIN st.streams : y # e.stream => next.streams[y] = st.streams[y]
  BY <1>1, AcceptOthers
<1>3. PICK d \in Events : was.active = <<x, d.id>> /\ Barred(st, d, now)
  BY DEF Spent
<1>4. Spent(was, next, x, now)
  BY <1>1, <1>3, AcceptBars DEF Spent
<1>5. d.id # e.id
  <2> SUFFICES ASSUME d.id = e.id  PROVE FALSE
    OBVIOUS
  <2>1. d.ts = e.ts /\ e.ts > st.floor /\ d \notin st.dedup /\ now - RETENTION < e.ts
    BY DEF StampedOnce, Admissible, Timely
  <2> QED  BY <1>1, <1>3, <2>1 DEF Barred
<1>6. ASSUME x = e.stream, next.streams[x].active = was.active
      PROVE  next.streams[x].baseline = was.baseline
  <2>1. \/ p.active = None /\ next.streams[e.stream] = Graduate(p)
        \/ next.streams[e.stream] = [p EXCEPT !.active = <<e.stream, e.id>>]
        \/ p.active # None /\ next.streams[e.stream] = p
        \/ next.streams[e.stream] = Over(p)
    BY AcceptCases DEF Active
  <2>2. Graduate(p).active = p.active
    BY <1>1, GraduateType
  <2>3. [p EXCEPT !.active = <<e.stream, e.id>>].active = <<e.stream, e.id>>
    BY <1>1 DEF StreamRecord
  <2>4. Over(p).active = None
    BY <1>1 DEF Over, StreamRecord
  <2>5. p.active # None /\ next.streams[e.stream] = p
    <3>1. <<e.stream, e.id>> # <<x, d.id>>
      BY <1>5
    <3> HIDE DEF next, p
    <3> QED  BY <1>3, <1>6, <2>1, <2>2, <2>3, <2>4, <3>1
  <2>6. /\ e.stream \in DOMAIN st.streams /\ p.active = st.streams[e.stream].active
        /\ StreamFor(st, e) \in StreamRecord
        /\ StreamFor(st, e).active = st.streams[e.stream].active
        /\ StreamFor(st, e).baseline = st.streams[e.stream].baseline
    BY <1>1, <2>5, ActiveFound, StreamForType, StreamForBaseline
  <2>7. Len(StreamFor(st, e).baseline) \in {0, WINDOW}
    BY <2>6 DEF Windowed, InWindow
  <2>8. p.baseline = st.streams[e.stream].baseline
    BY <2>5, <2>6, <2>7, PushBaseline
  <2> HIDE DEF next, p
  <2> QED  BY <1>6, <2>5, <2>6, <2>8 DEF Froze
<1>7. Froze(was, next, x)
  <2> HIDE DEF next
  <2> QED  BY <1>2, <1>6 DEF Froze
<1> QED  BY <1>4, <1>7

(***************************************************************************)
(* Pruning twice.  What a prune at t2 leaves of the windows does not       *)
(* depend on a prune at t1 before it, though the first may have rebuilt    *)
(* the baseline.                                                           *)
(***************************************************************************)

(* The older samples of a window go first, in one step or in two.          *)
LEMMA FreshTwice ==
  ASSUME NEW rows \in Rows, InOrder(rows), NEW c1 \in Int, NEW c2 \in Int, c1 <= c2
  PROVE  /\ Fresh(Fresh(rows, c1), c2) = Fresh(rows, c2)
         /\ Len(Fresh(rows, c2)) <= Len(Fresh(rows, c1))
<1> DEFINE left == Fresh(rows, c1)
           n    == Len(rows)
<1>1. n \in Nat /\ \A i \in 1..n : rows[i].ts \in Nat
  BY HeldTyped DEF Held, SampleRecord
<1>2. PICK k \in 0..n : /\ \A i \in 1..n : rows[i].ts <= c1 <=> i <= k
                        /\ left \in Rows /\ Len(left) = n - k
                        /\ \A i \in 1..n - k : left[i] = rows[k + i]
  BY FreshCut
<1>3. InOrder(left)
  BY FreshOrdered
<1> DEFINE twice == Fresh(left, c2)
           once  == Fresh(rows, c2)
<1> HIDE DEF left
<1>4. PICK m \in 0..n - k : /\ \A i \in 1..n - k : left[i].ts <= c2 <=> i <= m
                            /\ twice \in Rows /\ Len(twice) = (n - k) - m
                            /\ \A i \in 1..(n - k) - m : twice[i] = left[m + i]
  <2>1. \E m \in 0..Len(left) : /\ \A i \in 1..Len(left) : left[i].ts <= c2 <=> i <= m
                                /\ twice \in Rows /\ Len(twice) = Len(left) - m
                                /\ \A i \in 1..Len(left) - m : twice[i] = left[m + i]
    BY <1>2, <1>3, FreshCut
  <2>2. Len(left) = n - k
    BY <1>2
  <2> HIDE DEF n, twice
  <2> QED  BY <2>1, <2>2
<1>5. PICK h \in 0..n : /\ \A i \in 1..n : rows[i].ts <= c2 <=> i <= h
                        /\ once \in Rows /\ Len(once) = n - h
                        /\ \A i \in 1..n - h : once[i] = rows[h + i]
  BY FreshCut
<1> HIDE DEF twice, once, n
<1>6. h = k + m
  <2>1. k <= h
    <3>1. CASE k = 0
      BY <3>1
    <3>2. CASE k # 0
      <4>1. k \in 1..n /\ rows[k].ts <= c1
        BY <1>1, <1>2, <3>2
      <4> QED  BY <1>1, <1>5, <4>1
    <3> QED  BY <3>1, <3>2
  <2>2. k + m <= h
    <3>1. CASE m = 0
      BY <2>1, <3>1
    <3>2. CASE m # 0
      <4>1. m \in 1..n - k /\ k + m \in 1..n
        BY <1>1, <3>2
      <4>2. rows[k + m].ts <= c2
        BY <1>2, <1>4, <4>1
      <4> QED  BY <1>5, <4>1, <4>2
    <3> QED  BY <3>1, <3>2
  <2>3. h <= k + m
    <3> SUFFICES ASSUME k + m < h  PROVE FALSE
      BY <1>1
    <3>1. m + 1 \in 1..n - k /\ k + (m + 1) \in 1..n /\ k + (m + 1) <= h
      BY <1>1
    <3>2. rows[k + (m + 1)].ts <= c2
      BY <1>5, <3>1
    <3>3. left[m + 1].ts <= c2
      BY <1>2, <3>1, <3>2
    <3>4. m + 1 <= m
      BY <1>4, <3>1, <3>3
    <3> QED  BY <3>4
  <2> QED  BY <1>1, <2>2, <2>3
<1>7. Len(twice) = Len(once) /\ Len(once) <= n - k
  BY <1>1, <1>4, <1>5, <1>6
<1>8. \A i \in 1..Len(twice) : twice[i] = once[i]
  <2> TAKE i \in 1..Len(twice)
  <2>1. i \in 1..(n - k) - m /\ m + i \in 1..n - k /\ i \in 1..n - h /\ k + (m + i) = h + i
    BY <1>1, <1>4, <1>6
  <2> QED  BY <1>2, <1>4, <1>5, <2>1
<1>9. twice = once
  <2>1. twice \in Seq(SampleRecord) /\ once \in Seq(SampleRecord)
    BY <1>4, <1>5 DEF Rows
  <2> QED  BY <1>7, <1>8, <2>1, SeqEqual
<1> QED  BY <1>2, <1>7, <1>9 DEF twice, once, left

(* The fresh part of two windows is that of the first and of the second.   *)
LEMMA FreshJoined ==
  ASSUME NEW a \in Rows, NEW b \in Rows, InOrder(a), InOrder(b), Precedes(a, b),
         NEW cutoff \in Int
  PROVE  Fresh(a \o b, cutoff) = Fresh(a, cutoff) \o Fresh(b, cutoff)
<1> DEFINE rows == a \o b
           la   == Len(a)
           lb   == Len(b)
<1>1. /\ la \in Nat /\ lb \in Nat
      /\ \A i \in 1..la : a[i].ts \in Nat /\ a[i] \in Held(a)
      /\ \A i \in 1..lb : b[i].ts \in Nat /\ b[i] \in Held(b)
  <2>1. /\ DOMAIN a = 1..la /\ la \in Nat /\ Held(a) \subseteq SampleRecord
        /\ DOMAIN b = 1..lb /\ lb \in Nat /\ Held(b) \subseteq SampleRecord
    BY HeldTyped
  <2>2. (\A i \in 1..la : a[i] \in Held(a)) /\ (\A i \in 1..lb : b[i] \in Held(b))
    BY <2>1 DEF Held
  <2> QED  BY <2>1, <2>2 DEF SampleRecord
<1>2. rows \in Rows /\ Len(rows) = la + lb /\ InOrder(rows)
  BY Joined
<1>3. \A i \in 1..la + lb : rows[i] = IF i <= la THEN a[i] ELSE b[i - la]
  BY ConcatProperties DEF Rows
<1> HIDE DEF rows
<1> DEFINE fa == Fresh(a, cutoff)
           fb == Fresh(b, cutoff)
           fr == Fresh(rows, cutoff)
<1>4. PICK k \in 0..la : /\ \A i \in 1..la : a[i].ts <= cutoff <=> i <= k
                         /\ fa \in Rows /\ Len(fa) = la - k
                         /\ \A i \in 1..la - k : fa[i] = a[k + i]
  BY FreshCut
<1>5. PICK m \in 0..lb : /\ \A i \in 1..lb : b[i].ts <= cutoff <=> i <= m
                         /\ fb \in Rows /\ Len(fb) = lb - m
                         /\ \A i \in 1..lb - m : fb[i] = b[m + i]
  BY FreshCut
<1>6. PICK h \in 0..la + lb : /\ \A i \in 1..la + lb : rows[i].ts <= cutoff <=> i <= h
                              /\ fr \in Rows /\ Len(fr) = (la + lb) - h
                              /\ \A i \in 1..(la + lb) - h : fr[i] = rows[h + i]
  <2>1. \E h \in 0..Len(rows) : /\ \A i \in 1..Len(rows) : rows[i].ts <= cutoff <=> i <= h
                                /\ fr \in Rows /\ Len(fr) = Len(rows) - h
                                /\ \A i \in 1..Len(rows) - h : fr[i] = rows[h + i]
    BY <1>2, FreshCut
  <2>2. Len(rows) = la + lb
    BY <1>2
  <2> HIDE DEF fr, la, lb
  <2> QED  BY <2>1, <2>2
<1> HIDE DEF fa, fb, fr, la, lb
<1>7. h = k + m /\ (k < la => m = 0)
  <2>1. CASE k < la
    <3>1. k + 1 \in 1..la /\ ~ (a[k + 1].ts <= cutoff)
      BY <1>1, <1>4, <2>1
    <3>2. \A i \in 1..lb : a[k + 1].ts <= b[i].ts
      BY <1>1, <3>1 DEF Precedes
    <3>3. m = 0
      <4> SUFFICES ASSUME m # 0  PROVE FALSE
        OBVIOUS
      <4>1. 1 \in 1..lb /\ b[1].ts <= cutoff
        BY <1>1, <1>5
      <4> QED  BY <1>1, <3>1, <3>2, <4>1
    <3>4. k <= h
      <4>1. CASE k # 0
        <5>1. k \in 1..la + lb /\ k \in 1..la /\ rows[k].ts <= cutoff
          BY <1>1, <1>3, <1>4, <4>1
        <5> QED  BY <1>6, <5>1
      <4> QED  BY <1>1, <4>1
    <3>5. ~ (k + 1 <= h)
      <4>1. k + 1 \in 1..la + lb /\ rows[k + 1] = a[k + 1]
        BY <1>1, <1>3, <3>1
      <4> QED  BY <1>6, <3>1, <4>1
    <3> QED  BY <1>1, <3>3, <3>4, <3>5
  <2>2. CASE ~ (k < la)
    <3>1. k = la
      BY <1>1, <2>2
    <3>2. k + m <= h
      <4>1. CASE m # 0
        <5>1. m \in 1..lb /\ la + m \in 1..la + lb /\ (la + m) - la = m /\ ~ (la + m <= la)
          BY <1>1, <4>1
        <5>2. rows[la + m].ts <= cutoff
          BY <1>3, <1>5, <5>1
        <5> QED  BY <1>6, <3>1, <5>1, <5>2
      <4>2. CASE m = 0 /\ k # 0
        <5>1. k \in 1..la + lb /\ k \in 1..la /\ rows[k].ts <= cutoff
          BY <1>1, <1>3, <1>4, <4>2
        <5> QED  BY <1>6, <4>2, <5>1
      <4>3. CASE m = 0 /\ k = 0
        BY <4>3
      <4> QED  BY <4>1, <4>2, <4>3
    <3>3. h <= k + m
      <4> SUFFICES ASSUME k + m < h  PROVE FALSE
        BY <1>1
      <4>1. /\ m + 1 \in 1..lb /\ la + (m + 1) \in 1..la + lb /\ la + (m + 1) <= h
            /\ (la + (m + 1)) - la = m + 1 /\ ~ (la + (m + 1) <= la)
        BY <1>1, <3>1
      <4>2. b[m + 1].ts <= cutoff
        BY <1>3, <1>6, <4>1
      <4>3. m + 1 <= m
        BY <1>5, <4>1, <4>2
      <4> QED  BY <4>3
    <3> QED  BY <1>1, <2>2, <3>2, <3>3
  <2> QED  BY <2>1, <2>2
<1>8. /\ fa \o fb \in Rows /\ Len(fa \o fb) = (la - k) + (lb - m)
      /\ \A i \in 1..(la - k) + (lb - m) :
           (fa \o fb)[i] = IF i <= la - k THEN fa[i] ELSE fb[i - (la - k)]
  <2>1. fa \in Seq(SampleRecord) /\ fb \in Seq(SampleRecord)
    BY <1>4, <1>5 DEF Rows
  <2>2. /\ fa \o fb \in Seq(SampleRecord) /\ Len(fa \o fb) = Len(fa) + Len(fb)
        /\ \A i \in 1..Len(fa) + Len(fb) :
             (fa \o fb)[i] = IF i <= Len(fa) THEN fa[i] ELSE fb[i - Len(fa)]
    BY <2>1, ConcatProperties
  <2>3. Len(fa) = la - k /\ Len(fb) = lb - m
    BY <1>4, <1>5
  <2> QED  BY <2>2, <2>3 DEF Rows
<1>9. \A i \in 1..(la - k) + (lb - m) : (fa \o fb)[i] = fr[i]
  <2> TAKE i \in 1..(la - k) + (lb - m)
  <2>1. i \in 1..(la + lb) - h /\ h + i \in 1..la + lb
    BY <1>1, <1>7
  <2>2. fr[i] = rows[h + i]
    BY <1>6, <2>1
  <2>3. CASE i <= la - k
    <3>1. i \in 1..la - k /\ h + i = k + i /\ h + i <= la
      BY <1>1, <1>7, <2>3
    <3>2. rows[h + i] = a[k + i]
      BY <1>3, <2>1, <3>1
    <3> QED  BY <1>4, <1>8, <2>2, <2>3, <3>1, <3>2
  <2>4. CASE ~ (i <= la - k)
    <3>1. /\ i - (la - k) \in 1..lb - m /\ ~ (h + i <= la)
          /\ (h + i) - la = m + (i - (la - k))
      BY <1>1, <1>7, <2>4
    <3>2. rows[h + i] = b[m + (i - (la - k))]
      BY <1>3, <2>1, <3>1
    <3> QED  BY <1>5, <1>8, <2>2, <2>4, <3>1, <3>2
  <2> QED  BY <2>3, <2>4
<1>10. fa \o fb = fr
  <2>1. /\ fa \o fb \in Seq(SampleRecord) /\ fr \in Seq(SampleRecord)
        /\ Len(fa \o fb) = Len(fr)
    BY <1>1, <1>6, <1>7, <1>8 DEF Rows
  <2> QED  BY <1>8, <1>9, <2>1, SeqEqual
<1> QED  BY <1>10 DEF fa, fb, fr, rows

(* The two halves of a concatenation.                                      *)
LEMMA Halves ==
  ASSUME NEW a \in Rows, NEW b \in Rows, NEW n \in Nat, Len(a) = n
  PROVE  /\ Len(a \o b) = n + Len(b)
         /\ SubSeq(a \o b, 1, n) = a
         /\ SubSeq(a \o b, n + 1, Len(a \o b)) = b
<1> DEFINE rows == a \o b
           m    == Len(b)
<1>1. a \in Seq(SampleRecord) /\ b \in Seq(SampleRecord) /\ m \in Nat
  BY LenProperties DEF Rows
<1>2. /\ rows \in Seq(SampleRecord) /\ Len(rows) = n + m
      /\ \A i \in 1..n + m : rows[i] = IF i <= n THEN a[i] ELSE b[i - n]
  BY <1>1, ConcatProperties
<1> HIDE DEF rows, m
<1>3. \A i \in 1..n + m : rows[i] \in SampleRecord
  BY <1>2, ElementOfSeq
<1>4. SubSeq(rows, 1, n) = a
  <2> DEFINE part == SubSeq(rows, 1, n)
  <2>1. \A i \in 1..n : rows[i] \in SampleRecord /\ rows[i] = a[i]
    BY <1>1, <1>2, <1>3
  <2>2. /\ part \in Seq(SampleRecord) /\ Len(part) = IF 1 <= n THEN n - 1 + 1 ELSE 0
        /\ \A i \in 1..n - 1 + 1 : part[i] = rows[1 + i - 1]
    BY <2>1, SubSeqProperties
  <2> HIDE DEF part
  <2>3. Len(part) = n /\ \A i \in 1..n : part[i] = rows[i]
    <3>1. n - 1 + 1 = n /\ (IF 1 <= n THEN n ELSE 0) = n
      OBVIOUS
    <3>2. \A i \in 1..n : 1 + i - 1 = i
      OBVIOUS
    <3> QED  BY <2>2, <3>1, <3>2
  <2>4. part = a
    BY <1>1, <2>1, <2>2, <2>3, SeqEqual
  <2> QED  BY <2>4 DEF part
<1>5. SubSeq(rows, n + 1, n + m) = b
  <2> DEFINE part == SubSeq(rows, n + 1, n + m)
  <2>1. \A i \in n + 1..n + m : rows[i] \in SampleRecord
    BY <1>1, <1>3
  <2>2. n + 1 \in Int /\ n + m \in Int
    BY <1>1
  <2>3. /\ part \in Seq(SampleRecord)
        /\ Len(part) = IF n + 1 <= n + m THEN (n + m) - (n + 1) + 1 ELSE 0
        /\ \A i \in 1..(n + m) - (n + 1) + 1 : part[i] = rows[(n + 1) + i - 1]
    BY <2>1, <2>2, SubSeqProperties
  <2> HIDE DEF part
  <2>4. Len(part) = m
    BY <1>1, <2>3
  <2>5. \A i \in 1..m : part[i] = b[i]
    <3> TAKE i \in 1..m
    <3>1. /\ i \in 1..(n + m) - (n + 1) + 1 /\ (n + 1) + i - 1 = n + i
          /\ n + i \in 1..n + m /\ ~ (n + i <= n) /\ (n + i) - n = i
      BY <1>1
    <3> QED  BY <1>2, <2>3, <3>1
  <2>6. part = b
    BY <1>1, <2>3, <2>4, <2>5, SeqEqual DEF m
  <2> QED  BY <2>6 DEF part
<1> QED  BY <1>2, <1>4, <1>5 DEF rows, m

(* What pruning makes of the two windows: the fresh samples of both, split *)
(* anew if the baseline lost one.                                          *)
Joint(s, cutoff) == Fresh(s.baseline \o s.current, cutoff)

Whole(s, cutoff) == Len(Joint(s, cutoff)) >= WINDOW

CutBase(s, cutoff) ==
  IF ~Shrinks(s, cutoff) THEN s.baseline
  ELSE IF Whole(s, cutoff) THEN SubSeq(Joint(s, cutoff), 1, WINDOW) ELSE << >>

CutRest(s, cutoff) ==
  IF ~Shrinks(s, cutoff) THEN Fresh(s.current, cutoff)
  ELSE IF Whole(s, cutoff) THEN SubSeq(Joint(s, cutoff), WINDOW + 1, Len(Joint(s, cutoff)))
       ELSE Joint(s, cutoff)

LEMMA JointParts ==
  ASSUME NEW s \in StreamRecord, InWindow(s), NEW cutoff \in Int
  PROVE  /\ s.baseline \in Rows /\ InOrder(s.baseline)
         /\ s.current \in Rows /\ InOrder(s.current)
         /\ s.baseline \o s.current \in Rows /\ InOrder(s.baseline \o s.current)
         /\ Joint(s, cutoff) = Fresh(s.baseline, cutoff) \o Fresh(s.current, cutoff)
         /\ Joint(s, cutoff) \in Rows /\ InOrder(Joint(s, cutoff))
         /\ Len(Joint(s, cutoff)) \in Nat
         /\ ~Shrinks(s, cutoff) => Fresh(s.baseline, cutoff) = s.baseline
<1>1. s.baseline \in Rows /\ s.current \in Rows
  BY DEF StreamRecord, Rows
<1>2. /\ InOrder(s.baseline) /\ InOrder(s.current) /\ Precedes(s.baseline, s.current)
  BY DEF InWindow
<1>3. s.baseline \o s.current \in Rows /\ InOrder(s.baseline \o s.current)
  BY <1>1, <1>2, Joined
<1>4. Joint(s, cutoff) = Fresh(s.baseline, cutoff) \o Fresh(s.current, cutoff)
  BY <1>1, <1>2, FreshJoined DEF Joint
<1>5. Joint(s, cutoff) \in Rows /\ InOrder(Joint(s, cutoff)) /\ Len(Joint(s, cutoff)) \in Nat
  <2>1. Joint(s, cutoff) \in Rows /\ InOrder(Joint(s, cutoff))
    BY <1>3, FreshOrdered DEF Joint
  <2> QED  BY <2>1, HeldTyped
<1>6. ~Shrinks(s, cutoff) => Fresh(s.baseline, cutoff) = s.baseline
  BY <1>1, FreshWhole DEF Shrinks
<1> QED  BY <1>1, <1>2, <1>3, <1>4, <1>5, <1>6

LEMMA CutParts ==
  ASSUME NEW s \in StreamRecord, InWindow(s), NEW kept, NEW cutoff \in Int
  PROVE  /\ CutBase(s, cutoff) \o CutRest(s, cutoff) = Joint(s, cutoff)
         /\ PruneStream(s, kept, cutoff)
              = [baseline |-> CutBase(s, cutoff), current |-> CutRest(s, cutoff),
                 versions |-> s.versions \cap Labels(Joint(s, cutoff)),
                 active   |-> IF Shrinks(s, cutoff) THEN None ELSE Linked(s, kept),
                 last     |-> s.last]
<1> DEFINE rows == Joint(s, cutoff)
           link == IF Lapses(s, kept, cutoff) THEN None ELSE Linked(s, kept)
<1>1. /\ rows = Fresh(s.baseline, cutoff) \o Fresh(s.current, cutoff)
      /\ rows \in Rows /\ Len(rows) \in Nat
      /\ ~Shrinks(s, cutoff) => Fresh(s.baseline, cutoff) = s.baseline
      /\ WINDOW \in Nat \ {0}
  BY JointParts, SizesAssumption
<1>2. CutBase(s, cutoff) \o CutRest(s, cutoff) = rows
  <2>1. CASE ~Shrinks(s, cutoff)
    BY <1>1, <2>1 DEF CutBase, CutRest
  <2>2. CASE Shrinks(s, cutoff) /\ Whole(s, cutoff)
    <3> HIDE DEF rows
    <3> DEFINE n == Len(rows)
    <3>1. 1 \in 1..n + 1 /\ WINDOW \in 1 - 1..n /\ n \in WINDOW..n
      BY <1>1, <2>2 DEF Whole, rows
    <3>2. SubSeq(rows, 1, WINDOW) \o SubSeq(rows, WINDOW + 1, n) = SubSeq(rows, 1, n)
      BY <1>1, <3>1, ConcatAdjacentSubSeq DEF Rows
    <3>3. SubSeq(rows, 1, n) = rows
      BY <1>1, SubSeqFull DEF Rows
    <3> QED  BY <2>2, <3>2, <3>3 DEF CutBase, CutRest, rows
  <2>3. CASE Shrinks(s, cutoff) /\ ~Whole(s, cutoff)
    <3>1. << >> \o rows = rows
      BY <1>1, ConcatEmptySeq DEF Rows
    <3> QED  BY <2>3, <3>1 DEF CutBase, CutRest
  <2> QED  BY <2>1, <2>2, <2>3
<1>3. link = IF Shrinks(s, cutoff) THEN None ELSE Linked(s, kept)
  BY DEF Lapses
<1>4. PruneStream(s, kept, cutoff)
        = TrimVersions([s EXCEPT !.baseline = CutBase(s, cutoff), !.current = CutRest(s, cutoff),
                                 !.active = link])
  <2>1. CASE ~Shrinks(s, cutoff)
    BY <1>1, <2>1 DEF PruneStream, CutBase, CutRest, StreamRecord
  <2>2. CASE Shrinks(s, cutoff)
    BY <1>1, <2>2 DEF PruneStream, CutBase, CutRest, Whole, StreamRecord
  <2> QED  BY <2>1, <2>2
<1> HIDE DEF link, rows
<1>5. TrimVersions([s EXCEPT !.baseline = CutBase(s, cutoff), !.current = CutRest(s, cutoff),
                             !.active = link])
        = [baseline |-> CutBase(s, cutoff), current |-> CutRest(s, cutoff),
           versions |-> s.versions \cap Labels(CutBase(s, cutoff) \o CutRest(s, cutoff)),
           active   |-> link, last |-> s.last]
  <2> DEFINE r == [s EXCEPT !.baseline = CutBase(s, cutoff), !.current = CutRest(s, cutoff),
                            !.active = link]
  <2>1. r = [baseline |-> CutBase(s, cutoff), current |-> CutRest(s, cutoff),
             versions |-> s.versions, active |-> link, last |-> s.last]
    <3> DEFINE b == s.baseline
               c == s.current
               v == s.versions
               a == s.active
               l == s.last
               newB == CutBase(s, cutoff)
               newC == CutRest(s, cutoff)
    <3>1. s = [baseline |-> b, current |-> c, versions |-> v, active |-> a, last |-> l]
      BY DEF StreamRecord
    <3> HIDE DEF b, c, v, a, l, newB, newC
    <3>2. PICK s1 : s1 = [s EXCEPT !.baseline = newB]
      OBVIOUS
    <3>3. PICK s2 : s2 = [s1 EXCEPT !.current = newC]
      OBVIOUS
    <3>4. PICK s3 : s3 = [s2 EXCEPT !.active = link]
      OBVIOUS
    <3>5. s1 = [baseline |-> newB, current |-> c, versions |-> v, active |-> a, last |-> l]
      BY <3>1, <3>2
    <3>6. s2 = [baseline |-> newB, current |-> newC, versions |-> v, active |-> a, last |-> l]
      BY <3>3, <3>5
    <3>7. s3 = [baseline |-> newB, current |-> newC, versions |-> v, active |-> link,
                last |-> l]
      BY <3>4, <3>6
    <3>8. s3 = [s EXCEPT !.baseline = newB, !.current = newC, !.active = link]
      BY <3>2, <3>3, <3>4
    <3> QED  BY <3>7, <3>8 DEF newB, newC, v, l, r
  <2> HIDE DEF r
  <2>2. [r EXCEPT !.versions = r.versions \cap Labels(r.baseline \o r.current)]
          = [baseline |-> CutBase(s, cutoff), current |-> CutRest(s, cutoff),
             versions |-> s.versions \cap Labels(CutBase(s, cutoff) \o CutRest(s, cutoff)),
             active   |-> link, last |-> s.last]
    BY <2>1
  <2> QED  BY <2>2 DEF TrimVersions, r
<1> QED  BY <1>2, <1>3, <1>4, <1>5 DEF rows

(* A baseline that has lost a sample has lost it for good.                 *)
LEMMA ShrinksMore ==
  ASSUME NEW s \in StreamRecord, InWindow(s), NEW c1 \in Int, NEW c2 \in Int, c1 <= c2,
         Shrinks(s, c1)
  PROVE  Shrinks(s, c2)
<1>1. s.baseline \in Rows /\ InOrder(s.baseline)
  BY JointParts
<1>2. Len(Fresh(s.baseline, c2)) <= Len(Fresh(s.baseline, c1))
  BY <1>1, FreshTwice
<1>3. /\ Len(Fresh(s.baseline, c2)) \in Nat /\ Len(Fresh(s.baseline, c1)) \in Nat
      /\ Len(s.baseline) \in Nat
  BY <1>1, FreshType, HeldTyped
<1> QED  BY <1>2, <1>3 DEF Shrinks

(* The windows cut at c1 and then at c2 are the windows cut at c2.         *)
LEMMA CutTwice ==
  ASSUME NEW s \in StreamRecord, InWindow(s), NEW t \in StreamRecord, InWindow(t),
         NEW c1 \in Int, NEW c2 \in Int, c1 <= c2,
         t.baseline = CutBase(s, c1), t.current = CutRest(s, c1)
  PROVE  /\ Joint(t, c2) = Joint(s, c2)
         /\ CutBase(t, c2) = CutBase(s, c2) /\ CutRest(t, c2) = CutRest(s, c2)
<1>1. t.baseline \o t.current = Joint(s, c1)
  BY CutParts
<1>2. Joint(t, c2) = Joint(s, c2) /\ Len(Joint(s, c2)) <= Len(Joint(s, c1))
  <2>1. s.baseline \o s.current \in Rows /\ InOrder(s.baseline \o s.current)
    BY JointParts
  <2> QED  BY <1>1, <2>1, FreshTwice DEF Joint
<1>3. /\ Joint(t, c2) = Fresh(t.baseline, c2) \o Fresh(t.current, c2)
      /\ ~Shrinks(t, c2) => Fresh(t.baseline, c2) = t.baseline
      /\ t.current \in Rows /\ t.baseline \in Rows
      /\ Joint(s, c1) \in Rows /\ Len(Joint(s, c1)) \in Nat /\ Len(Joint(s, c2)) \in Nat
  BY JointParts
<1>4. CASE ~Shrinks(s, c1)
  <2>1. t.baseline = s.baseline /\ t.current = Fresh(s.current, c1)
    BY <1>4 DEF CutBase, CutRest
  <2>2. Fresh(t.current, c2) = Fresh(s.current, c2)
    <3>1. s.current \in Rows /\ InOrder(s.current)
      BY JointParts
    <3> QED  BY <2>1, <3>1, FreshTwice
  <2>3. Shrinks(t, c2) <=> Shrinks(s, c2)
    BY <2>1 DEF Shrinks
  <2> QED  BY <1>2, <2>1, <2>2, <2>3 DEF CutBase, CutRest, Whole
<1>5. CASE Shrinks(s, c1)
  <2>1. Shrinks(s, c2)
    BY <1>5, ShrinksMore
  <2>2. CASE Shrinks(t, c2)
    BY <1>2, <2>1, <2>2 DEF CutBase, CutRest, Whole
  <2>3. CASE ~Shrinks(t, c2) /\ Whole(s, c1)
    <3> DEFINE rest == Fresh(t.current, c2)
    <3>1. WINDOW \in Nat /\ rest \in Rows /\ Joint(s, c2) = t.baseline \o rest
      BY <1>2, <1>3, <2>3, FreshType, SizesAssumption
    <3>2. Len(t.baseline) = WINDOW
      <4>1. t.baseline = SubSeq(Joint(s, c1), 1, WINDOW)
        BY <1>5, <2>3 DEF CutBase
      <4>2. Len(t.baseline) \in {0, WINDOW}
        BY DEF InWindow
      <4>3. WINDOW \in 1..Len(Joint(s, c1)) /\ 1 \in Int
        BY <1>3, <2>3, SizesAssumption DEF Whole
      <4>4. Len(SubSeq(Joint(s, c1), 1, WINDOW)) = WINDOW
        <5>1. \A i \in 1..WINDOW : Joint(s, c1)[i] \in SampleRecord
          BY <1>3, <4>3, ElementOfSeq DEF Rows
        <5>2. Len(SubSeq(Joint(s, c1), 1, WINDOW)) = IF 1 <= WINDOW THEN WINDOW - 1 + 1 ELSE 0
          BY <3>1, <5>1, SubSeqProperties
        <5> QED  BY <3>1, <4>3, <5>2
      <4> QED  BY <4>1, <4>4
    <3> HIDE DEF rest
    <3>3. /\ Len(t.baseline \o rest) = WINDOW + Len(rest)
          /\ SubSeq(t.baseline \o rest, 1, WINDOW) = t.baseline
          /\ SubSeq(t.baseline \o rest, WINDOW + 1, Len(t.baseline \o rest)) = rest
      <4> DEFINE a == t.baseline
      <4>1. a \in Rows /\ WINDOW \in Nat /\ rest \in Rows /\ Len(a) = WINDOW
        BY <1>3, <3>1, <3>2
      <4> HIDE DEF a
      <4>2. /\ Len(a \o rest) = WINDOW + Len(rest)
            /\ SubSeq(a \o rest, 1, WINDOW) = a
            /\ SubSeq(a \o rest, WINDOW + 1, Len(a \o rest)) = rest
        BY <4>1, Halves
      <4> QED  BY <4>2 DEF a
    <3>4. Whole(s, c2)
      <4>1. Len(rest) \in Nat
        BY <3>1, HeldTyped
      <4> QED  BY <3>1, <3>3, <4>1 DEF Whole
    <3> QED  BY <1>2, <2>1, <2>3, <3>1, <3>3, <3>4 DEF CutBase, CutRest, rest
  <2>4. CASE ~Shrinks(t, c2) /\ ~Whole(s, c1)
    <3>1. t.baseline = << >>
      BY <1>5, <2>4 DEF CutBase
    <3>2. ~Whole(s, c2)
      BY <1>2, <1>3, <2>4, SizesAssumption DEF Whole
    <3>3. << >> \o Fresh(t.current, c2) = Fresh(t.current, c2)
      BY <1>3, FreshType, ConcatEmptySeq DEF Rows
    <3>4. Joint(s, c2) = Fresh(t.current, c2)
      BY <1>2, <1>3, <2>4, <3>1, <3>3
    <3> QED  BY <1>2, <2>1, <2>4, <3>1, <3>2, <3>4 DEF CutBase, CutRest
  <2> QED  BY <2>2, <2>3, <2>4
<1> QED  BY <1>2, <1>4, <1>5

(* And so is the whole stream, when the incident lists agree on its        *)
(* incident.                                                               *)
LEMMA PruneStreamTwice ==
  ASSUME NEW s \in StreamRecord, InWindow(s), Latest(s),
         NEW c1 \in Int, NEW c2 \in Int, c1 <= c2, s.last > c2,
         NEW k1 \in SUBSET IncidentRecord, NEW k2 \in SUBSET IncidentRecord,
         NEW k3 \in SUBSET IncidentRecord, k2 \subseteq k1,
         \A i \in k3 : \E j \in k2 : i.id = j.id,
         \A j \in k2 : \E i \in k3 : i.id = j.id
  PROVE  PruneStream(PruneStream(s, k1, c1), k3, c2) = PruneStream(s, k2, c2)
<1> DEFINE t == PruneStream(s, k1, c1)
<1>1. t \in StreamRecord /\ InWindow(t)
  <2>1. s.last > c1
    BY DEF StreamRecord
  <2> QED  BY <2>1, PruneStreamType, PruneInWindow
<1>2. /\ t.baseline = CutBase(s, c1) /\ t.current = CutRest(s, c1) /\ t.last = s.last
      /\ t.versions = s.versions \cap Labels(Joint(s, c1))
      /\ t.active = IF Shrinks(s, c1) THEN None ELSE Linked(s, k1)
  BY CutParts
<1> HIDE DEF t
<1>3. /\ Joint(t, c2) = Joint(s, c2)
      /\ CutBase(t, c2) = CutBase(s, c2) /\ CutRest(t, c2) = CutRest(s, c2)
  BY <1>1, <1>2, CutTwice
<1>4. Labels(Joint(s, c2)) \subseteq Labels(Joint(s, c1))
  <2>1. s.baseline \o s.current \in Rows /\ InOrder(s.baseline \o s.current)
        /\ Joint(s, c1) \in Rows /\ InOrder(Joint(s, c1))
    BY JointParts
  <2>2. Joint(s, c2) = Fresh(Joint(s, c1), c2)
    BY <2>1, FreshTwice DEF Joint
  <2>3. Held(Joint(s, c2)) \subseteq Held(Joint(s, c1))
    BY <2>1, <2>2, FreshOrdered
  <2>4. \A rows : Labels(rows) = {r.version : r \in Held(rows)}
    BY DEF Labels, Held
  <2> QED  BY <2>3, <2>4
<1>5. (IF Shrinks(t, c2) THEN None ELSE Linked(t, k3))
        = (IF Shrinks(s, c2) THEN None ELSE Linked(s, k2))
  <2>1. \A i \in k1 \cup k2 \cup k3 : i.id # None
    BY IdNotNone DEF IncidentRecord
  <2>2. CASE Shrinks(s, c1)
    <3>1. Shrinks(s, c2) /\ t.active = None
      BY <1>2, <2>2, ShrinksMore
    <3>2. Linked(t, k3) = None
      BY <2>1, <3>1 DEF Linked
    <3> QED  BY <3>1, <3>2
  <2>3. CASE ~Shrinks(s, c1)
    <3>1. Shrinks(t, c2) <=> Shrinks(s, c2)
      BY <1>2, <2>3 DEF Shrinks, CutBase
    <3>2. t.active = Linked(s, k1)
      BY <1>2, <2>3
    <3>3. Linked(t, k3) = Linked(s, k2)
      <4>1. CASE \E i \in k1 : i.id = s.active
        <5>1. t.active = s.active
          BY <3>2, <4>1 DEF Linked
        <5> QED  BY <5>1 DEF Linked
      <4>2. CASE ~ \E i \in k1 : i.id = s.active
        <5>1. t.active = None /\ Linked(s, k2) = None
          BY <3>2, <4>2 DEF Linked
        <5> QED  BY <2>1, <5>1 DEF Linked
      <4> QED  BY <4>1, <4>2
    <3> QED  BY <3>1, <3>3
  <2> QED  BY <2>2, <2>3
<1>6. PruneStream(t, k3, c2)
        = [baseline |-> CutBase(t, c2), current |-> CutRest(t, c2),
           versions |-> t.versions \cap Labels(Joint(t, c2)),
           active   |-> IF Shrinks(t, c2) THEN None ELSE Linked(t, k3),
           last     |-> t.last]
  BY <1>1, CutParts
<1>7. PruneStream(s, k2, c2)
        = [baseline |-> CutBase(s, c2), current |-> CutRest(s, c2),
           versions |-> s.versions \cap Labels(Joint(s, c2)),
           active   |-> IF Shrinks(s, c2) THEN None ELSE Linked(s, k2),
           last     |-> s.last]
  BY CutParts
<1>8. t.versions \cap Labels(Joint(t, c2)) = s.versions \cap Labels(Joint(s, c2))
  BY <1>2, <1>3, <1>4
<1>9. PruneStream(t, k3, c2) = PruneStream(s, k2, c2)
  <2> DEFINE linkT == IF Shrinks(t, c2) THEN None ELSE Linked(t, k3)
             linkS == IF Shrinks(s, c2) THEN None ELSE Linked(s, k2)
             nameT == t.versions \cap Labels(Joint(t, c2))
             nameS == s.versions \cap Labels(Joint(s, c2))
  <2>1. /\ PruneStream(t, k3, c2)
             = [baseline |-> CutBase(t, c2), current |-> CutRest(t, c2),
                versions |-> nameT, active |-> linkT, last |-> t.last]
        /\ PruneStream(s, k2, c2)
             = [baseline |-> CutBase(s, c2), current |-> CutRest(s, c2),
                versions |-> nameS, active |-> linkS, last |-> s.last]
        /\ linkT = linkS /\ nameT = nameS
    BY <1>5, <1>6, <1>7, <1>8
  <2> HIDE DEF linkT, linkS, nameT, nameS
  <2> QED  BY <1>2, <1>3, <2>1
<1> QED  BY <1>9 DEF t

(* So a state pruned on the way shows the same streams and incidents.      *)
LEMMA PruneTwice ==
  ASSUME NEW st, GoodEngine(st), Windowed(st), NEW t1 \in Int, NEW t2 \in Int, t1 <= t2
  PROVE  LET once  == Prune(st, t2)
             twice == Prune(Prune(st, t1), t2)
         IN /\ twice.streams = once.streams /\ twice.incidents = once.incidents
            /\ twice.accepted = once.accepted
<1> DEFINE a  == Prune(st, t1)
           c1 == t1 - RETENTION
           c2 == t2 - RETENTION
           k1 == Young(st, t1)
           k2 == Young(st, t2)
           k3 == Young(a, t2)
<1>1. GoodEngine(a) /\ IsEngine(a) /\ Windowed(a) /\ IsEngine(st)
  BY PruneGood, PruneWindowed DEF GoodEngine
<1>2. /\ c1 \in Int /\ c2 \in Int /\ c1 <= c2
      /\ k1 \in SUBSET IncidentRecord /\ k2 \in SUBSET IncidentRecord
      /\ k3 \in SUBSET IncidentRecord /\ k2 \subseteq k1
  <2>1. c1 \in Int /\ c2 \in Int /\ c1 <= c2
    BY SizesAssumption
  <2>2. st.incidents \subseteq IncidentRecord /\ a.incidents \subseteq IncidentRecord
    BY <1>1, EngineParts
  <2>3. \A i \in IncidentRecord : i.opened \in Nat
    BY DEF IncidentRecord
  <2> HIDE DEF a
  <2> QED  BY <2>1, <2>2, <2>3 DEF Young
<1>3. /\ a.streams = [x \in Living(st, t1) |-> PruneStream(st.streams[x], k1, c1)]
      /\ a.incidents = {AgedIn(st, c1, i) : i \in k1} /\ a.accepted = st.accepted
  BY PruneShape
<1>4. /\ Prune(st, t2).streams = [x \in Living(st, t2) |-> PruneStream(st.streams[x], k2, c2)]
      /\ Prune(st, t2).incidents = {AgedIn(st, c2, i) : i \in k2}
      /\ Prune(st, t2).accepted = st.accepted
  BY PruneShape
<1>5. /\ Prune(a, t2).streams = [x \in Living(a, t2) |-> PruneStream(a.streams[x], k3, c2)]
      /\ Prune(a, t2).incidents = {AgedIn(a, c2, i) : i \in k3}
      /\ Prune(a, t2).accepted = a.accepted
  BY <1>1, PruneShape
<1>6. ASSUME NEW x \in DOMAIN st.streams
      PROVE  /\ st.streams[x] \in StreamRecord /\ InWindow(st.streams[x])
             /\ Latest(st.streams[x]) /\ st.streams[x].last \in Nat
             /\ PruneStream(st.streams[x], k1, c1).last = st.streams[x].last
  <2>1. st.streams[x] \in StreamRecord
    BY <1>1, EngineParts
  <2> HIDE DEF k1, c1
  <2> QED  BY <1>2, <2>1, PruneStreamType DEF Windowed, StreamRecord
<1>7. ASSUME NEW i \in st.incidents, i.opened > c1
      PROVE  AgedIn(st, c1, i).id = i.id /\ AgedIn(st, c1, i).opened = i.opened
  BY <1>7, AgedParts
<1>8. \A i \in k2 : i \in st.incidents /\ i.opened > c1 /\ i.opened > c2
  BY <1>2 DEF Young
<1> HIDE DEF a
<1>9. Living(a, t2) = Living(st, t2)
  <2>1. \A x \in Living(st, t2) : x \in Living(st, t1)
    BY <1>2, <1>6 DEF Living
  <2>2. \A x \in Living(st, t1) : a.streams[x].last = st.streams[x].last /\ x \in DOMAIN st.streams
    BY <1>3, <1>6 DEF Living
  <2> QED  BY <1>3, <2>1, <2>2 DEF Living
<1>10. k3 = {AgedIn(st, c1, i) : i \in k2}
  <2>1. \A i \in k1 : i \in st.incidents /\ i.opened > c1 /\ (i \in k2 <=> i.opened > c2)
    BY DEF Young
  <2>2. \A i \in k1 : AgedIn(st, c1, i).opened = i.opened
    BY <1>7, <2>1
  <2> DEFINE aged(i) == AgedIn(st, c1, i)
  <2>3. a.incidents = {aged(i) : i \in k1} /\ \A i \in k1 : aged(i).opened = i.opened
    BY <1>3, <2>2
  <2>4. k3 = {j \in a.incidents : j.opened > c2}
    BY DEF Young
  <2> HIDE DEF aged, k3, k1, k2, c2
  <2>5. k3 = {aged(i) : i \in k2}
    BY <1>2, <2>1, <2>3, <2>4
  <2> QED  BY <2>5 DEF aged
<1> HIDE DEF c1, c2, k1, k2, k3
<1>11. ASSUME NEW x \in Living(st, t2)
       PROVE  PruneStream(a.streams[x], k3, c2) = PruneStream(st.streams[x], k2, c2)
  <2>1. x \in Living(st, t1) /\ x \in DOMAIN st.streams /\ st.streams[x].last > c2
    BY <1>2, <1>6 DEF Living, c1, c2
  <2>2. a.streams[x] = PruneStream(st.streams[x], k1, c1)
    BY <1>3, <2>1
  <2>3. /\ \A i \in k3 : \E j \in k2 : i.id = j.id
        /\ \A j \in k2 : \E i \in k3 : i.id = j.id
    BY <1>7, <1>8, <1>10
  <2> QED  BY <1>2, <1>6, <2>1, <2>2, <2>3, PruneStreamTwice
<1>12. ASSUME NEW i \in k2  PROVE AgedIn(a, c2, AgedIn(st, c1, i)) = AgedIn(st, c2, i)
  <2>1. i \in st.incidents /\ i \in IncidentRecord /\ i \in k1
    BY <1>2, <1>8
  <2>2. CASE i.status # "open"
    BY <2>2 DEF AgedIn
  <2>3. CASE i.status = "open" /\ Shrinks(st.streams[i.stream], c1)
    <3>1. i.stream \in DOMAIN st.streams
      BY <2>1, <2>3 DEF GoodEngine, OpenIsActive
    <3>2. Shrinks(st.streams[i.stream], c2)
      BY <1>2, <1>6, <2>3, <3>1, ShrinksMore
    <3> DEFINE j == Resolve(i, "expired", st.streams[i.stream].baseline[1].ts + RETENTION)
    <3>3. AgedIn(st, c1, i) = j /\ AgedIn(st, c2, i) = j
      BY <2>3, <3>2 DEF AgedIn
    <3>4. j.status = "expired"
      BY <2>1 DEF Resolve, IncidentRecord
    <3> HIDE DEF j
    <3>5. AgedIn(a, c2, j) = j
      BY <3>4 DEF AgedIn
    <3> QED  BY <3>3, <3>5
  <2>4. CASE i.status = "open" /\ ~Shrinks(st.streams[i.stream], c1)
    <3>1. AgedIn(st, c1, i) = i
      BY <2>4 DEF AgedIn
    <3>2. i \in a.incidents
      BY <1>3, <2>1, <3>1
    <3>3. a.streams[i.stream].baseline = st.streams[i.stream].baseline
      BY <2>4, <3>2, KeptWindows DEF a
    <3>4. Shrinks(a.streams[i.stream], c2) <=> Shrinks(st.streams[i.stream], c2)
      BY <3>3 DEF Shrinks
    <3> QED  BY <3>1, <3>3, <3>4 DEF AgedIn
  <2> QED  BY <2>2, <2>3, <2>4
<1>13. Prune(a, t2).streams = Prune(st, t2).streams
  BY <1>4, <1>5, <1>9, <1>11
<1>14. Prune(a, t2).incidents = Prune(st, t2).incidents
  BY <1>4, <1>5, <1>10, <1>12
<1> QED  BY <1>3, <1>4, <1>5, <1>13, <1>14 DEF a

-----------------------------------------------------------------------------
(***************************************************************************)
(* The specification.                                                      *)
(***************************************************************************)

(* What a step does to the two engine states, whatever else it does.       *)
LEMMA EngineStep ==
  ASSUME IndInv, [Next]_vars
  PROVE  /\ store'.state \in {store.state, Empty, Finish(txn.work)}
         /\ \/ txn'.work \in {txn.work, Empty}
            \/ \E now \in Int, st \in {store.state, Empty} : txn'.work = Prune(st, now)
            \/ \E e \in Events : Admissible(txn.work, e) /\ txn'.work = Accept(txn.work, e)
<1>1. CASE Tick \/ UNCHANGED vars \/ \E r \in Slots : Request(r)
  BY <1>1 DEF Tick, Request, vars
<1>2. ASSUME NEW r \in Slots, Begin(r)
      PROVE  /\ store' = store
             /\ \E now \in Int, st \in {store.state, Empty} : txn'.work = Prune(st, now)
  <2>1. request[r] \in Int
    BY <1>2 DEF IndInv, TypeOK, Begin, Idle
  <2>2. Loaded(store, clock).state \in {store.state, Empty}
    BY DEF Loaded, BlankRow
  <2>3. txn'.work = Prune(Loaded(store, clock).state, request[r]) /\ store' = store
    BY <1>2 DEF Begin, NoTxn
  <2> QED  BY <2>1, <2>2, <2>3
<1>3. ASSUME NEW e \in Events, Skip(e)  PROVE txn'.work = txn.work /\ store' = store
  BY <1>3 DEF Skip, Taken, IndInv, TypeOK
<1>4. ASSUME NEW e \in Events, Absorb(e)
      PROVE  txn'.work = Accept(txn.work, e) /\ store' = store /\ Admissible(txn.work, e)
  BY <1>4 DEF Absorb, Taken, IndInv, TypeOK
<1>5. CASE (\E e \in Events : Refuse(e)) \/ Rollback \/ OverQuota
  BY <1>5 DEF Refuse, Rollback, OverQuota, Abandon, NoTxn
<1>6. CASE Commit
  BY <1>6 DEF Commit, NoTxn
<1>7. CASE ReadState \/ PurgeExpired
  BY <1>7 DEF ReadState, PurgeExpired, DropExpired, BlankRow
<1> QED
  BY <1>1, <1>2, <1>3, <1>4, <1>5, <1>6, <1>7 DEF Next

(* The same, with the transaction the working copy belongs to.             *)
LEMMA WorkStep ==
  ASSUME IndInv, [Next]_vars
  PROVE  /\ \/ store' = store \/ store'.state = Empty
            \/ txn.slot # NoSlot /\ store'.state = Finish(txn.work)
         /\ txn'.slot = NoSlot => txn'.work \in {txn.work, Empty}
         /\ txn'.slot # NoSlot =>
              /\ store' = store /\ request'[txn'.slot] \in Int
              /\ \/ /\ txn'.slot = txn.slot /\ request'[txn.slot] = request[txn.slot]
                    /\ txn'.began = txn.began /\ txn'.work = txn.work
                 \/ \E r \in Slots :
                      /\ txn.slot = NoSlot /\ txn'.slot = r /\ request' = request
                      /\ txn'.began = clock
                      /\ txn'.work = Prune(Loaded(store, clock).state, request[r])
                 \/ \E e \in Events :
                      /\ txn'.slot = txn.slot /\ request' = request
                      /\ txn'.began = txn.began
                      /\ Timely(e, request[txn.slot]) /\ Admissible(txn.work, e)
                      /\ txn'.work = Accept(txn.work, e)
<1>1. /\ request \in [Slots -> Nat \cup {Idle}] /\ Idle \in Int
      /\ txn.slot \in Slots \cup {NoSlot} /\ NoSlot \notin Slots
      /\ txn.slot # NoSlot => request[txn.slot] # Idle
  BY IngestAssumption DEF IndInv, TypeOK, Idle
<1>2. CASE Tick \/ UNCHANGED vars
  BY <1>1, <1>2 DEF Tick, vars
<1>3. ASSUME NEW r \in Slots, Request(r)
      PROVE  /\ txn' = txn /\ store' = store
             /\ txn.slot # NoSlot => request'[txn.slot] = request[txn.slot]
  BY <1>1, <1>3 DEF Request
<1>4. ASSUME NEW r \in Slots, Begin(r)
      PROVE  /\ txn.slot = NoSlot /\ txn'.slot = r /\ request' = request /\ store' = store
             /\ txn'.began = clock
             /\ txn'.work = Prune(Loaded(store, clock).state, request[r])
  BY <1>4 DEF Begin, NoTxn
<1>5. ASSUME NEW e \in Events, Skip(e)
      PROVE  /\ txn.slot # NoSlot /\ txn'.slot = txn.slot /\ request' = request
             /\ store' = store /\ txn'.began = txn.began /\ txn'.work = txn.work
  BY <1>5 DEF Skip, Follows, Taken, IndInv, TypeOK
<1>6. ASSUME NEW e \in Events, Absorb(e)
      PROVE  /\ txn.slot # NoSlot /\ txn'.slot = txn.slot /\ request' = request
             /\ store' = store /\ txn'.began = txn.began
             /\ Timely(e, request[txn.slot]) /\ Admissible(txn.work, e)
             /\ txn'.work = Accept(txn.work, e)
  BY <1>6 DEF Absorb, Follows, Taken, IndInv, TypeOK
<1>7. ASSUME (\E e \in Events : Refuse(e)) \/ Rollback \/ OverQuota
      PROVE  store' = store /\ txn' = NoTxn
  BY <1>7 DEF Refuse, Rollback, OverQuota, Abandon
<1>8. ASSUME Commit
      PROVE  txn.slot # NoSlot /\ store'.state = Finish(txn.work) /\ txn' = NoTxn
  BY <1>8 DEF Commit
<1>9. ASSUME ReadState \/ PurgeExpired
      PROVE  txn.slot = NoSlot /\ store'.state = Empty /\ txn' = txn
  BY <1>9 DEF ReadState, PurgeExpired, DropExpired, BlankRow
<1>10. NoTxn.slot = NoSlot /\ NoTxn.work = Empty
  BY DEF NoTxn
<1>11. CASE \E r \in Slots : Request(r)
  BY <1>1, <1>3, <1>11
<1>12. CASE \E r \in Slots : Begin(r)
  BY <1>1, <1>4, <1>12
<1>13. CASE \E e \in Events : Skip(e)
  BY <1>1, <1>5, <1>13
<1>14. CASE \E e \in Events : Absorb(e)
  BY <1>1, <1>6, <1>14
<1>15. CASE \/ (\E e \in Events : Refuse(e)) \/ Rollback \/ OverQuota \/ Commit
            \/ ReadState \/ PurgeExpired
  BY <1>1, <1>7, <1>8, <1>9, <1>10, <1>15
<1> QED
  BY <1>2, <1>11, <1>12, <1>13, <1>14, <1>15 DEF Next

(* Every engine state is within the limits a transaction keeps, and the    *)
(* committed one forgets what MAX_DEDUP leaves no room for.                *)
SizedInv == /\ Sized(store.state) /\ Cardinality(store.state.dedup) <= MAX_DEDUP
            /\ Sized(txn.work)

(* Every step keeps the states within their limits.                        *)
LEMMA SizedStep == RoomForOpen /\ IndInv /\ SizedInv /\ [Next]_vars => SizedInv'
<1> SUFFICES ASSUME RoomForOpen, IndInv, SizedInv, [Next]_vars  PROVE SizedInv'
  OBVIOUS
<1>1. Sized(Empty) /\ Cardinality(Empty.dedup) <= MAX_DEDUP /\ GoodEngine(Empty)
  BY EmptySized, EmptyGood, FS_EmptySet, SizesAssumption DEF Empty
<1>2. ASSUME NEW now \in Int, NEW st \in {store.state, Empty}  PROVE Sized(Prune(st, now))
  BY <1>1, PruneSized DEF IndInv, SizedInv, GoodEngine
<1>3. ASSUME NEW e \in Events, Admissible(txn.work, e)  PROVE Sized(Accept(txn.work, e))
  BY <1>3, AcceptSized DEF IndInv, SizedInv
<1>4. Sized(Finish(txn.work)) /\ Cardinality(Finish(txn.work).dedup) <= MAX_DEDUP
  BY FinishSized DEF IndInv, SizedInv
<1> QED  BY <1>1, <1>2, <1>3, <1>4, EngineStep DEF SizedInv

(* It holds throughout.                                                    *)
LEMMA SizedHolds == RoomForOpen /\ StampedOnce => (Spec => [](IndInv /\ SizedInv))
<1> SUFFICES ASSUME RoomForOpen, StampedOnce  PROVE Spec => [](IndInv /\ SizedInv)
  OBVIOUS
<1>1. Init => SizedInv
  <2>1. Init => store.state = Empty /\ txn.work = Empty
    BY DEF Init, BlankRow, NoTxn
  <2>2. Empty.dedup = {}
    BY DEF Empty
  <2> QED  BY <2>1, <2>2, EmptySized, FS_EmptySet, SizesAssumption DEF SizedInv
<1>2. IndInv /\ SizedInv /\ [Next]_vars => (IndInv /\ SizedInv)'
  BY IndInvStep, SizedStep
<1> QED  BY <1>1, <1>2, IndInvInit, PTL DEF Spec

(* The evidence of every open incident has its baseline.                   *)
SupportedInv == Supported(store.state) /\ Supported(txn.work)

(* Every step keeps open incidents supported.                              *)
LEMMA SupportedStep ==
  MetricsApart /\ StampedOnce /\ IndInv /\ SupportedInv /\ [Next]_vars => SupportedInv'
<1> SUFFICES ASSUME MetricsApart, StampedOnce, IndInv, SupportedInv, [Next]_vars
             PROVE  SupportedInv'
  OBVIOUS
<1>1. Supported(Empty) /\ GoodEngine(Empty)
  BY EmptyGood DEF Supported, Empty
<1>2. ASSUME NEW now \in Int, NEW st \in {store.state, Empty}  PROVE Supported(Prune(st, now))
  BY <1>1, PruneSupported DEF IndInv, SupportedInv
<1>3. ASSUME NEW e \in Events, Admissible(txn.work, e)  PROVE Supported(Accept(txn.work, e))
  BY <1>3, AcceptSupported DEF IndInv, SupportedInv
<1>4. Supported(Finish(txn.work))
  BY FinishUntouched DEF IndInv, GoodEngine, SupportedInv, Supported
<1> QED  BY <1>1, <1>2, <1>3, <1>4, EngineStep DEF SupportedInv

(* A committed state lists at most MAX_STREAMS streams, MAX_INCIDENTS      *)
(* incidents and MAX_DEDUP events, none of them below replay_floor: however*)
(* many incidents a batch opens at the limit, a closed one makes room, and *)
(* what the floor rises to is never later than an event still kept.        *)
THEOREM LimitsCorrect == RoomForOpen /\ StampedOnce => (Spec => []WithinLimits)
<1>1. IndInv /\ SizedInv => WithinLimits
  BY DEF SizedInv, Sized, WithinLimits
<1> QED  BY <1>1, SizedHolds, PTL

(* A committed state lists at most MAX_STREAMS open incidents: each is the *)
(* active one of a stream of its own.                                      *)
THEOREM OpenCorrect == RoomForOpen /\ StampedOnce => (Spec => []OpenIncidentsBounded)
<1>1. IndInv /\ SizedInv => OpenIncidentsBounded
  <2> SUFFICES ASSUME IndInv, SizedInv  PROVE OpenIncidentsBounded
    OBVIOUS
  <2> DEFINE st    == store.state
             open  == {i \in st.incidents : i.status = "open"}
             hosts == DOMAIN st.streams
  <2>1. OpenIsActive(st) /\ IdsUnique(st) /\ IsFiniteSet(hosts) /\ Cardinality(hosts) <= MAX_STREAMS
    BY DEF IndInv, GoodEngine, SizedInv, Sized
  <2>2. open \subseteq st.incidents /\ \A i \in open : i.status = "open" /\ i.stream \in hosts
    BY <2>1 DEF OpenIsActive
  <2>3. OpenIncidentsBounded <=> Cardinality(open) <= MAX_STREAMS
    BY DEF OpenIncidentsBounded
  <2> HIDE DEF open, hosts, st
  <2>4. IsFiniteSet(open) /\ Cardinality(open) <= Cardinality(hosts)
    BY <2>1, <2>2, OpenBounded
  <2> QED  BY <2>1, <2>3, <2>4, FS_CardinalityType, SizesAssumption
<1> QED  BY <1>1, SizedHolds, PTL

(* While an incident is open, what its comparison signals are measured     *)
(* against is there: a full baseline, with enough known values of each     *)
(* metric in evidence.  _recovered never divides by an absent rate nor     *)
(* takes the median of nothing.                                            *)
THEOREM EvidenceCorrect == MetricsApart /\ StampedOnce => (Spec => []EvidenceHasBaseline)
<1> SUFFICES ASSUME MetricsApart, StampedOnce  PROVE Spec => []EvidenceHasBaseline
  OBVIOUS
<1>1. Init => SupportedInv
  BY DEF Init, BlankRow, NoTxn, SupportedInv, Supported, Empty
<1>2. IndInv /\ SupportedInv /\ [Next]_vars => (IndInv /\ SupportedInv)'
  BY IndInvStep, SupportedStep
<1>3. SupportedInv => EvidenceHasBaseline
  BY DEF SupportedInv, Supported, Evidenced, EvidenceHasBaseline, Engines
<1> QED  BY <1>1, <1>2, <1>3, IndInvInit, PTL DEF Spec

(* Every stream's windows are in order, in both engine states.             *)
WindowedInv == Windowed(store.state) /\ Windowed(txn.work)

(* Every step keeps them in order.                                         *)
LEMMA WindowedStep == IndInv /\ WindowedInv /\ [Next]_vars => WindowedInv'
<1> SUFFICES ASSUME IndInv, WindowedInv, [Next]_vars  PROVE WindowedInv'
  OBVIOUS
<1>1. Windowed(Empty) /\ GoodEngine(Empty)
  BY EmptyGood DEF Windowed, Empty
<1>2. ASSUME NEW now \in Int, NEW st \in {store.state, Empty}  PROVE Windowed(Prune(st, now))
  BY <1>1, PruneWindowed DEF IndInv, GoodEngine, WindowedInv
<1>3. ASSUME NEW e \in Events, Admissible(txn.work, e)  PROVE Windowed(Accept(txn.work, e))
  BY <1>3, AcceptWindowed DEF IndInv, WindowedInv
<1>4. Windowed(Finish(txn.work))
  BY FinishUntouched DEF IndInv, GoodEngine, WindowedInv, Windowed
<1> QED  BY <1>1, <1>2, <1>3, <1>4, EngineStep DEF WindowedInv

(* The windows of every reachable engine state.                            *)
LEMMA WindowedHolds == StampedOnce => (Spec => [](IndInv /\ WindowedInv))
<1> SUFFICES ASSUME StampedOnce  PROVE Spec => [](IndInv /\ WindowedInv)
  OBVIOUS
<1>1. Init => WindowedInv
  BY DEF Init, BlankRow, NoTxn, WindowedInv, Windowed, Empty
<1>2. IndInv /\ WindowedInv /\ [Next]_vars => (IndInv /\ WindowedInv)'
  BY IndInvStep, WindowedStep
<1> QED  BY <1>1, <1>2, IndInvInit, PTL DEF Spec

(* The two windows of a stream in order are one window in order, which its *)
(* last timestamp ends.                                                    *)
LEMMA InWindowRows ==
  ASSUME NEW s \in StreamRecord, InWindow(s), Latest(s)
  PROVE  LET rows == s.baseline \o s.current
         IN /\ rows # << >> /\ InOrder(rows) /\ rows[Len(rows)].ts = s.last
            /\ Labels(rows) \subseteq s.versions
<1> DEFINE rows == s.baseline \o s.current
<1>1. s.baseline \in Rows /\ s.current \in Rows /\ s.last \in Nat
  BY DEF StreamRecord, Rows
<1>2. rows \in Rows /\ InOrder(rows) /\ Held(rows) = Held(s.baseline) \cup Held(s.current)
  BY <1>1, Joined DEF InWindow
<1> HIDE DEF rows
<1>3. DOMAIN rows = 1..Len(rows) /\ Len(rows) \in Nat /\ Held(rows) \subseteq SampleRecord
  BY <1>2, HeldTyped
<1>4. PICK i \in 1..Len(rows) : rows[i].ts = s.last
  BY <1>2, <1>3 DEF Latest, Held
<1>5. rows # << >>
  BY <1>3, <1>4, HeldTyped
<1>6. Len(rows) \in 1..Len(rows) /\ rows[Len(rows)] \in Held(rows)
  BY <1>3, <1>4 DEF Held
<1>7. rows[Len(rows)].ts = s.last
  <2>1. rows[Len(rows)].ts <= s.last
    BY <1>2, <1>6 DEF InWindow
  <2>2. rows[Len(rows)].ts \in Nat
    BY <1>3, <1>6 DEF SampleRecord
  <2>3. CASE i = Len(rows)
    BY <1>4, <2>3
  <2>4. CASE i # Len(rows)
    <3>1. i < Len(rows)
      BY <1>3, <1>4, <2>4
    <3>2. rows[i].ts <= rows[Len(rows)].ts
      BY <1>2, <1>3, <1>4, <1>6, <3>1 DEF InOrder
    <3> QED  BY <1>1, <1>4, <2>1, <2>2, <3>2
  <2> QED  BY <2>3, <2>4
<1>8. Labels(rows) \subseteq s.versions
  <2>1. \A j \in DOMAIN rows : rows[j] \in Held(rows)
    BY DEF Held
  <2> QED  BY <1>2, <2>1 DEF Labels, InWindow
<1> QED  BY <1>2, <1>5, <1>7, <1>8 DEF rows

(* The baseline is absent or full, the windows of a stream follow one      *)
(* another in time and end at last_timestamp, and the version labels kept  *)
(* are within their limit and cover every sample - through sliding,        *)
(* recovery, expiry and rebuilding.                                        *)
THEOREM WindowsCorrect == StampedOnce => (Spec => []WindowsInOrder)
<1> SUFFICES ASSUME StampedOnce  PROVE Spec => []WindowsInOrder
  OBVIOUS
<1>1. IndInv /\ WindowedInv => WindowsInOrder
  <2> SUFFICES ASSUME IndInv, WindowedInv, NEW st \in Engines, NEW x \in DOMAIN st.streams
               PROVE  LET s    == st.streams[x]
                          rows == s.baseline \o s.current
                      IN /\ Len(s.baseline) \in {0, WINDOW} /\ Len(s.current) <= WINDOW
                         /\ rows # << >> /\ InOrder(rows) /\ rows[Len(rows)].ts = s.last
                         /\ Labels(rows) \subseteq s.versions
                         /\ Cardinality(s.versions) <= MAX_VERSIONS
    BY DEF WindowsInOrder
  <2>1. IsEngine(st) /\ Windowed(st)
    BY DEF IndInv, GoodEngine, WindowedInv, Engines
  <2>2. st.streams[x] \in StreamRecord /\ InWindow(st.streams[x]) /\ Latest(st.streams[x])
    BY <2>1, EngineParts DEF Windowed
  <2>3. LET s    == st.streams[x]
            rows == s.baseline \o s.current
        IN /\ rows # << >> /\ InOrder(rows) /\ rows[Len(rows)].ts = s.last
           /\ Labels(rows) \subseteq s.versions
    BY <2>2, InWindowRows
  <2> QED  BY <2>2, <2>3 DEF InWindow
<1> QED  BY <1>1, WindowedHolds, PTL

(* Every engine state dates its incidents soundly, and what the open       *)
(* transaction holds is recent for the request it serves.                  *)
LastingInv ==
  /\ Lasting(store.state) /\ Lasting(txn.work)
  /\ txn.slot # NoSlot => Recent(txn.work, request[txn.slot])

LEMMA LastingStep ==
  StampedOnce /\ IndInv /\ WindowedInv /\ LastingInv /\ [Next]_vars => LastingInv'
<1> SUFFICES ASSUME StampedOnce, IndInv, WindowedInv, LastingInv, [Next]_vars
             PROVE  LastingInv'
  OBVIOUS
<1>1. /\ Lasting(Empty) /\ Windowed(Empty) /\ GoodEngine(Empty)
      /\ GoodEngine(store.state) /\ GoodEngine(txn.work)
      /\ Windowed(store.state) /\ Windowed(txn.work)
      /\ Lasting(store.state) /\ Lasting(txn.work)
  BY EmptyGood DEF Lasting, Windowed, Empty, IndInv, WindowedInv, LastingInv
<1>2. Lasting(Finish(txn.work))
  BY <1>1, FinishUntouched DEF GoodEngine, Lasting
<1>3. Loaded(store, clock).state \in {store.state, Empty}
  BY DEF Loaded, BlankRow
<1>4. ASSUME NEW now \in Int, NEW st \in {store.state, Empty}
      PROVE  Lasting(Prune(st, now)) /\ Recent(Prune(st, now), now)
  BY <1>1, PruneLasting
<1>5. ASSUME NEW e \in Events, NEW now \in Int, Recent(txn.work, now),
             Timely(e, now), Admissible(txn.work, e)
      PROVE  Lasting(Accept(txn.work, e)) /\ Recent(Accept(txn.work, e), now)
  BY <1>1, <1>5, AcceptLasting
<1>6. Lasting(store'.state)
  BY <1>1, <1>2, WorkStep
<1>7. CASE txn'.slot = NoSlot
  <2>1. txn'.work \in {txn.work, Empty}
    BY <1>7, WorkStep
  <2> QED  BY <1>1, <1>6, <1>7, <2>1 DEF LastingInv
<1>8. CASE txn'.slot # NoSlot
  <2>1. /\ request'[txn'.slot] \in Int
        /\ \/ /\ txn'.slot = txn.slot /\ request'[txn.slot] = request[txn.slot]
              /\ txn'.work = txn.work
           \/ \E r \in Slots : /\ txn'.slot = r /\ request' = request
                               /\ txn'.work = Prune(Loaded(store, clock).state, request[r])
           \/ \E e \in Events :
                /\ txn'.slot = txn.slot /\ request' = request
                /\ Timely(e, request[txn.slot]) /\ Admissible(txn.work, e)
                /\ txn'.work = Accept(txn.work, e)
    BY <1>8, WorkStep
  <2>2. CASE /\ txn'.slot = txn.slot /\ request'[txn.slot] = request[txn.slot]
             /\ txn'.work = txn.work
    BY <1>1, <1>6, <1>8, <2>2 DEF LastingInv
  <2>3. CASE \E r \in Slots : /\ txn'.slot = r /\ request' = request
                              /\ txn'.work = Prune(Loaded(store, clock).state, request[r])
    BY <1>3, <1>4, <1>6, <2>1, <2>3 DEF LastingInv
  <2>4. CASE \E e \in Events :
               /\ txn'.slot = txn.slot /\ request' = request
               /\ Timely(e, request[txn.slot]) /\ Admissible(txn.work, e)
               /\ txn'.work = Accept(txn.work, e)
    <3>1. Recent(txn.work, request[txn.slot])
      BY <1>8, <2>4 DEF LastingInv
    <3> QED  BY <1>5, <1>6, <2>1, <2>4, <3>1 DEF LastingInv
  <2> QED  BY <2>1, <2>2, <2>3, <2>4
<1> QED  BY <1>7, <1>8

(* A recovered incident is resolved no earlier than it opened, and an      *)
(* expired one is stamped less than the clock skew before its onset.       *)
THEOREM ResolutionCorrect == StampedOnce => (Spec => []ResolutionAfterOnset)
<1> SUFFICES ASSUME StampedOnce  PROVE Spec => []ResolutionAfterOnset
  OBVIOUS
<1>1. Init => LastingInv
  BY DEF Init, BlankRow, NoTxn, LastingInv, Lasting, Empty
<1>2. IndInv /\ WindowedInv /\ LastingInv /\ [Next]_vars => LastingInv'
  BY LastingStep
<1>3. LastingInv => ResolutionAfterOnset
  BY DEF LastingInv, Lasting, ResolutionAfterOnset, Engines
<1> QED  BY <1>1, <1>2, <1>3, WindowedHolds, PTL DEF Spec

(* No reachable engine state keeps an incident open that has recovered.    *)
UnstuckInv == Unstuck(store.state) /\ Unstuck(txn.work)

LEMMA UnstuckStep ==
  StampedOnce /\ IndInv /\ WindowedInv /\ UnstuckInv /\ [Next]_vars => UnstuckInv'
<1> SUFFICES ASSUME StampedOnce, IndInv, WindowedInv, UnstuckInv, [Next]_vars
             PROVE  UnstuckInv'
  OBVIOUS
<1>1. Unstuck(Empty) /\ Windowed(Empty) /\ GoodEngine(Empty)
  BY EmptyGood DEF Unstuck, Windowed, Empty
<1>2. ASSUME NEW now \in Int, NEW st \in {store.state, Empty}  PROVE Unstuck(Prune(st, now))
  BY <1>1, PruneUnstuck DEF IndInv, WindowedInv, UnstuckInv
<1>3. ASSUME NEW e \in Events, Admissible(txn.work, e)  PROVE Unstuck(Accept(txn.work, e))
  BY <1>3, AcceptUnstuck DEF IndInv, UnstuckInv
<1>4. Unstuck(Finish(txn.work))
  BY FinishUntouched DEF IndInv, GoodEngine, UnstuckInv, Unstuck
<1> QED  BY <1>1, <1>2, <1>3, <1>4, EngineStep DEF UnstuckInv

(* Every change of a window under an open incident is judged at once, and  *)
(* pruning leaves no full window changed: at rest no incident is open with *)
(* its recovery criteria met.                                              *)
THEOREM RecoveryCorrect == StampedOnce => (Spec => []NoStuckIncident)
<1> SUFFICES ASSUME StampedOnce  PROVE Spec => []NoStuckIncident
  OBVIOUS
<1>1. Init => UnstuckInv
  BY DEF Init, BlankRow, NoTxn, UnstuckInv, Unstuck, Empty
<1>2. IndInv /\ WindowedInv /\ UnstuckInv /\ [Next]_vars => UnstuckInv'
  BY UnstuckStep
<1>3. UnstuckInv => NoStuckIncident
  BY DEF UnstuckInv, Unstuck, Stuck, NoStuckIncident
<1> QED  BY <1>1, <1>2, <1>3, WindowedHolds, PTL DEF Spec

(* One step of the transaction keeps what it must of every incident: what  *)
(* it drops is old, and an expired row held nothing young.                 *)
LEMMA PersistStep ==
  /\ StampedOnce /\ IndInv /\ Horizon /\ Forgettable /\ [Next]_vars
  /\ txn'.slot # NoSlot
  => IncidentsKept(IF txn.slot = NoSlot THEN store.state ELSE txn.work, txn'.work)
<1> DEFINE was == IF txn.slot = NoSlot THEN store.state ELSE txn.work
<1> SUFFICES ASSUME StampedOnce, IndInv, Horizon, Forgettable, [Next]_vars,
                    txn'.slot # NoSlot, NEW i \in was.incidents
             PROVE  /\ \/ Survives(i, txn'.work.incidents)
                       \/ i.status # "open" \/ i.opened <= clock - RETENTION
                    /\ i.status # "open" => Sealed(i, txn'.work.incidents)
  BY DEF IncidentsKept, Survives, Sealed
<1>1. /\ GoodEngine(store.state) /\ GoodEngine(txn.work) /\ GoodEngine(was)
      /\ clock \in Nat /\ RETENTION \in Nat
  BY SizesAssumption DEF IndInv, TypeOK
<1>2. i \in IncidentRecord
  BY <1>1, EngineParts DEF GoodEngine
<1>3. \/ txn'.slot = txn.slot /\ txn'.work = txn.work
      \/ \E r \in Slots : /\ txn.slot = NoSlot /\ request'[txn'.slot] \in Int
                          /\ txn'.slot = r /\ request' = request
                          /\ txn'.work = Prune(Loaded(store, clock).state, request[r])
      \/ \E e \in Events : /\ txn'.slot = txn.slot /\ Admissible(txn.work, e)
                           /\ txn'.work = Accept(txn.work, e)
  BY WorkStep
<1>4. CASE txn'.slot = txn.slot /\ txn'.work = txn.work
  <2>1. txn'.work = was
    BY <1>4
  <2> HIDE DEF was
  <2> QED  BY <1>1, <2>1 DEF Survives, Sealed, GoodEngine, IdsUnique
<1>5. ASSUME NEW r \in Slots, txn.slot = NoSlot, request[r] \in Int,
             txn'.work = Prune(Loaded(store, clock).state, request[r])
      PROVE  /\ \/ Survives(i, txn'.work.incidents)
                \/ i.status # "open" \/ i.opened <= clock - RETENTION
             /\ i.status # "open" => Sealed(i, txn'.work.incidents)
  <2>1. i \in store.state.incidents /\ i.opened \in Nat /\ request[r] <= clock
    BY <1>2, <1>5 DEF Horizon, IncidentRecord
  <2>2. CASE store.expires > clock
    <3>1. txn'.work = Prune(store.state, request[r])
      BY <1>5, <2>2 DEF Loaded
    <3>2. /\ i.opened > request[r] - RETENTION => Survives(i, txn'.work.incidents)
          /\ i.status # "open" => Sealed(i, txn'.work.incidents)
      BY <1>1, <1>5, <2>1, <3>1, PrunePersists
    <3> QED  BY <1>1, <1>5, <2>1, <3>2
  <2>3. CASE ~ (store.expires > clock)
    <3>1. store.expires <= clock
      BY <1>1, <2>3 DEF IndInv, TypeOK
    <3>2. i.opened <= clock - RETENTION
      BY <2>1, <3>1 DEF Forgettable, NothingRetained
    <3>3. Loaded(store, clock).state = Empty
      BY <2>3 DEF Loaded, BlankRow
    <3>4. txn'.work.incidents = {}
      BY <1>5, <3>3 DEF Prune, Empty
    <3> QED  BY <3>2, <3>4 DEF Sealed
  <2> QED  BY <2>2, <2>3
<1>6. ASSUME NEW e \in Events, txn.slot # NoSlot, Admissible(txn.work, e),
             txn'.work = Accept(txn.work, e)
      PROVE  /\ \/ Survives(i, txn'.work.incidents)
                \/ i.status # "open" \/ i.opened <= clock - RETENTION
             /\ i.status # "open" => Sealed(i, txn'.work.incidents)
  BY <1>1, <1>6, AcceptPersists
<1> HIDE DEF was
<1> QED  BY <1>3, <1>4, <1>5, <1>6

(* No step of a transaction drops an open incident that is young, loses    *)
(* evidence, or touches a closed one: with a grace period that covers the  *)
(* clock skew not even the expiry of the row does.                         *)
THEOREM PersistCorrect == StampedOnce /\ GRACE >= FUTURE => (Spec => IncidentsPersist)
<1> SUFFICES ASSUME StampedOnce, GRACE >= FUTURE  PROVE Spec => IncidentsPersist
  OBVIOUS
<1>1. IndInv /\ Horizon /\ Forgettable /\ [Next]_vars =>
        [txn'.slot # NoSlot =>
           IncidentsKept(IF txn.slot = NoSlot THEN store.state ELSE txn.work, txn'.work)]_txn
  BY PersistStep
<1>2. Spec => []Horizon
  <2>1. IndInv /\ Horizon /\ [Next]_vars => Horizon'
    BY HorizonStep
  <2> QED  BY <2>1, HorizonInit, Invariance, PTL DEF Spec
<1> QED  BY <1>1, <1>2, Invariance, RetentionLapses, PTL DEF Spec, IncidentsPersist

(* Between the row an open transaction found and its working copy no       *)
(* baseline moves under an incident.                                       *)
FrozenInv ==
  txn.slot # NoSlot =>
    LET row == Loaded(store, txn.began).state
    IN \A x \in DOMAIN row.streams : row.streams[x].active # None =>
         /\ Froze(row.streams[x], txn.work, x)
         /\ Spent(row.streams[x], txn.work, x, request[txn.slot])

LEMMA FrozenStep ==
  StampedOnce /\ IndInv /\ WindowedInv /\ FrozenInv /\ [Next]_vars => FrozenInv'
<1> SUFFICES ASSUME StampedOnce, IndInv, WindowedInv, FrozenInv, [Next]_vars,
                    txn'.slot # NoSlot
             PROVE  LET row == Loaded(store', txn'.began).state
                    IN \A x \in DOMAIN row.streams : row.streams[x].active # None =>
                         /\ Froze(row.streams[x], txn'.work, x)
                         /\ Spent(row.streams[x], txn'.work, x, request'[txn'.slot])
  BY DEF FrozenInv
<1>1. /\ GoodEngine(Loaded(store, clock).state) /\ GoodEngine(txn.work)
      /\ Windowed(Loaded(store, clock).state) /\ Windowed(txn.work)
  <2>1. Windowed(Empty)
    BY DEF Windowed, Empty
  <2> QED  BY <2>1, LoadedGood DEF Loaded, BlankRow, IndInv, WindowedInv
<1>2. /\ store' = store /\ request'[txn'.slot] \in Int
      /\ \/ /\ txn'.slot = txn.slot /\ request'[txn.slot] = request[txn.slot]
            /\ txn'.began = txn.began /\ txn'.work = txn.work
         \/ \E r \in Slots : /\ txn'.slot = r /\ request' = request /\ txn'.began = clock
                             /\ txn'.work = Prune(Loaded(store, clock).state, request[r])
         \/ \E e \in Events :
              /\ txn'.slot = txn.slot /\ request' = request /\ txn'.began = txn.began
              /\ Timely(e, request[txn.slot]) /\ Admissible(txn.work, e)
              /\ txn'.work = Accept(txn.work, e)
  BY WorkStep
<1>3. CASE /\ txn'.slot = txn.slot /\ request'[txn.slot] = request[txn.slot]
           /\ txn'.began = txn.began /\ txn'.work = txn.work
  BY <1>2, <1>3 DEF FrozenInv
<1>4. ASSUME NEW r \in Slots, txn'.slot = r, request' = request, txn'.began = clock,
             txn'.work = Prune(Loaded(store, clock).state, request[r])
      PROVE  LET row == Loaded(store', txn'.began).state
             IN \A x \in DOMAIN row.streams : row.streams[x].active # None =>
                  /\ Froze(row.streams[x], txn'.work, x)
                  /\ Spent(row.streams[x], txn'.work, x, request'[txn'.slot])
  BY <1>1, <1>2, <1>4, PruneFreezes
<1>5. ASSUME NEW e \in Events, txn'.slot = txn.slot, request' = request,
             txn'.began = txn.began, Timely(e, request[txn.slot]),
             Admissible(txn.work, e), txn'.work = Accept(txn.work, e)
      PROVE  LET row == Loaded(store', txn'.began).state
             IN \A x \in DOMAIN row.streams : row.streams[x].active # None =>
                  /\ Froze(row.streams[x], txn'.work, x)
                  /\ Spent(row.streams[x], txn'.work, x, request'[txn'.slot])
  <2> DEFINE row == Loaded(store, txn.began).state
  <2> SUFFICES ASSUME NEW x \in DOMAIN row.streams, row.streams[x].active # None
               PROVE  /\ Froze(row.streams[x], txn'.work, x)
                      /\ Spent(row.streams[x], txn'.work, x, request[txn.slot])
    BY <1>2, <1>5
  <2>1. /\ Froze(row.streams[x], txn.work, x)
        /\ Spent(row.streams[x], txn.work, x, request[txn.slot])
    BY <1>5 DEF FrozenInv
  <2> HIDE DEF row
  <2> QED  BY <1>1, <1>2, <1>5, <2>1, AcceptFreezes
<1> QED  BY <1>2, <1>3, <1>4, <1>5

(* While a stream's incident stays open its baseline does not move.        *)
THEOREM FrozenCorrect == StampedOnce => (Spec => BaselineFrozen)
<1> SUFFICES ASSUME StampedOnce  PROVE Spec => BaselineFrozen
  OBVIOUS
<1>1. Init => FrozenInv
  BY DEF Init, NoTxn, FrozenInv
<1>2. IndInv /\ WindowedInv /\ FrozenInv /\ [Next]_vars => FrozenInv'
  BY FrozenStep
<1>3. IndInv /\ FrozenInv /\ [Next]_vars =>
        [LET row == Loaded(store, txn.began).state
         IN \A x \in DOMAIN row.streams \cap DOMAIN store'.state.streams :
              LET s == row.streams[x]
                  t == store'.state.streams[x]
              IN s.active # None /\ t.active = s.active => t.baseline = s.baseline]_store
  <2> DEFINE row == Loaded(store, txn.began).state
  <2> SUFFICES ASSUME IndInv, FrozenInv, [Next]_vars, store' # store,
                      NEW x \in DOMAIN row.streams \cap DOMAIN store'.state.streams,
                      row.streams[x].active # None,
                      store'.state.streams[x].active = row.streams[x].active
               PROVE  store'.state.streams[x].baseline = row.streams[x].baseline
    OBVIOUS
  <2>1. store'.state = Empty \/ (txn.slot # NoSlot /\ store'.state = Finish(txn.work))
    BY WorkStep
  <2>2. store'.state # Empty
    BY DEF Empty
  <2>3. store'.state.streams = txn.work.streams /\ txn.slot # NoSlot
    BY <2>1, <2>2, FinishUntouched DEF IndInv, GoodEngine
  <2>4. Froze(row.streams[x], txn.work, x)
    BY <2>3 DEF FrozenInv
  <2> HIDE DEF row
  <2> QED  BY <2>3, <2>4 DEF Froze
<1> QED  BY <1>1, <1>2, <1>3, WindowedHolds, PTL DEF Spec, BaselineFrozen

(* A reader is told the same whether or not a write pruned the state on    *)
(* the way, even when that prune rebuilt a baseline or expired an incident.*)
THEOREM ReadersCorrect == StampedOnce => (Spec => []ReadersAgree)
<1> SUFFICES ASSUME StampedOnce  PROVE Spec => []ReadersAgree
  OBVIOUS
<1>1. IndInv /\ WindowedInv => ReadersAgree
  <2> SUFFICES ASSUME IndInv, WindowedInv,
                      NEW t1 \in clock..MaxClock + RETENTION,
                      NEW t2 \in t1..MaxClock + RETENTION
               PROVE  Summary(Prune(store.state, t1), t2) = Summary(store.state, t2)
    BY DEF ReadersAgree
  <2> DEFINE once  == Prune(store.state, t2)
             twice == Prune(Prune(store.state, t1), t2)
  <2>1. t1 \in Int /\ t2 \in Int /\ t1 <= t2
    BY IngestAssumption, SizesAssumption DEF IndInv, TypeOK
  <2>2. /\ twice.streams = once.streams /\ twice.incidents = once.incidents
        /\ twice.accepted = once.accepted
    BY <2>1, PruneTwice DEF IndInv, WindowedInv
  <2> HIDE DEF once, twice
  <2>3. \A st, now : Summary(st, now)
          = [streams   |-> [x \in DOMAIN Prune(st, now).streams |->
                              [shown        |-> Prune(st, now).streams[x],
                               status       |-> Status(Prune(st, now).streams[x]),
                               fingerprints |-> Fingerprints(Prune(st, now).streams[x])]],
             incidents |-> Prune(st, now).incidents, accepted |-> Prune(st, now).accepted]
    BY DEF Summary
  <2> QED  BY <2>2, <2>3 DEF once, twice
<1> QED  BY <1>1, WindowedHolds, PTL
=============================================================================
