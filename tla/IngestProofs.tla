---------------------------- MODULE IngestProofs ----------------------------
(***************************************************************************)
(* Proofs about Ingest for every value of its constants: types, the link   *)
(* between incidents and streams, expiry of the row, and - for requests    *)
(* that do not wait - replay and quota.                                    *)
(***************************************************************************)
EXTENDS Ingest, TLAPS, FiniteSetTheorems, SequenceTheorems

Rows == Seq(SampleRecord)

-----------------------------------------------------------------------------
(***************************************************************************)
(* Windows.                                                                *)
(***************************************************************************)

(* Dropping the stale rows of a window leaves a window.                    *)
LEMMA FreshType ==
  ASSUME NEW rows \in Rows, NEW cutoff \in Int
  PROVE  /\ Fresh(rows, cutoff) \in Rows
         /\ Len(Fresh(rows, cutoff)) \in Nat
         /\ Len(rows) = 0 => Len(Fresh(rows, cutoff)) = 0
<1> DEFINE stale == {i \in DOMAIN rows : rows[i].ts <= cutoff}
<1>1. DOMAIN rows = 1..Len(rows) /\ Len(rows) \in Nat
  BY LenProperties DEF Rows
<1>2. IsFiniteSet(stale) /\ Cardinality(stale) \in Nat
  <2>1. IsFiniteSet(1..Len(rows))
    BY <1>1, FS_Interval
  <2>2. stale \in SUBSET (1..Len(rows))
    BY <1>1
  <2>3. IsFiniteSet(stale)
    BY <2>1, <2>2, FS_Subset, Zenon
  <2> QED  BY <2>3, FS_CardinalityType, Zenon
<1>3. \A i \in Cardinality(stale) + 1 .. Len(rows) : rows[i] \in SampleRecord
  BY <1>1, <1>2, ElementOfSeq DEF Rows
<1>4. /\ SubSeq(rows, Cardinality(stale) + 1, Len(rows)) \in Seq(SampleRecord)
      /\ Len(SubSeq(rows, Cardinality(stale) + 1, Len(rows)))
           = IF Cardinality(stale) + 1 <= Len(rows)
             THEN Len(rows) - (Cardinality(stale) + 1) + 1 ELSE 0
  BY <1>1, <1>2, <1>3, SubSeqProperties
<1> QED  BY <1>1, <1>2, <1>4 DEF Fresh, Rows

(* Every part of a window is a window.                                     *)
LEMMA SubSeqType ==
  ASSUME NEW rows \in Rows, NEW m \in Nat \ {0}
  PROVE  /\ \A n \in 0..Len(rows) : SubSeq(rows, m, n) \in Rows
         /\ DOMAIN rows = 1..Len(rows) /\ Len(rows) \in Nat
<1>1. DOMAIN rows = 1..Len(rows) /\ Len(rows) \in Nat
  BY LenProperties DEF Rows
<1>2. ASSUME NEW n \in 0..Len(rows)  PROVE SubSeq(rows, m, n) \in Rows
  <2>1. \A i \in m..n : rows[i] \in SampleRecord
    BY <1>1, ElementOfSeq DEF Rows
  <2> QED  BY <2>1, <1>1, SubSeqProperties DEF Rows
<1> QED  BY <1>1, <1>2

(* So is its tail.                                                         *)
LEMMA LastNType ==
  ASSUME NEW rows \in Rows, NEW n \in Nat
  PROVE  LastN(rows, n) \in Rows
<1>1. Len(rows) \in Nat
  BY LenProperties DEF Rows
<1>2. CASE Len(rows) <= n  BY <1>2 DEF LastN
<1>3. CASE ~ (Len(rows) <= n)
  <2>1. Len(rows) - n + 1 \in Nat \ {0}
    BY <1>1, <1>3
  <2> QED  BY <1>1, <1>3, <2>1, SubSeqType DEF LastN
<1> QED  BY <1>2, <1>3

(* Trimming the version labels changes nothing else of a stream.           *)
LEMMA TrimType ==
  ASSUME NEW s \in StreamRecord
  PROVE  /\ TrimVersions(s) \in StreamRecord
         /\ TrimVersions(s).active = s.active
         /\ TrimVersions(s).last = s.last
         /\ TrimVersions(s).baseline = s.baseline
         /\ TrimVersions(s).current = s.current
BY DEF TrimVersions, StreamRecord

(* Pruning a live stream leaves a stream.                                  *)
LEMMA PruneStreamType ==
  ASSUME NEW s \in StreamRecord, NEW kept \in SUBSET IncidentRecord, NEW cutoff \in Int
  PROVE  /\ PruneStream(s, kept, cutoff) \in StreamRecord
         /\ PruneStream(s, kept, cutoff).last = s.last
         /\ PruneStream(s, kept, cutoff).active
              = IF Lapses(s, kept, cutoff) THEN None ELSE Linked(s, kept)
<1> DEFINE base == Fresh(s.baseline, cutoff)
           cur  == Fresh(s.current, cutoff)
           rows == base \o cur
           next == [s EXCEPT !.active = IF Lapses(s, kept, cutoff) THEN None
                                        ELSE Linked(s, kept)]
           slid == [next EXCEPT !.baseline = base, !.current = cur]
           rebuilt == [next EXCEPT
              !.baseline = IF Len(rows) >= WINDOW THEN SubSeq(rows, 1, WINDOW) ELSE << >>,
              !.current  = IF Len(rows) >= WINDOW THEN SubSeq(rows, WINDOW + 1, Len(rows)) ELSE rows]
<1>1. s.baseline \in Rows /\ s.current \in Rows
  BY DEF StreamRecord, Rows
<1>2. base \in Rows /\ cur \in Rows
  BY <1>1, FreshType
<1>3. rows \in Rows
  BY <1>2, ConcatProperties DEF Rows
<1>4. next \in StreamRecord
  BY DEF Linked, StreamRecord
<1>5. slid \in StreamRecord /\ slid.last = s.last /\ slid.active = next.active
  BY <1>2, <1>4 DEF StreamRecord, Rows
<1>6. rebuilt \in StreamRecord /\ rebuilt.last = s.last /\ rebuilt.active = next.active
  <2>1. << >> \in Rows
    BY EmptySeq DEF Rows
  <2>2. WINDOW \in Nat \ {0}
    BY SizesAssumption
  <2>3. Len(rows) >= WINDOW =>
          SubSeq(rows, 1, WINDOW) \in Rows /\ SubSeq(rows, WINDOW + 1, Len(rows)) \in Rows
    <3> HIDE DEF rows
    <3>1. Len(rows) \in Nat
      BY <1>3, LenProperties DEF Rows
    <3>2. WINDOW + 1 \in Nat \ {0} /\ 1 \in Nat \ {0}
      BY <2>2
    <3> QED  BY <1>3, <2>2, <3>1, <3>2, SubSeqType
  <2> HIDE DEF rows
  <2> QED  BY <1>3, <1>4, <2>1, <2>3 DEF StreamRecord, Rows
<1>7. PruneStream(s, kept, cutoff) = TrimVersions(IF ~Shrinks(s, cutoff) THEN slid ELSE rebuilt)
  BY DEF PruneStream
<1>8. next.active = IF Lapses(s, kept, cutoff) THEN None ELSE Linked(s, kept)
  BY DEF StreamRecord
<1> HIDE DEF slid, rebuilt, next
<1> QED  BY <1>5, <1>6, <1>7, <1>8, TrimType

-----------------------------------------------------------------------------
(***************************************************************************)
(* What holds of every engine state: its type, the links between incidents *)
(* and streams, and where the incidents come from.  None of these is       *)
(* inductive alone: IncidentOf has a type only because the link exists,    *)
(* the link survives acceptance only because no incident ID comes twice,   *)
(* and that because every onset is remembered.                             *)
(***************************************************************************)

(* An incident was opened by an event that dedup or replay_floor bars.     *)
OnsetsKnown(st) ==
  \A i \in st.incidents : \E e \in Events :
    /\ i.id = <<e.stream, e.id>> /\ i.stream = e.stream /\ i.opened = e.ts
    /\ e \in st.dedup \/ e.ts <= st.floor

OpenedByLast(st) ==
  \A i \in st.incidents : i.status = "open" /\ i.stream \in DOMAIN st.streams =>
    i.opened <= st.streams[i.stream].last

DedupBounded(st) == \E t \in Nat : \A d \in st.dedup : d.ts <= t

GoodEngine(st) ==
  /\ IsEngine(st)
  /\ ActiveIsOpen(st) /\ OpenIsActive(st) /\ IdsUnique(st)
  /\ OnsetsKnown(st) /\ OpenedByLast(st) /\ DedupBounded(st)

(* The parts of an engine state.                                           *)
LEMMA EngineParts ==
  ASSUME NEW st, IsEngine(st)
  PROVE  /\ DOMAIN st.streams \subseteq Streams
         /\ \A x \in DOMAIN st.streams : st.streams[x] \in StreamRecord
         /\ st.incidents \subseteq IncidentRecord
         /\ st.dedup \subseteq Events
         /\ st.floor \in Nat /\ st.accepted \in Nat
BY DEF IsEngine

(* And back: five parts of the right type make one.                        *)
LEMMA EngineFrom ==
  ASSUME NEW st,
         NEW live \in SUBSET Streams, NEW streams \in [live -> StreamRecord],
         NEW dedup \in SUBSET Events, NEW incidents \in SUBSET IncidentRecord,
         NEW floor \in Nat, NEW accepted \in Nat,
         st = [streams |-> streams, dedup |-> dedup, incidents |-> incidents,
               floor |-> floor, accepted |-> accepted]
  PROVE  IsEngine(st)
BY DEF IsEngine

(* A tenant without a row has a good state.                                *)
LEMMA EmptyGood == GoodEngine(Empty)
<1>1. IsEngine(Empty)
  <2>1. [x \in {} |-> 0] \in [{} -> StreamRecord]
    OBVIOUS
  <2> QED  BY <2>1 DEF IsEngine, Empty
<1> QED  BY <1>1 DEF GoodEngine, Empty, ActiveIsOpen, OpenIsActive, IdsUnique, OnsetsKnown, OpenedByLast, DedupBounded

(* No incident ID is the mark of a stream without incident.                *)
LEMMA IdNotNone == \A id \in IncidentIds : id # None
<1> SUFFICES ASSUME NEW x \in Streams, NEW n \in Nat  PROVE <<x, n>> # << >>
  BY DEF IncidentIds, None
<1>1. Len(<<x, n>>) = 2 /\ Len(<< >>) = 0
  OBVIOUS
<1> QED  BY <1>1

(* The incident a stream points at is the one of that ID.                  *)
LEMMA IncidentOfUnique ==
  ASSUME NEW incidents \in SUBSET IncidentRecord, NEW s, NEW i \in incidents,
         i.id = s.active, \A j \in incidents : j.id = i.id => j = i
  PROVE  IncidentOf(incidents, s) = i
<1>1. {j \in incidents : j.id = s.active} = {i}
  OBVIOUS
<1>2. i.nth \in Nat
  BY DEF IncidentRecord
<1> QED  BY <1>1, <1>2 DEF IncidentOf, First

(***************************************************************************)
(* _prune.                                                                 *)
(***************************************************************************)

(* Pruning keeps the links: expiry closes the incident of every stream it  *)
(* ends or rebuilds.                                                       *)
LEMMA PruneGood ==
  ASSUME NEW st, GoodEngine(st), NEW now \in Int
  PROVE  GoodEngine(Prune(st, now))
<1> DEFINE cutoff == now - RETENTION
           kept   == {i \in st.incidents : i.opened > cutoff}
           live   == {x \in DOMAIN st.streams : st.streams[x].last > cutoff}
           Expirer(i) == {x \in live : /\ Lapses(st.streams[x], kept, cutoff)
                                       /\ IncidentOf(kept, st.streams[x]) = i}
           Aged(i) == IF Expirer(i) = {} THEN i
                      ELSE LET x == CHOOSE x \in Expirer(i) : TRUE
                           IN Resolve(i, "expired", st.streams[x].baseline[1].ts + RETENTION)
           streams == [x \in live |-> PruneStream(st.streams[x], kept, cutoff)]
           dedup   == {d \in st.dedup : d.ts > cutoff}
           aged    == {Aged(i) : i \in kept}
<1>1. cutoff \in Int /\ RETENTION \in Nat
  BY SizesAssumption
<1> HIDE DEF cutoff
<1>2. /\ DOMAIN st.streams \subseteq Streams
      /\ \A x \in DOMAIN st.streams : st.streams[x] \in StreamRecord
      /\ st.incidents \subseteq IncidentRecord /\ st.dedup \subseteq Events
      /\ st.floor \in Nat /\ st.accepted \in Nat
  BY EngineParts DEF GoodEngine
<1>3. Prune(st, now) = [st EXCEPT !.streams = streams, !.dedup = dedup, !.incidents = aged]
  BY DEF Prune, cutoff
<1>4. Prune(st, now) = [streams |-> streams, dedup |-> dedup, incidents |-> aged,
                        floor |-> st.floor, accepted |-> st.accepted]
  BY <1>3 DEF GoodEngine, IsEngine
<1>5. /\ streams \in [live -> StreamRecord]
      /\ \A x \in live : /\ streams[x].last = st.streams[x].last
                         /\ streams[x].active
                              = IF Lapses(st.streams[x], kept, cutoff) THEN None
                                ELSE Linked(st.streams[x], kept)
  <2>1. kept \in SUBSET IncidentRecord
    BY <1>2
  <2>2. \A x \in live : /\ PruneStream(st.streams[x], kept, cutoff) \in StreamRecord
                        /\ PruneStream(st.streams[x], kept, cutoff).last = st.streams[x].last
                        /\ PruneStream(st.streams[x], kept, cutoff).active
                             = IF Lapses(st.streams[x], kept, cutoff) THEN None
                               ELSE Linked(st.streams[x], kept)
    <3> HIDE DEF kept
    <3> QED  BY <1>1, <1>2, <2>1, PruneStreamType
  <2> HIDE DEF kept, live
  <2> QED  BY <2>2
(* What ageing does to a listed incident.                                  *)
<1>6. ASSUME NEW i \in kept
      PROVE  /\ Aged(i) \in IncidentRecord
             /\ Aged(i).id = i.id /\ Aged(i).stream = i.stream /\ Aged(i).opened = i.opened
             /\ Expirer(i) = {} => Aged(i) = i
             /\ Expirer(i) # {} => Aged(i).status = "expired"
  <2>1. i \in IncidentRecord
    BY <1>2
  <2>2. CASE Expirer(i) = {}
    BY <2>1, <2>2
  <2>3. CASE Expirer(i) # {}
    <3>1. PICK x \in Expirer(i) : x = CHOOSE y \in Expirer(i) : TRUE
      BY <2>3
    <3>2. x \in live /\ Shrinks(st.streams[x], cutoff) /\ st.streams[x].baseline \in Rows
      BY <1>2, <3>1 DEF Lapses, StreamRecord, Rows
    <3>3. Len(st.streams[x].baseline) \in Nat \ {0}
      <4>1. Len(st.streams[x].baseline) \in Nat
        BY <3>2, LenProperties DEF Rows
      <4>2. Len(st.streams[x].baseline) # 0
        BY <1>1, <3>2, <4>1, FreshType DEF Shrinks
      <4> QED  BY <4>1, <4>2
    <3>4. st.streams[x].baseline[1] \in SampleRecord
      BY <3>2, <3>3, ElementOfSeq DEF Rows
    <3>5. st.streams[x].baseline[1].ts + RETENTION \in Int
      BY <1>1, <3>4 DEF SampleRecord
    <3>6. Aged(i) = Resolve(i, "expired", st.streams[x].baseline[1].ts + RETENTION)
      BY <2>3, <3>1
    <3> HIDE DEF Aged
    <3> QED  BY <2>1, <2>3, <3>5, <3>6 DEF Resolve, IncidentRecord
  <2> QED  BY <2>2, <2>3
<1> HIDE DEF Aged, streams
<1>7. IsEngine(Prune(st, now))
  <2>1. aged \in SUBSET IncidentRecord
    BY <1>6
  <2>2. live \in SUBSET Streams /\ dedup \in SUBSET Events
    BY <1>2
  <2> HIDE DEF aged, live, dedup, kept
  <2> QED  BY <1>2, <1>4, <1>5, <2>1, <2>2, EngineFrom
(* A kept incident and its stream.                                         *)
<1>8. ASSUME NEW i \in kept, NEW x \in live, st.streams[x].active = i.id
      PROVE  /\ IncidentOf(kept, st.streams[x]) = i
             /\ Linked(st.streams[x], kept) = i.id
             /\ i.status = "open" /\ i.stream = x
  <2>1. \A j \in kept : j.id = i.id => j = i
    BY DEF GoodEngine, IdsUnique
  <2>2. kept \in SUBSET IncidentRecord
    BY <1>2
  <2>3. st.streams[x].active # None
    BY <1>8, <2>2, IdNotNone DEF IncidentRecord
  <2>4. PICK j \in st.incidents : /\ j.id = st.streams[x].active
                                  /\ j.stream = x /\ j.status = "open"
    BY <2>3 DEF GoodEngine, ActiveIsOpen
  <2>5. j = i
    BY <1>8, <2>4 DEF GoodEngine, IdsUnique
  <2>6. Linked(st.streams[x], kept) = i.id
    BY <1>8 DEF Linked
  <2>7. IncidentOf(kept, st.streams[x]) = i
    <3> HIDE DEF kept
    <3> QED  BY <1>8, <2>1, <2>2, IncidentOfUnique
  <2> QED  BY <2>4, <2>5, <2>6, <2>7
<1>9. ActiveIsOpen(Prune(st, now))
  <2> SUFFICES ASSUME NEW x \in live, streams[x].active # None
               PROVE  \E j \in aged : /\ j.id = streams[x].active
                                      /\ j.stream = x /\ j.status = "open"
    BY <1>4, <1>5 DEF ActiveIsOpen
  <2>1. ~Lapses(st.streams[x], kept, cutoff) /\ Linked(st.streams[x], kept) # None
    BY <1>5
  <2>2. PICK i \in kept : i.id = st.streams[x].active /\ streams[x].active = i.id
    BY <1>5, <2>1 DEF Linked
  <2>3. i.status = "open" /\ i.stream = x
    BY <1>8, <2>2
  <2>4. Expirer(i) = {}
    <3> SUFFICES ASSUME NEW y \in Expirer(i)  PROVE FALSE
      OBVIOUS
    <3>1. y \in live /\ Lapses(st.streams[y], kept, cutoff) /\ IncidentOf(kept, st.streams[y]) = i
      OBVIOUS
    <3>2. PICK j \in kept : j.id = st.streams[y].active
      BY <3>1 DEF Lapses, Linked
    <3>3. j = i /\ j.stream = y
      BY <1>8, <3>1, <3>2
    <3> QED  BY <2>1, <2>3, <3>1, <3>3
  <2>5. Aged(i) = i /\ Aged(i) \in aged
    BY <1>6, <2>4
  <2> QED  BY <2>2, <2>3, <2>5
<1>10. OpenIsActive(Prune(st, now)) /\ OpenedByLast(Prune(st, now))
  <2> SUFFICES ASSUME NEW i \in kept, Aged(i).status = "open"
               PROVE  /\ i.stream \in live /\ streams[i.stream].active = i.id
                      /\ i.opened <= streams[i.stream].last
    <3>1. DOMAIN streams = live
      BY <1>5
    <3> QED  BY <1>4, <1>6, <3>1 DEF OpenIsActive, OpenedByLast
  <2>1. Expirer(i) = {} /\ i.status = "open"
    BY <1>6
  <2>2. /\ i.stream \in DOMAIN st.streams /\ st.streams[i.stream].active = i.id
        /\ i.opened <= st.streams[i.stream].last
    BY <2>1 DEF GoodEngine, OpenIsActive, OpenedByLast
  <2>3. i.opened \in Nat /\ st.streams[i.stream].last \in Nat
    BY <1>2, <2>2 DEF IncidentRecord, StreamRecord
  <2>4. i.stream \in live
    BY <1>1, <2>2, <2>3
  <2>5. IncidentOf(kept, st.streams[i.stream]) = i /\ Linked(st.streams[i.stream], kept) = i.id
    BY <1>8, <2>2, <2>4
  <2>6. ~Lapses(st.streams[i.stream], kept, cutoff)
    BY <2>1, <2>4, <2>5
  <2> QED  BY <1>5, <2>2, <2>4, <2>5, <2>6
<1>11. IdsUnique(Prune(st, now))
  <2> SUFFICES ASSUME NEW i \in kept, NEW j \in kept, Aged(i).id = Aged(j).id
               PROVE  Aged(i) = Aged(j)
    BY <1>4 DEF IdsUnique
  <2>1. i.id = j.id
    BY <1>6
  <2> QED  BY <2>1 DEF GoodEngine, IdsUnique
<1>12. OnsetsKnown(Prune(st, now))
  <2> SUFFICES ASSUME NEW i \in kept
               PROVE  \E e \in Events :
                        /\ i.id = <<e.stream, e.id>> /\ i.stream = e.stream /\ i.opened = e.ts
                        /\ e \in dedup \/ e.ts <= st.floor
    BY <1>4, <1>6 DEF OnsetsKnown
  <2>1. PICK e \in Events :
               /\ i.id = <<e.stream, e.id>> /\ i.stream = e.stream /\ i.opened = e.ts
               /\ e \in st.dedup \/ e.ts <= st.floor
    BY DEF GoodEngine, OnsetsKnown
  <2>2. e \in st.dedup => e \in dedup
    BY <2>1
  <2> QED  BY <2>1, <2>2
<1>13. DedupBounded(Prune(st, now))
  BY <1>4 DEF GoodEngine, DedupBounded
<1> QED  BY <1>7, <1>9, <1>10, <1>11, <1>12, <1>13 DEF GoodEngine

(***************************************************************************)
(* The incident list.                                                      *)
(***************************************************************************)

(* A finite set of numbers has a smallest one.                             *)
LEMMA SmallestOf ==
  ASSUME NEW T \in SUBSET Nat, T # {}
  PROVE  \E m \in T : \A n \in T : m <= n
<1> DEFINE less == OpToRel(<, Nat)
<1>1. \E m \in T : \A n \in T : ~ (<<n, m>> \in less)
  BY NatLessThanWellFounded, WFMin, Zenon
<1>2. \A m, n \in Nat : n < m => <<n, m>> \in less
  BY Zenon DEF OpToRel
<1> HIDE DEF less
<1>3. PICK m \in T : \A n \in T : ~ (<<n, m>> \in less)
  BY <1>1
<1>4. \A n \in T : ~ (n < m)
  BY <1>2, <1>3, Zenon
<1>5. \A n \in T : m <= n
  BY <1>4
<1> QED  BY <1>5

(* The incident evicted is one of those it is chosen from.                 *)
LEMMA FirstIn ==
  ASSUME NEW S \in SUBSET IncidentRecord, S # {}
  PROVE  First(S) \in S
<1> DEFINE T == {i.nth : i \in S}
<1>1. T \in SUBSET Nat /\ T # {}
  BY DEF IncidentRecord
<1>2. \E m \in T : \A n \in T : m <= n
  <2> HIDE DEF T
  <2> QED  BY <1>1, SmallestOf
<1>3. \E i \in S : \A j \in S : i.nth <= j.nth
  BY <1>2
<1> QED  BY <1>3 DEF First

(* Making room takes nothing that is open.                                 *)
LEMMA MakeRoomKeepsOpen ==
  ASSUME NEW S \in SUBSET IncidentRecord
  PROVE  /\ MakeRoom(S) \subseteq S
         /\ \A i \in S : i.status = "open" => i \in MakeRoom(S)
<1> DEFINE closed == {i \in S : i.status # "open"}
<1>1. closed \in SUBSET IncidentRecord /\ (closed # {} => First(closed) \in closed)
  <2>1. closed \in SUBSET IncidentRecord
    OBVIOUS
  <2> HIDE DEF closed
  <2> QED  BY <2>1, FirstIn
<1> QED  BY <1>1 DEF MakeRoom

-----------------------------------------------------------------------------
(***************************************************************************)
(* One accepted event.                                                     *)
(***************************************************************************)

(* The parts of an event that may be sent.                                 *)
LEMMA EventParts ==
  ASSUME NEW e \in Events
  PROVE  /\ e.id \in Nat /\ e.ts \in Nat /\ e.stream \in Streams
         /\ e.version \in Versions /\ Sample(e) \in SampleRecord
BY IngestAssumption DEF EventRecord, Sample, SampleRecord

(* An event is judged in a stream.                                         *)
LEMMA StreamForType ==
  ASSUME NEW st, IsEngine(st), NEW e \in Events
  PROVE  /\ StreamFor(st, e) \in StreamRecord
         /\ e.stream \in DOMAIN st.streams =>
              /\ StreamFor(st, e).active = st.streams[e.stream].active
              /\ StreamFor(st, e).last = st.streams[e.stream].last
         /\ e.stream \notin DOMAIN st.streams => StreamFor(st, e).active = None
<1>1. NewStream(e) \in StreamRecord /\ NewStream(e).active = None
  BY EventParts, EmptySeq DEF NewStream, StreamRecord
<1>2. e.stream \in DOMAIN st.streams => st.streams[e.stream] \in StreamRecord
  BY EngineParts
<1> QED  BY <1>1, <1>2, TrimType DEF StreamFor

(* Pushing a sample keeps it one,                                          *)
LEMMA PushType ==
  ASSUME NEW s \in StreamRecord, NEW e \in Events
  PROVE  /\ Push(s, e) \in StreamRecord
         /\ Push(s, e).active = s.active /\ Push(s, e).last = e.ts
<1> DEFINE full  == Len(s.current) = WINDOW
           slide == full /\ s.active = None /\ s.baseline # << >>
           base  == IF slide THEN LastN(Append(s.baseline, s.current[1]), WINDOW) ELSE s.baseline
           rest  == IF full THEN Tail(s.current) ELSE s.current
           cur   == Append(rest, Sample(e))
<1>1. s.baseline \in Rows /\ s.current \in Rows /\ WINDOW \in Nat \ {0}
  BY SizesAssumption DEF StreamRecord, Rows
<1>2. full => s.current # << >> /\ s.current[1] \in SampleRecord
  <2>1. Len(<< >>) = 0
    OBVIOUS
  <2> QED  BY <1>1, <2>1, ElementOfSeq DEF Rows
<1>3. base \in Rows
  <2>1. full => Append(s.baseline, s.current[1]) \in Rows
    BY <1>1, <1>2, AppendProperties DEF Rows
  <2> QED  BY <1>1, <2>1, LastNType
<1>4. rest \in Rows
  BY <1>1, <1>2, HeadTailProperties DEF Rows
<1>5. cur \in Rows
  <2> HIDE DEF rest
  <2> QED  BY <1>4, EventParts, AppendProperties DEF Rows
<1>6. Push(s, e) = [s EXCEPT !.versions = @ \cup {e.version}, !.baseline = base,
                             !.current = cur, !.last = e.ts]
  BY DEF Push
<1> HIDE DEF base, cur
<1>7. /\ s.versions \cup {e.version} \in SUBSET Versions /\ e.ts \in Nat
      /\ base \in Seq(SampleRecord) /\ cur \in Seq(SampleRecord)
  BY <1>3, <1>5, EventParts DEF StreamRecord, Rows
<1> QED  BY <1>6, <1>7 DEF StreamRecord

(* and so does graduating its first WINDOW samples to the baseline.        *)
LEMMA GraduateType ==
  ASSUME NEW s \in StreamRecord
  PROVE  /\ Graduate(s) \in StreamRecord
         /\ Graduate(s).active = s.active /\ Graduate(s).last = s.last
BY EmptySeq DEF Graduate, StreamRecord

(* The state after event e: its stream and the incident list are replaced, *)
(* every other stream is left alone.                                       *)
Replaced(st, e, s, incidents) ==
  [streams   |-> [x \in DOMAIN st.streams \cup {e.stream} |->
                    IF x = e.stream THEN s ELSE st.streams[x]],
   dedup     |-> st.dedup \cup {e},
   incidents |-> incidents,
   floor     |-> st.floor,
   accepted  |-> st.accepted + 1]

(* What the replacements must satisfy for the whole state to stay good.    *)
Fits(st, e, s, incidents) ==
  /\ s \in StreamRecord /\ s.last = e.ts
  /\ incidents \in SUBSET IncidentRecord
  /\ \A i \in incidents : i \in st.incidents \/ i.stream = e.stream
  /\ \A i \in st.incidents : i.status = "open" /\ i.stream # e.stream => i \in incidents
  /\ \A i \in incidents : i.stream = e.stream /\ i.status = "open" =>
       s.active = i.id /\ i.opened <= e.ts
  /\ s.active # None => \E i \in incidents :
       i.id = s.active /\ i.stream = e.stream /\ i.status = "open"
  /\ \A i, j \in incidents : i.id = j.id => i = j
  /\ \A i \in incidents : \E d \in Events :
       /\ i.id = <<d.stream, d.id>> /\ i.stream = d.stream /\ i.opened = d.ts
       /\ d \in st.dedup \cup {e} \/ d.ts <= st.floor

(* They are enough.                                                        *)
LEMMA Replace ==
  ASSUME NEW st, GoodEngine(st), NEW e \in Events, NEW s, NEW incidents,
         Fits(st, e, s, incidents)
  PROVE  GoodEngine(Replaced(st, e, s, incidents))
<1> DEFINE next == Replaced(st, e, s, incidents)
           live == DOMAIN st.streams \cup {e.stream}
           streams == [x \in live |-> IF x = e.stream THEN s ELSE st.streams[x]]
<1>0. /\ next = [streams |-> streams, dedup |-> st.dedup \cup {e}, incidents |-> incidents,
                 floor |-> st.floor, accepted |-> st.accepted + 1]
      /\ next.streams = streams /\ DOMAIN next.streams = live
      /\ next.incidents = incidents /\ next.dedup = st.dedup \cup {e}
      /\ next.floor = st.floor
  BY DEF Replaced
<1> HIDE DEF next
<1> USE DEF Fits
<1>1. /\ DOMAIN st.streams \subseteq Streams
      /\ \A x \in DOMAIN st.streams : st.streams[x] \in StreamRecord
      /\ st.incidents \subseteq IncidentRecord /\ st.dedup \subseteq Events
      /\ st.floor \in Nat /\ st.accepted \in Nat
  BY EngineParts DEF GoodEngine
<1>2. IsEngine(next)
  <2>1. streams \in [live -> StreamRecord] /\ live \in SUBSET Streams
    BY <1>1, EventParts
  <2>2. st.dedup \cup {e} \in SUBSET Events /\ st.accepted + 1 \in Nat
    BY <1>1
  <2> HIDE DEF streams, live
  <2> QED  BY <1>0, <1>1, <2>1, <2>2, EngineFrom
<1>3. ActiveIsOpen(next)
  <2>1. ASSUME NEW x \in live, streams[x].active # None
        PROVE  \E i \in incidents : /\ i.id = streams[x].active
                                    /\ i.stream = x /\ i.status = "open"
    <3>1. CASE x = e.stream
      BY <2>1, <3>1
    <3>2. CASE x # e.stream
      <4>1. x \in DOMAIN st.streams /\ streams[x] = st.streams[x]
        BY <3>2
      <4>2. PICK i \in st.incidents : i.id = st.streams[x].active /\ i.stream = x /\ i.status = "open"
        BY <2>1, <4>1 DEF GoodEngine, ActiveIsOpen
      <4> QED  BY <3>2, <4>1, <4>2
    <3> QED  BY <3>1, <3>2
  <2> HIDE DEF streams, live
  <2> QED  BY <1>0, <2>1 DEF ActiveIsOpen
<1>4. OpenIsActive(next) /\ OpenedByLast(next)
  <2> SUFFICES ASSUME NEW i \in incidents, i.status = "open"
               PROVE  /\ i.stream \in live /\ streams[i.stream].active = i.id
                      /\ i.opened <= streams[i.stream].last
    <3> HIDE DEF streams, live
    <3> QED  BY <1>0 DEF OpenIsActive, OpenedByLast
  <2>1. CASE i.stream = e.stream  BY <2>1
  <2>2. CASE i.stream # e.stream
    BY <2>2 DEF GoodEngine, OpenIsActive, OpenedByLast
  <2> QED  BY <2>1, <2>2
<1>5. IdsUnique(next) /\ OnsetsKnown(next)
  <2> HIDE DEF streams, live
  <2> QED  BY <1>0 DEF IdsUnique, OnsetsKnown
<1>6. DedupBounded(next)
  <2>1. PICK t \in Nat : \A d \in st.dedup : d.ts <= t
    BY DEF GoodEngine, DedupBounded
  <2>2. \A d \in st.dedup \cup {e} : d.ts <= Greater(t, e.ts)
    <3>1. \A d \in st.dedup : d.ts \in Nat
      BY <1>1, EventParts
    <3> QED  BY <2>1, <3>1, EventParts DEF Greater
  <2>3. Greater(t, e.ts) \in Nat
    BY EventParts DEF Greater
  <2> QED  BY <1>0, <2>2, <2>3 DEF DedupBounded
<1>7. GoodEngine(next)
  BY <1>2, <1>3, <1>4, <1>5, <1>6 DEF GoodEngine
<1> QED  BY <1>7 DEF next

(* Accept puts the judged and graduated stream in its place.               *)
LEMMA AcceptShape ==
  ASSUME NEW st, IsEngine(st), NEW e \in Events,
         NEW seen, seen = Evaluate(st, e, Push(StreamFor(st, e), e))
  PROVE  Accept(st, e) = Replaced(st, e, Graduate(seen.stream), seen.incidents)
<1> DEFINE streams == [x \in DOMAIN st.streams \cup {e.stream} |->
                        IF x = e.stream THEN Graduate(seen.stream) ELSE st.streams[x]]
<1>1. Accept(st, e) = [st EXCEPT !.streams = streams, !.dedup = @ \cup {e},
                                 !.incidents = seen.incidents, !.accepted = @ + 1]
  BY Zenon DEF Accept
<1>2. PICK live \in SUBSET Streams :
        st \in [streams : [live -> StreamRecord], dedup : SUBSET Events,
               incidents : SUBSET IncidentRecord, floor : Nat, accepted : Nat]
  BY DEF IsEngine
<1> HIDE DEF streams
<1>3. Accept(st, e) = [streams |-> streams, dedup |-> st.dedup \cup {e},
                       incidents |-> seen.incidents, floor |-> st.floor,
                       accepted |-> st.accepted + 1]
  BY <1>1, <1>2
<1> QED  BY <1>3 DEF streams, Replaced

(* Opening an incident, or not, leaves the links good.                     *)
LEMMA DetectGood ==
  ASSUME NEW st, GoodEngine(st), NEW e \in Events, Admissible(st, e), StampedOnce,
         Push(StreamFor(st, e), e).active = None
  PROVE  GoodEngine(Accept(st, e))
<1> DEFINE p     == Push(StreamFor(st, e), e)
           found == OpenIncident(st, e, Signals(p))
           seen  == Evaluate(st, e, p)
           room  == MakeRoom(st.incidents)
<1>1. IsEngine(st) /\ p \in StreamRecord /\ p.last = e.ts /\ p.active = None
  BY StreamForType, PushType DEF GoodEngine
<1>2. seen = Detect(st, e, p)
  BY <1>1 DEF Evaluate
(* No open incident is on this stream.                                     *)
<1>3. \A i \in st.incidents : i.status = "open" => i.stream # e.stream
  <2> SUFFICES ASSUME NEW i \in st.incidents, i.status = "open", i.stream = e.stream
               PROVE  FALSE
    OBVIOUS
  <2>1. e.stream \in DOMAIN st.streams /\ st.streams[e.stream].active = i.id
    BY DEF GoodEngine, OpenIsActive
  <2>2. StreamFor(st, e) \in StreamRecord /\ StreamFor(st, e).active = i.id
    BY <1>1, <2>1, StreamForType
  <2>3. p.active = i.id
    BY <2>2, PushType
  <2>4. i.id \in IncidentIds
    BY <1>1, EngineParts DEF IncidentRecord
  <2> QED  BY <1>1, <2>3, <2>4, IdNotNone
<1> HIDE DEF p, seen
<1>4. CASE Signals(p) = {}
  <2>1. seen.incidents = st.incidents /\ seen.stream = p
    BY <1>2, <1>4 DEF Detect
  <2>2. Graduate(p) \in StreamRecord /\ Graduate(p).active = None /\ Graduate(p).last = e.ts
    BY <1>1, GraduateType
  <2>3. st.incidents \in SUBSET IncidentRecord
    BY <1>1, EngineParts
  <2>4. \A i \in st.incidents : \E d \in Events :
          /\ i.id = <<d.stream, d.id>> /\ i.stream = d.stream /\ i.opened = d.ts
          /\ d \in st.dedup \cup {e} \/ d.ts <= st.floor
    BY DEF GoodEngine, OnsetsKnown
  <2>5. \A i, j \in st.incidents : i.id = j.id => i = j
    BY DEF GoodEngine, IdsUnique
  <2>6. Accept(st, e) = Replaced(st, e, Graduate(p), st.incidents)
    BY <1>1, <2>1, AcceptShape DEF seen, p
  <2>7. \A i \in st.incidents : i.stream = e.stream /\ i.status = "open" =>
          Graduate(p).active = i.id /\ i.opened <= e.ts
    BY <1>3
  <2>8. Fits(st, e, Graduate(p), st.incidents)
    BY <2>2, <2>3, <2>4, <2>5, <2>7 DEF Fits
  <2> QED  BY <2>6, <2>8, Replace
<1>5. CASE Signals(p) # {}
  <2>1. /\ seen.incidents = room \cup {found}
        /\ seen.stream = [p EXCEPT !.active = found.id]
    BY <1>2, <1>5 DEF Detect
  <2>2. /\ found \in IncidentRecord /\ found.id = <<e.stream, e.id>> /\ found.id \in IncidentIds
        /\ found.stream = e.stream /\ found.status = "open" /\ found.opened = e.ts
    <3>1. st.accepted \in Nat
      BY <1>1, EngineParts
    <3> QED  BY <3>1, EventParts DEF OpenIncident, IncidentRecord, IncidentIds, Signals, Unresolved
  <2>3. seen.stream \in StreamRecord /\ seen.stream.active = found.id /\ seen.stream.last = e.ts
    BY <1>1, <2>1, <2>2 DEF StreamRecord
  <2>4. /\ Graduate(seen.stream) \in StreamRecord
        /\ Graduate(seen.stream).active = found.id /\ Graduate(seen.stream).last = e.ts
    BY <2>3, GraduateType
  <2>5. /\ st.incidents \in SUBSET IncidentRecord
        /\ room \subseteq st.incidents
        /\ \A i \in st.incidents : i.status = "open" => i \in room
    BY <1>1, EngineParts, MakeRoomKeepsOpen
  (* The event is new, so is the ID of its incident.                       *)
  <2>6. \A i \in st.incidents : i.id # found.id
    <3> SUFFICES ASSUME NEW i \in st.incidents, i.id = found.id  PROVE FALSE
      OBVIOUS
    <3>1. PICK d \in Events : /\ i.id = <<d.stream, d.id>>
                              /\ d \in st.dedup \/ d.ts <= st.floor
      BY DEF GoodEngine, OnsetsKnown
    <3>2. d.id = e.id
      BY <2>2, <3>1
    <3>3. d.ts = e.ts
      BY <3>2 DEF StampedOnce
    <3>4. e.ts > st.floor /\ d \notin st.dedup
      BY <3>2 DEF Admissible
    <3>5. e.ts \in Nat /\ st.floor \in Nat
      BY <1>1, EngineParts, EventParts
    <3> QED  BY <3>1, <3>3, <3>4, <3>5
  <2> HIDE DEF found, room
  <2>7. \A i, j \in room \cup {found} : i.id = j.id => i = j
    BY <2>5, <2>6 DEF GoodEngine, IdsUnique
  <2>8. \A i \in room \cup {found} : \E d \in Events :
          /\ i.id = <<d.stream, d.id>> /\ i.stream = d.stream /\ i.opened = d.ts
          /\ d \in st.dedup \cup {e} \/ d.ts <= st.floor
    BY <2>2, <2>5 DEF GoodEngine, OnsetsKnown
  <2>9. Accept(st, e) = Replaced(st, e, Graduate(seen.stream), room \cup {found})
    <3>1. Accept(st, e) = Replaced(st, e, Graduate(seen.stream), seen.incidents)
      BY <1>1, AcceptShape DEF seen, p
    <3> QED  BY <2>1, <3>1
  <2>10. room \cup {found} \in SUBSET IncidentRecord
    BY <2>2, <2>5
  <2>11. \A i \in room \cup {found} : i \in st.incidents \/ i.stream = e.stream
    BY <2>2, <2>5
  <2>12. \A i \in st.incidents : i.status = "open" /\ i.stream # e.stream =>
            i \in room \cup {found}
    BY <2>5
  <2>13. \A i \in room \cup {found} : i.stream = e.stream /\ i.status = "open" =>
            Graduate(seen.stream).active = i.id /\ i.opened <= e.ts
    <3>1. e.ts <= e.ts
      BY EventParts
    <3> QED  BY <1>3, <2>2, <2>4, <2>5, <3>1
  <2>14. \E i \in room \cup {found} : /\ i.id = Graduate(seen.stream).active
                                      /\ i.stream = e.stream /\ i.status = "open"
    BY <2>2, <2>4
  <2> HIDE DEF seen
  <2>15. Fits(st, e, Graduate(seen.stream), room \cup {found})
    BY <2>4, <2>7, <2>8, <2>10, <2>11, <2>12, <2>13, <2>14 DEF Fits
  <2> QED  BY <2>9, <2>15, Replace
<1> QED  BY <1>4, <1>5

(* So does extending or resolving the active one.                          *)
LEMMA FollowGood ==
  ASSUME NEW st, GoodEngine(st), NEW e \in Events, Admissible(st, e),
         Push(StreamFor(st, e), e).active # None
  PROVE  GoodEngine(Accept(st, e))
<1> DEFINE p     == Push(StreamFor(st, e), e)
           seen  == Evaluate(st, e, p)
           g     == Graduate(seen.stream)
<1>1. /\ IsEngine(st) /\ p \in StreamRecord /\ p.last = e.ts
      /\ e.stream \in DOMAIN st.streams /\ p.active = st.streams[e.stream].active
      /\ st.streams[e.stream].last <= e.ts
  BY StreamForType, PushType, EventParts DEF GoodEngine, Admissible
<1>2. PICK i \in st.incidents : i.id = p.active /\ i.stream = e.stream /\ i.status = "open"
  BY <1>1 DEF GoodEngine, ActiveIsOpen
<1> DEFINE after  == [i EXCEPT !.signals = @ \cup Signals(p)]
           over   == Recovered(p, after) /\ Signals(p) = {}
           closed == Resolve(after, "resolved", e.ts)
           now    == IF over THEN closed ELSE after
           incidents == (st.incidents \ {i}) \cup {now}
<1>3. /\ st.incidents \in SUBSET IncidentRecord /\ i \in IncidentRecord
      /\ st.streams[e.stream] \in StreamRecord
  BY <1>1, EngineParts
<1>4. i.opened <= e.ts
  <2>1. i.opened <= st.streams[e.stream].last
    BY <1>1, <1>2 DEF GoodEngine, OpenedByLast
  <2>2. i.opened \in Nat /\ st.streams[e.stream].last \in Nat /\ e.ts \in Nat
    BY <1>3, EventParts DEF IncidentRecord, StreamRecord
  <2> QED  BY <1>1, <2>1, <2>2
<1>5. IncidentOf(st.incidents, p) = i
  <2>1. \A j \in st.incidents : j.id = i.id => j = i
    BY DEF GoodEngine, IdsUnique
  <2> HIDE DEF p
  <2> QED  BY <1>2, <1>3, <2>1, IncidentOfUnique
<1>6. /\ after \in IncidentRecord /\ after.id = i.id /\ after.stream = i.stream
      /\ after.status = "open" /\ after.opened = i.opened
  <2>1. Signals(p) \subseteq Kinds
    BY DEF Signals
  <2> QED  BY <1>2, <1>3, <2>1 DEF IncidentRecord
<1>7. /\ now \in IncidentRecord /\ now.id = i.id /\ now.stream = i.stream
      /\ now.opened = i.opened /\ now.status = IF over THEN "resolved" ELSE "open"
  <2>1. e.ts \in Int
    BY EventParts
  <2> HIDE DEF after, over
  <2> QED  BY <1>6, <2>1 DEF Resolve, IncidentRecord
<1>8. /\ seen.incidents = incidents
      /\ seen.stream = IF over THEN [p EXCEPT !.active = None, !.baseline = LastN(p.current, WINDOW),
                                              !.current = << >>]
                       ELSE p
  <2>1. seen = Follow(st, e, p)
    BY <1>1 DEF Evaluate
  <2> HIDE DEF p, seen
  <2> QED  BY <1>5, <2>1 DEF Follow
<1>9. /\ seen.stream \in StreamRecord /\ seen.stream.last = e.ts
      /\ seen.stream.active = IF over THEN None ELSE i.id
  <2>1. LastN(p.current, WINDOW) \in Rows
    <3>1. p.current \in Rows /\ WINDOW \in Nat
      BY <1>1, SizesAssumption DEF StreamRecord, Rows
    <3> HIDE DEF p
    <3> QED  BY <3>1, LastNType
  <2>2. LastN(p.current, WINDOW) \in Seq(SampleRecord) /\ << >> \in Seq(SampleRecord)
    BY <2>1, EmptySeq DEF Rows
  <2>3. None \in IncidentIds \cup {None}
    OBVIOUS
  <2> HIDE DEF p, seen, over
  <2>4. CASE over
    <3>1. seen.stream = [p EXCEPT !.active = None, !.baseline = LastN(p.current, WINDOW),
                                  !.current = << >>]
      BY <1>8, <2>4
    <3> QED  BY <1>1, <2>2, <2>3, <2>4, <3>1 DEF StreamRecord
  <2>5. CASE ~over
    BY <1>1, <1>2, <1>8, <2>5
  <2> QED  BY <2>4, <2>5
<1>10. g \in StreamRecord /\ g.last = e.ts /\ g.active = IF over THEN None ELSE i.id
  <2> HIDE DEF seen
  <2> QED  BY <1>9, GraduateType
<1>11. Accept(st, e) = Replaced(st, e, g, incidents)
  <2> HIDE DEF incidents
  <2> QED  BY <1>1, <1>8, AcceptShape
<1> HIDE DEF p, seen, g, after, over, closed, now
<1>12. incidents \in SUBSET IncidentRecord
  BY <1>3, <1>7
<1>13. /\ \A j \in incidents : j \in st.incidents \/ j.stream = e.stream
       /\ \A j \in st.incidents : j.status = "open" /\ j.stream # e.stream => j \in incidents
  BY <1>2, <1>7
<1>14. \A j \in incidents : j.stream = e.stream /\ j.status = "open" =>
         g.active = j.id /\ j.opened <= e.ts
  <2> SUFFICES ASSUME NEW j \in incidents, j.stream = e.stream, j.status = "open"
               PROVE  g.active = j.id /\ j.opened <= e.ts
    OBVIOUS
  <2>1. CASE j = now
    BY <1>4, <1>7, <1>10, <2>1
  <2>2. CASE j # now
    <3>1. j \in st.incidents /\ j # i
      BY <2>2
    <3>2. j.id = i.id
      BY <1>1, <1>2, <3>1 DEF GoodEngine, OpenIsActive
    <3> QED  BY <3>1, <3>2 DEF GoodEngine, IdsUnique
  <2> QED  BY <2>1, <2>2
<1>15. g.active # None => \E j \in incidents :
         j.id = g.active /\ j.stream = e.stream /\ j.status = "open"
  BY <1>2, <1>7, <1>10
<1>16. \A j, k \in incidents : j.id = k.id => j = k
  BY <1>7 DEF GoodEngine, IdsUnique
<1>17. \A j \in incidents : \E d \in Events :
         /\ j.id = <<d.stream, d.id>> /\ j.stream = d.stream /\ j.opened = d.ts
         /\ d \in st.dedup \cup {e} \/ d.ts <= st.floor
  BY <1>7 DEF GoodEngine, OnsetsKnown
<1> HIDE DEF incidents
<1>18. Fits(st, e, g, incidents)
  BY <1>10, <1>12, <1>13, <1>14, <1>15, <1>16, <1>17 DEF Fits
<1> QED  BY <1>11, <1>18, Replace

(* So an accepted event does.                                              *)
LEMMA AcceptGood ==
  ASSUME NEW st, GoodEngine(st), NEW e \in Events, Admissible(st, e), StampedOnce
  PROVE  GoodEngine(Accept(st, e))
BY DetectGood, FollowGood

-----------------------------------------------------------------------------
(***************************************************************************)
(* The end of the batch.                                                   *)
(***************************************************************************)

(* A finite set of numbers has a largest one.                              *)
LEMMA LargestOf ==
  ASSUME NEW T \in SUBSET Nat, T # {}, NEW bound \in Nat, \A t \in T : t <= bound
  PROVE  \E m \in T : \A t \in T : t <= m
<1> DEFINE gaps == {bound - t : t \in T}
<1>1. gaps \in SUBSET Nat /\ gaps # {}
  <2>1. \A t \in T : bound - t \in Nat
    OBVIOUS
  <2> QED  BY <2>1
<1>2. \E m \in gaps : \A n \in gaps : m <= n
  <2> HIDE DEF gaps
  <2> QED  BY <1>1, SmallestOf
<1>3. PICK m \in T : \A t \in T : bound - m <= bound - t
  BY <1>2
<1>4. \A t \in T : t \in Nat
  OBVIOUS
<1>5. \A t \in T : t <= m
  BY <1>3, <1>4
<1> QED  BY <1>5

(* replay_floor covers every entry forgotten.                              *)
LEMMA HighestTimeCovers ==
  ASSUME NEW st, IsEngine(st), DedupBounded(st),
         NEW gone \in SUBSET st.dedup, gone # {}
  PROVE  HighestTime(gone) \in Nat /\ \A d \in gone : d.ts <= HighestTime(gone)
<1> DEFINE T == {d.ts : d \in gone}
<1>1. T \in SUBSET Nat /\ T # {}
  BY EngineParts, EventParts
<1>2. PICK bound \in Nat : \A t \in T : t <= bound
  BY DEF DedupBounded
<1>3. \E m \in T : \A t \in T : t <= m
  <2> HIDE DEF T
  <2> QED  BY <1>1, <1>2, LargestOf
<1>4. \E t \in {d.ts : d \in gone} : \A d \in gone : d.ts <= t
  BY <1>3
<1> QED  BY <1>1, <1>4 DEF HighestTime

(* Evicting dedup entries raises replay_floor over them.                   *)
LEMMA FinishGood ==
  ASSUME NEW st, GoodEngine(st)
  PROVE  GoodEngine(Finish(st))
<1> DEFINE gone  == Evicted(st.dedup)
           floor == Greater(st.floor, HighestTime(gone))
<1>1. /\ IsEngine(st) /\ DOMAIN st.streams \subseteq Streams
      /\ \A x \in DOMAIN st.streams : st.streams[x] \in StreamRecord
      /\ st.incidents \subseteq IncidentRecord /\ st.dedup \subseteq Events
      /\ st.floor \in Nat /\ st.accepted \in Nat
  BY EngineParts DEF GoodEngine
<1>2. gone \subseteq st.dedup
  BY DEF Evicted
<1>3. CASE gone = {}  BY <1>3 DEF Finish
<1>4. CASE gone # {}
  <2>1. HighestTime(gone) \in Nat /\ \A d \in gone : d.ts <= HighestTime(gone)
    <3> HIDE DEF gone
    <3> QED  BY <1>1, <1>2, <1>4, HighestTimeCovers DEF GoodEngine
  <2>2. floor \in Nat /\ st.floor <= floor /\ \A d \in gone : d.ts <= floor
    <3>1. \A d \in gone : d.ts \in Nat
      BY <1>1, <1>2, EventParts
    <3> HIDE DEF gone
    <3> QED  BY <1>1, <2>1, <3>1 DEF Greater
  <2>3. Finish(st) = [st EXCEPT !.dedup = @ \ gone, !.floor = floor]
    BY <1>4 DEF Finish
  <2> HIDE DEF gone, floor
  <2>4. PICK live \in SUBSET Streams :
          st \in [streams : [live -> StreamRecord], dedup : SUBSET Events,
                 incidents : SUBSET IncidentRecord, floor : Nat, accepted : Nat]
    BY <1>1 DEF IsEngine
  <2>5. Finish(st) = [streams |-> st.streams, dedup |-> st.dedup \ gone,
                      incidents |-> st.incidents, floor |-> floor, accepted |-> st.accepted]
    BY <2>3, <2>4
  <2>6. IsEngine(Finish(st))
    <3>1. st.streams \in [live -> StreamRecord] /\ st.dedup \ gone \in SUBSET Events
      BY <2>4
    <3> QED  BY <1>1, <2>2, <2>5, <3>1, EngineFrom
  <2>7. OnsetsKnown(Finish(st))
    <3> SUFFICES ASSUME NEW i \in st.incidents
                 PROVE  \E d \in Events :
                          /\ i.id = <<d.stream, d.id>> /\ i.stream = d.stream /\ i.opened = d.ts
                          /\ d \in st.dedup \ gone \/ d.ts <= floor
      BY <2>5 DEF OnsetsKnown
    <3>1. PICK d \in Events :
            /\ i.id = <<d.stream, d.id>> /\ i.stream = d.stream /\ i.opened = d.ts
            /\ d \in st.dedup \/ d.ts <= st.floor
      BY DEF GoodEngine, OnsetsKnown
    <3>2. d.ts \in Nat
      BY EventParts
    <3> QED  BY <1>1, <2>2, <3>1, <3>2
  <2>8. /\ ActiveIsOpen(Finish(st)) /\ OpenIsActive(Finish(st)) /\ IdsUnique(Finish(st))
        /\ OpenedByLast(Finish(st)) /\ DedupBounded(Finish(st))
    BY <2>5 DEF GoodEngine, ActiveIsOpen, OpenIsActive, IdsUnique, OpenedByLast, DedupBounded
  <2> QED  BY <2>6, <2>7, <2>8 DEF GoodEngine
<1> QED  BY <1>3, <1>4

-----------------------------------------------------------------------------
(***************************************************************************)
(* The inductive invariant of the specification.                           *)
(***************************************************************************)

IndInv == /\ TypeOK
          /\ GoodEngine(store.state) /\ GoodEngine(txn.work)
          /\ IsFiniteSet(txn.fresh)

(* What a transaction loads is good: the row, or nothing.                  *)
LEMMA LoadedGood ==
  ASSUME IndInv, NEW at
  PROVE  /\ GoodEngine(Loaded(store, at).state)
         /\ Loaded(store, at).used \in Nat /\ Loaded(store, at).day \in Int
BY EmptyGood DEF IndInv, TypeOK, Loaded, BlankRow, NoDay

(* The working copy of no transaction is good.                             *)
LEMMA IdleTxn ==
  /\ IsEngine(NoTxn.work) /\ GoodEngine(NoTxn.work) /\ IsFiniteSet(NoTxn.fresh)
  /\ NoTxn \in [slot : Slots \cup {NoSlot}, began : Nat, work : {NoTxn.work},
                fresh : SUBSET Events, size : Nat, last : Nat \X Nat]
  /\ NoTxn.slot = NoSlot
BY EmptyGood, FS_EmptySet DEF NoTxn, GoodEngine

(* It holds of a tenant without a row.                                     *)
LEMMA IndInvInit == Init => IndInv
<1> SUFFICES ASSUME Init  PROVE IndInv
  OBVIOUS
<1>1. /\ store.state = Empty /\ store.day = NoDay /\ store.used = 0
      /\ store.expires = RETENTION + GRACE /\ GRACE \in Nat /\ RETENTION \in Nat
      /\ store = [state |-> Empty, day |-> NoDay, used |-> 0, expires |-> RETENTION + GRACE]
  BY SizesAssumption, IngestAssumption DEF Init, BlankRow
<1>2. TypeOK
  BY <1>1, IdleTxn, EmptyGood DEF Init, TypeOK, GoodEngine, NoDay
<1> QED  BY <1>1, <1>2, IdleTxn, EmptyGood DEF Init, IndInv

(* A step that only gives up the open transaction, or one slot's request.  *)
LEMMA AbandonStep ==
  ASSUME IndInv, txn.slot # NoSlot, Abandon
  PROVE  IndInv'
<1>1. request' \in [Slots -> Nat \cup {Idle}] /\ txn' = NoTxn
  BY DEF IndInv, TypeOK, Abandon
<1>2. TypeOK'
  BY <1>1, IdleTxn DEF IndInv, TypeOK, Abandon, history
<1> QED  BY <1>1, <1>2, IdleTxn DEF IndInv, Abandon

(* A transaction begins on the pruned row.                                 *)
LEMMA BeginStep ==
  ASSUME IndInv, NEW r \in Slots, Begin(r)
  PROVE  IndInv'
<1> DEFINE work == Prune(Loaded(store, clock).state, request[r])
<1>1. request[r] \in Int /\ clock \in Nat
  BY DEF IndInv, TypeOK, Begin, Idle
<1>2. GoodEngine(work)
  BY <1>1, LoadedGood, PruneGood
<1>3. txn' = [NoTxn EXCEPT !.slot = r, !.began = clock, !.work = work]
  BY DEF Begin
<1> HIDE DEF work
<1>4. /\ txn'.slot = r /\ txn'.work = work /\ txn'.fresh = {}
      /\ txn' \in [slot : Slots \cup {NoSlot}, began : Nat, work : {txn'.work},
                   fresh : SUBSET Events, size : Nat, last : Nat \X Nat]
  BY <1>1, <1>3 DEF NoTxn
<1>5. TypeOK'
  BY <1>2, <1>4 DEF IndInv, TypeOK, Begin, GoodEngine, history
<1> QED  BY <1>2, <1>4, <1>5, FS_EmptySet DEF IndInv, Begin

(* A duplicate is counted and changes nothing else.                        *)
LEMMA SkipStep ==
  ASSUME IndInv, NEW e \in Events, Skip(e)
  PROVE  IndInv'
<1>1. txn' = [slot |-> txn.slot, began |-> txn.began, work |-> txn.work, fresh |-> txn.fresh,
               size |-> txn.size + 1, last |-> <<e.ts, e.id>>]
  BY DEF Skip, Taken, IndInv, TypeOK
<1>2. /\ txn'.slot = txn.slot /\ txn'.work = txn.work /\ txn'.fresh = txn.fresh
      /\ txn' \in [slot : Slots \cup {NoSlot}, began : Nat, work : {txn'.work},
                   fresh : SUBSET Events, size : Nat, last : Nat \X Nat]
  BY <1>1, EventParts DEF IndInv, TypeOK
<1>3. TypeOK'
  BY <1>2 DEF IndInv, TypeOK, Skip, history
<1> QED  BY <1>2, <1>3 DEF IndInv, Skip

(* An admissible event is accepted into the working copy.                  *)
LEMMA AbsorbStep ==
  ASSUME IndInv, StampedOnce, NEW e \in Events, Absorb(e)
  PROVE  IndInv'
<1> DEFINE work == Accept(txn.work, e)
<1>1. GoodEngine(work)
  BY AcceptGood DEF IndInv, Absorb
<1>2. txn' = [slot |-> txn.slot, began |-> txn.began, work |-> work,
               fresh |-> txn.fresh \cup {e}, size |-> txn.size + 1, last |-> <<e.ts, e.id>>]
  BY DEF Absorb, Taken, IndInv, TypeOK
<1> HIDE DEF work
<1>3. /\ txn'.slot = txn.slot /\ txn'.work = work /\ txn'.fresh = txn.fresh \cup {e}
      /\ txn' \in [slot : Slots \cup {NoSlot}, began : Nat, work : {txn'.work},
                   fresh : SUBSET Events, size : Nat, last : Nat \X Nat]
  <2>1. /\ txn.slot \in Slots \cup {NoSlot} /\ txn.began \in Nat /\ txn.size + 1 \in Nat
        /\ txn.fresh \cup {e} \in SUBSET Events /\ <<e.ts, e.id>> \in Nat \X Nat
    BY EventParts DEF IndInv, TypeOK
  <2>2. /\ txn'.slot = txn.slot /\ txn'.work = work /\ txn'.fresh = txn.fresh \cup {e}
    BY <1>2
  <2> QED  BY <1>2, <2>1, <2>2
<1>4. TypeOK'
  <2>1. /\ UNCHANGED <<clock, request, store, counted, recounted>>
        /\ txn.slot # NoSlot => request[txn.slot] # Idle
    BY DEF IndInv, TypeOK, Absorb, history
  <2>2. IsEngine(txn'.work) /\ txn'.work = work
    BY <1>1, <1>3 DEF GoodEngine
  <2> QED  BY <1>3, <2>1, <2>2 DEF IndInv, TypeOK
<1>5. IsFiniteSet(txn'.fresh)
  BY <1>3, FS_AddElement DEF IndInv
<1> QED  BY <1>1, <1>3, <1>4, <1>5 DEF IndInv, Absorb

(* The working copy, finished, becomes the row.                            *)
LEMMA CommitStep ==
  ASSUME IndInv, Commit
  PROVE  IndInv'
<1> DEFINE state == Finish(txn.work)
<1>1. GoodEngine(state)
  BY FinishGood DEF IndInv
<1>2. UsedToday + Accepted \in Nat
  BY LoadedGood, FS_CardinalityType DEF IndInv, UsedToday, Accepted
<1>3. /\ txn.slot \in Slots /\ request[txn.slot] \in Nat /\ Today \in Int
  BY IngestAssumption DEF IndInv, TypeOK, Commit, Idle, Today, DayOf
<1>4. txn.began + RETENTION + GRACE \in Nat
  BY SizesAssumption, IngestAssumption DEF IndInv, TypeOK
<1>5. store' = [state |-> state, day |-> Today, used |-> UsedToday + Accepted,
                expires |-> txn.began + RETENTION + GRACE]
  BY DEF Commit
<1> HIDE DEF state
<1>6. /\ store'.state = state
      /\ store' \in [state : {store'.state}, day : Int, used : Nat, expires : Nat]
  BY <1>2, <1>3, <1>4, <1>5
<1>7. /\ request' \in [Slots -> Nat \cup {Idle}]
      /\ counted' \subseteq Events /\ recounted' \subseteq Events
  BY DEF IndInv, TypeOK, Commit
<1>8. TypeOK'
  BY <1>1, <1>6, <1>7, IdleTxn DEF IndInv, TypeOK, Commit, GoodEngine
<1> QED  BY <1>1, <1>6, <1>8, IdleTxn DEF IndInv, Commit

(* An expired row goes.                                                    *)
LEMMA DropStep ==
  ASSUME IndInv, DropExpired
  PROVE  IndInv'
<1>1. store' = [state |-> Empty, day |-> NoDay, used |-> 0, expires |-> store.expires]
  BY DEF DropExpired, BlankRow
<1>2. /\ store'.state = Empty
      /\ store' \in [state : {store'.state}, day : Int, used : Nat, expires : Nat]
  BY <1>1 DEF IndInv, TypeOK, NoDay
<1>3. TypeOK'
  BY <1>2, EmptyGood DEF IndInv, TypeOK, DropExpired, GoodEngine, history
<1> QED  BY <1>2, <1>3, EmptyGood DEF IndInv, DropExpired

(* Every step keeps the inductive invariant.                               *)
LEMMA IndInvStep == StampedOnce /\ IndInv /\ [Next]_vars => IndInv'
<1> SUFFICES ASSUME StampedOnce, IndInv, [Next]_vars  PROVE IndInv'
  OBVIOUS
<1>1. CASE Tick
  <2>1. TypeOK'
    BY <1>1 DEF IndInv, TypeOK, Tick, history
  <2> QED  BY <1>1, <2>1 DEF IndInv, Tick
<1>2. CASE \E r \in Slots : Request(r)
  <2>1. TypeOK'
    BY <1>2 DEF IndInv, TypeOK, Request, history, Idle
  <2> QED  BY <1>2, <2>1 DEF IndInv, Request
<1>3. CASE \E r \in Slots : Begin(r)
  BY <1>3, BeginStep
<1>4. CASE \E e \in Events : Skip(e)
  BY <1>4, SkipStep
<1>5. CASE \E e \in Events : Absorb(e)
  BY <1>5, AbsorbStep
<1>6. CASE \E e \in Events : Refuse(e)
  BY <1>6, AbandonStep DEF Refuse, Follows
<1>7. CASE Rollback \/ OverQuota
  BY <1>7, AbandonStep DEF Rollback, OverQuota
<1>8. CASE Commit
  BY <1>8, CommitStep
<1>9. CASE ReadState \/ PurgeExpired
  BY <1>9, DropStep DEF ReadState, PurgeExpired
<1>10. CASE UNCHANGED vars
  <2>1. TypeOK'
    BY <1>10 DEF IndInv, TypeOK, vars
  <2> QED  BY <1>10, <2>1 DEF IndInv, vars
<1> QED
  BY <1>1, <1>2, <1>3, <1>4, <1>5, <1>6, <1>7, <1>8, <1>9, <1>10 DEF Next

(* The inductive invariant holds.                                          *)
LEMMA Invariance == StampedOnce => (Spec => []IndInv)
<1> SUFFICES ASSUME StampedOnce  PROVE Spec => []IndInv
  OBVIOUS
<1>1. IndInv /\ [Next]_vars => IndInv'
  BY IndInvStep
<1> QED  BY <1>1, IndInvInit, PTL DEF Spec

-----------------------------------------------------------------------------
(* Every variable keeps its type, for every set of events in which an ID   *)
(* is not restamped: in particular _incident always finds the incident a   *)
(* stream points at, without which the updated list has no type.           *)
THEOREM TypeCorrect == StampedOnce => (Spec => []TypeOK)
<1>1. IndInv => TypeOK
  BY DEF IndInv
<1> QED  BY <1>1, Invariance, PTL

(* In the stored state and in every working copy, the active incident of a *)
(* stream is a listed, open one, every open incident is the active one of  *)
(* a live stream, and no two listed incidents share an ID - whatever       *)
(* requests overlap, with whatever stale `now`.                            *)
THEOREM LinksCorrect == StampedOnce => (Spec => []IncidentsLinked)
<1>1. IndInv => IncidentsLinked
  BY DEF IndInv, GoodEngine, IncidentsLinked, Engines
<1> QED  BY <1>1, Invariance, PTL

(* The onset event of a listed incident is barred from being accepted      *)
(* again by dedup or by replay_floor.                                      *)
THEOREM OnsetsCorrect == StampedOnce => (Spec => []OnsetsRemembered)
<1>1. IndInv => OnsetsRemembered
  <2> SUFFICES ASSUME IndInv, NEW st \in Engines, NEW i \in st.incidents
               PROVE  \/ i.opened <= st.floor
                      \/ \E d \in st.dedup : i.id = <<d.stream, d.id>> /\ i.opened = d.ts
    BY DEF OnsetsRemembered
  <2>1. GoodEngine(st)
    BY DEF IndInv, Engines
  <2> QED  BY <2>1 DEF GoodEngine, OnsetsKnown
<1> QED  BY <1>1, Invariance, PTL

-----------------------------------------------------------------------------
(***************************************************************************)
(* Row expiry.  Nothing an engine state remembers lies beyond the instant  *)
(* its last transaction began plus the accepted clock skew.                *)
(***************************************************************************)

WithinBound(st, bound) ==
  /\ \A x \in DOMAIN st.streams : st.streams[x].last <= bound
  /\ \A d \in st.dedup : d.ts <= bound
  /\ st.floor <= bound

(* A bound may be relaxed.                                                 *)
LEMMA BoundGrows ==
  ASSUME NEW st, IsEngine(st), NEW a \in Int, NEW b \in Int, a <= b, WithinBound(st, a)
  PROVE  WithinBound(st, b)
<1>1. /\ \A x \in DOMAIN st.streams : st.streams[x].last \in Nat
      /\ \A d \in st.dedup : d.ts \in Nat
      /\ st.floor \in Nat
  BY EngineParts, EventParts DEF StreamRecord
<1> QED  BY <1>1 DEF WithinBound

(* Pruning adds nothing beyond the bound.                                  *)
LEMMA PruneWithin ==
  ASSUME NEW st, IsEngine(st), NEW now \in Int, NEW bound \in Int, WithinBound(st, bound)
  PROVE  WithinBound(Prune(st, now), bound)
<1> DEFINE cutoff == now - RETENTION
           kept   == {i \in st.incidents : i.opened > cutoff}
           live   == {x \in DOMAIN st.streams : st.streams[x].last > cutoff}
           streams == [x \in live |-> PruneStream(st.streams[x], kept, cutoff)]
<1>1. /\ Prune(st, now).streams = streams
      /\ Prune(st, now).dedup = {d \in st.dedup : d.ts > cutoff}
      /\ Prune(st, now).floor = st.floor
  BY DEF Prune, IsEngine
<1>2. cutoff \in Int /\ kept \in SUBSET IncidentRecord
  BY SizesAssumption, EngineParts
<1>3. \A x \in live : PruneStream(st.streams[x], kept, cutoff).last = st.streams[x].last
  <2>1. \A x \in live : st.streams[x] \in StreamRecord
    BY EngineParts
  <2> HIDE DEF kept, cutoff, live
  <2> QED  BY <1>2, <2>1, PruneStreamType
<1> QED  BY <1>1, <1>3 DEF WithinBound

(* Judging an event leaves a stream that ends with it.                     *)
LEMMA EvaluateStream ==
  ASSUME NEW st, IsEngine(st), NEW e \in Events, NEW s \in StreamRecord, s.last = e.ts
  PROVE  Evaluate(st, e, s).stream \in StreamRecord /\ Evaluate(st, e, s).stream.last = e.ts
<1> DEFINE opened == [s EXCEPT !.active = OpenIncident(st, e, Signals(s)).id]
           over   == [s EXCEPT !.active = None, !.baseline = LastN(s.current, WINDOW),
                               !.current = << >>]
<1>1. opened \in StreamRecord /\ opened.last = e.ts
  <2>1. OpenIncident(st, e, Signals(s)).id \in IncidentIds
    BY EventParts DEF OpenIncident, IncidentIds
  <2> QED  BY <2>1 DEF StreamRecord
<1>2. over \in StreamRecord /\ over.last = e.ts
  <2>1. LastN(s.current, WINDOW) \in Rows
    BY LastNType, SizesAssumption DEF StreamRecord, Rows
  <2> QED  BY <2>1, EmptySeq DEF StreamRecord, Rows
<1> HIDE DEF opened, over
<1>3. Evaluate(st, e, s).stream \in {s, opened, over}
  BY DEF Evaluate, Detect, Follow, opened, over
<1> QED  BY <1>1, <1>2, <1>3

(* An accepted event lies at most the clock skew ahead.                    *)
LEMMA AcceptWithin ==
  ASSUME NEW st, IsEngine(st), NEW e \in Events, NEW bound \in Int,
         WithinBound(st, bound), e.ts <= bound
  PROVE  WithinBound(Accept(st, e), bound)
<1> DEFINE p    == Push(StreamFor(st, e), e)
           seen == Evaluate(st, e, p)
<1>1. p \in StreamRecord /\ p.last = e.ts
  BY StreamForType, PushType
<1>2. seen.stream \in StreamRecord /\ seen.stream.last = e.ts
  <2> HIDE DEF p
  <2> QED  BY <1>1, EvaluateStream
<1>3. Graduate(seen.stream).last = e.ts
  BY <1>2, GraduateType
<1>4. Accept(st, e) = Replaced(st, e, Graduate(seen.stream), seen.incidents)
  BY AcceptShape
<1> HIDE DEF seen
<1> QED  BY <1>3, <1>4 DEF WithinBound, Replaced

(* replay_floor is raised to a retained instant.                           *)
LEMMA FinishWithin ==
  ASSUME NEW st, IsEngine(st), DedupBounded(st), NEW bound \in Int, WithinBound(st, bound)
  PROVE  WithinBound(Finish(st), bound)
<1> DEFINE gone == Evicted(st.dedup)
<1>1. gone \in SUBSET st.dedup
  BY DEF Evicted
<1>2. CASE gone = {}  BY <1>2 DEF Finish
<1>3. CASE gone # {}
  <2>1. \E t \in {d.ts : d \in gone} : \A d \in gone : d.ts <= t
    <3> DEFINE T == {d.ts : d \in gone}
    <3>1. T \in SUBSET Nat /\ T # {}
      BY <1>1, <1>3, EngineParts, EventParts
    <3>2. PICK top \in Nat : \A t \in T : t <= top
      BY <1>1 DEF DedupBounded
    <3>3. \E m \in T : \A t \in T : t <= m
      <4> HIDE DEF T
      <4> QED  BY <3>1, <3>2, LargestOf
    <3> QED  BY <3>3
  <2>2. HighestTime(gone) \in {d.ts : d \in gone}
    <3> HIDE DEF gone
    <3> QED  BY <2>1 DEF HighestTime
  <2>3. HighestTime(gone) <= bound
    BY <1>1, <2>2 DEF WithinBound
  <2> HIDE DEF gone
  <2>4. /\ Finish(st).streams = st.streams
        /\ Finish(st).dedup = st.dedup \ gone
        /\ Finish(st).floor = Greater(st.floor, HighestTime(gone))
    BY <1>3 DEF Finish, IsEngine, gone
  <2> QED  BY <2>3, <2>4 DEF WithinBound, Greater
<1> QED  BY <1>2, <1>3

(* Where a row's contents and the clocks of its transactions stand.        *)
Horizon ==
  /\ WithinBound(store.state, store.expires - RETENTION - GRACE + FUTURE)
  /\ RETENTION + GRACE <= store.expires /\ store.expires <= clock + RETENTION + GRACE
  /\ \A r \in Slots : request[r] <= clock
  /\ txn.slot # NoSlot => /\ WithinBound(txn.work, txn.began + FUTURE)
                          /\ txn.began <= clock /\ request[txn.slot] <= txn.began

(* Nothing lies beyond the horizon of an empty row.                        *)
LEMMA HorizonInit == Init => Horizon
<1> SUFFICES ASSUME Init  PROVE Horizon
  OBVIOUS
<1>1. RETENTION \in Nat /\ GRACE \in Nat /\ FUTURE \in Nat
  BY SizesAssumption, IngestAssumption
<1>2. WithinBound(Empty, FUTURE)
  BY <1>1 DEF WithinBound, Empty
<1>3. /\ store.state = Empty /\ store.expires = RETENTION + GRACE /\ txn.slot = NoSlot
      /\ clock = 0 /\ \A r \in Slots : request[r] = Idle
  BY DEF Init, BlankRow, NoTxn
<1>4. store.expires - RETENTION - GRACE + FUTURE = FUTURE
  BY <1>1, <1>3
<1> QED  BY <1>1, <1>2, <1>3, <1>4 DEF Horizon, Idle

(* Every step keeps everything within the horizon.                         *)
LEMMA HorizonStep == StampedOnce /\ IndInv /\ Horizon /\ [Next]_vars => Horizon'
<1> SUFFICES ASSUME StampedOnce, IndInv, Horizon, [Next]_vars  PROVE Horizon'
  OBVIOUS
<1>1. /\ RETENTION \in Nat /\ GRACE \in Nat /\ FUTURE \in Nat /\ clock \in Nat
      /\ store.expires \in Nat /\ txn.began \in Nat /\ NoSlot \notin Slots
      /\ request \in [Slots -> Nat \cup {Idle}] /\ txn.slot \in Slots \cup {NoSlot}
      /\ IsEngine(store.state) /\ IsEngine(txn.work) /\ DedupBounded(txn.work)
  BY SizesAssumption, IngestAssumption DEF IndInv, TypeOK, GoodEngine
<1>2. CASE Tick
  BY <1>1, <1>2 DEF Horizon, Tick, history, Idle
<1>3. CASE \E r \in Slots : Request(r)
  BY <1>1, <1>3 DEF Horizon, Request, history, Idle, IndInv, TypeOK
<1>4. CASE \E r \in Slots : Begin(r)
  <2>1. PICK r \in Slots : Begin(r)
    BY <1>4
  <2> DEFINE loaded == Loaded(store, clock).state
             work   == Prune(loaded, request[r])
  <2>2. request[r] \in Nat /\ request[r] <= clock
    BY <1>1, <2>1 DEF Begin, Horizon
  <2>3. IsEngine(loaded) /\ WithinBound(loaded, clock + FUTURE)
    <3>1. CASE store.expires > clock
      <4>1. store.expires - RETENTION - GRACE + FUTURE <= clock + FUTURE
        BY <1>1 DEF Horizon
      <4> QED  BY <1>1, <3>1, <4>1, BoundGrows DEF Loaded, Horizon
    <3>2. CASE ~ (store.expires > clock)
      <4>1. loaded = Empty
        BY <3>2 DEF Loaded, BlankRow
      <4> QED  BY <1>1, <4>1, EmptyGood DEF WithinBound, Empty, GoodEngine
    <3> QED  BY <3>1, <3>2
  <2>4. WithinBound(work, clock + FUTURE)
    <3> HIDE DEF loaded
    <3> QED  BY <1>1, <2>2, <2>3, PruneWithin
  <2> HIDE DEF work
  <2>5. txn'.slot = r /\ txn'.began = clock /\ txn'.work = work
    BY <2>1 DEF Begin, NoTxn, work
  <2> QED  BY <1>1, <2>1, <2>2, <2>4, <2>5 DEF Horizon, Begin, history
<1>5. CASE \E e \in Events : Skip(e)
  <2>1. /\ txn'.slot = txn.slot /\ txn'.work = txn.work /\ txn'.began = txn.began
        /\ UNCHANGED <<clock, request, store>>
    BY <1>5 DEF Skip, Taken, history, IndInv, TypeOK
  <2> QED  BY <2>1 DEF Horizon
<1>6. CASE \E e \in Events : Absorb(e)
  <2>1. PICK e \in Events : Absorb(e)
    BY <1>6
  <2>2. /\ txn'.slot = txn.slot /\ txn'.work = Accept(txn.work, e) /\ txn'.began = txn.began
        /\ txn.slot # NoSlot /\ UNCHANGED <<clock, request, store>>
    BY <2>1 DEF Absorb, Follows, Taken, history, IndInv, TypeOK
  <2>3. e.ts <= txn.began + FUTURE
    <3>1. request[txn.slot] <= txn.began /\ e.ts <= request[txn.slot] + FUTURE
      BY <2>1, <2>2 DEF Horizon, Absorb, Timely
    <3>2. request[txn.slot] \in Int /\ e.ts \in Nat
      BY <1>1, <2>2, EventParts DEF Idle
    <3> QED  BY <1>1, <3>1, <3>2
  <2>4. WithinBound(Accept(txn.work, e), txn.began + FUTURE)
    <3>1. txn.began + FUTURE \in Int
      BY <1>1
    <3> QED  BY <1>1, <2>2, <2>3, <3>1, AcceptWithin DEF Horizon
  <2> QED  BY <2>2, <2>4 DEF Horizon
<1>7. ASSUME Abandon  PROVE Horizon'
  BY <1>1, <1>7 DEF Horizon, Abandon, NoTxn, history, Idle
<1>8. CASE (\E e \in Events : Refuse(e)) \/ Rollback \/ OverQuota
  BY <1>7, <1>8 DEF Refuse, Rollback, OverQuota
<1>9. CASE Commit
  <2>1. /\ store'.state = Finish(txn.work) /\ store'.expires = txn.began + RETENTION + GRACE
        /\ txn'.slot = NoSlot /\ clock' = clock /\ txn.slot # NoSlot
        /\ request' = [request EXCEPT ![txn.slot] = Idle]
    BY <1>9 DEF Commit, NoTxn
  <2>2. WithinBound(Finish(txn.work), txn.began + FUTURE)
    <3>1. txn.began + FUTURE \in Int
      BY <1>1
    <3> QED  BY <1>1, <2>1, <3>1, FinishWithin DEF Horizon
  <2>3. store'.expires - RETENTION - GRACE + FUTURE = txn.began + FUTURE
    BY <1>1, <2>1
  <2>4. /\ RETENTION + GRACE <= store'.expires /\ store'.expires <= clock + RETENTION + GRACE
    BY <1>1, <2>1 DEF Horizon
  <2>5. \A r \in Slots : request'[r] <= clock
    BY <1>1, <2>1 DEF Horizon, Idle
  <2> QED  BY <2>1, <2>2, <2>3, <2>4, <2>5 DEF Horizon
<1>10. CASE ReadState \/ PurgeExpired
  <2>1. /\ store'.state = Empty /\ store'.expires = store.expires
        /\ UNCHANGED <<clock, request, txn>>
    BY <1>10 DEF ReadState, PurgeExpired, DropExpired, BlankRow, history
  <2>2. WithinBound(Empty, store.expires - RETENTION - GRACE + FUTURE)
    BY <1>1 DEF WithinBound, Empty, Horizon
  <2> QED  BY <2>1, <2>2 DEF Horizon
<1>11. CASE UNCHANGED vars
  BY <1>11 DEF Horizon, vars
<1> QED
  BY <1>2, <1>3, <1>4, <1>5, <1>6, <1>8, <1>9, <1>10, <1>11 DEF Next

(* An expired row holds nothing the engine would remember.                 *)
Forgettable == store.expires <= clock => NothingRetained

(* With a grace period that covers the clock skew, storage's expiry never  *)
(* comes before the engine's own.                                          *)
LEMMA RetentionLapses ==
  StampedOnce /\ GRACE >= FUTURE => (Spec => []Forgettable)
<1> SUFFICES ASSUME StampedOnce, GRACE >= FUTURE  PROVE Spec => []Forgettable
  OBVIOUS
<1>1. IndInv /\ Horizon => Forgettable
  <2> SUFFICES ASSUME IndInv, Horizon, store.expires <= clock  PROVE NothingRetained
    BY DEF Forgettable
  <2> DEFINE bound == store.expires - RETENTION - GRACE + FUTURE
             cutoff == clock - RETENTION
  <2>1. bound \in Int /\ cutoff \in Int /\ bound <= cutoff
    BY SizesAssumption, IngestAssumption DEF IndInv, TypeOK
  <2>2. IsEngine(store.state) /\ WithinBound(store.state, bound)
    BY DEF IndInv, GoodEngine, Horizon
  <2> HIDE DEF bound, cutoff
  <2>3. WithinBound(store.state, cutoff)
    BY <2>1, <2>2, BoundGrows
  <2>4. \A i \in store.state.incidents : i.opened <= cutoff
    <3> SUFFICES ASSUME NEW i \in store.state.incidents  PROVE i.opened <= cutoff
      OBVIOUS
    <3>1. PICK e \in Events : i.opened = e.ts /\ (e \in store.state.dedup \/ e.ts <= store.state.floor)
      BY DEF IndInv, GoodEngine, OnsetsKnown
    <3>2. e.ts \in Nat /\ store.state.floor \in Nat
      BY <2>2, EngineParts, EventParts
    <3> QED  BY <2>1, <2>3, <3>1, <3>2 DEF WithinBound
  <2>5. store.state.floor <= Greater(cutoff, 0)
    <3>1. store.state.floor \in Nat
      BY <2>2, EngineParts
    <3> QED  BY <2>1, <2>3, <3>1 DEF WithinBound, Greater
  <2> QED  BY <2>3, <2>4, <2>5 DEF WithinBound, NothingRetained, cutoff
<1>2. IndInv /\ Horizon /\ [Next]_vars => (IndInv /\ Horizon)'
  BY IndInvStep, HorizonStep
<1> QED  BY <1>1, <1>2, IndInvInit, HorizonInit, PTL DEF Spec

(* Days follow one another, and an instant DAY later is on a later one.    *)
LEMMA DaysInOrder ==
  ASSUME NEW a \in Nat, NEW b \in Nat
  PROVE  /\ DayOf(a) \in Nat
         /\ a <= b => DayOf(a) <= DayOf(b)
         /\ a + DAY <= b => DayOf(a) < DayOf(b)
<1>1. DAY \in Nat /\ DAY > 0
  BY IngestAssumption
<1>2. /\ DayOf(a) \in Int /\ DayOf(b) \in Int
      /\ DAY * DayOf(a) <= a /\ a < DAY * DayOf(a) + DAY
      /\ DAY * DayOf(b) <= b /\ b < DAY * DayOf(b) + DAY
  BY <1>1 DEF DayOf
<1> QED  BY <1>1, <1>2

(* The row's day is that of a request that came before its transaction,    *)
(* and no request waits longer than MaxWait.                               *)
Charging ==
  /\ \A r \in Slots : request[r] # Idle => clock - request[r] <= MaxWait
  /\ store.day # NoDay =>
       \E t \in Nat : store.day = DayOf(t) /\ t <= store.expires - RETENTION - GRACE

(* Nobody has been charged yet.                                            *)
LEMMA ChargingInit == Init => Charging
BY DEF Init, BlankRow, Charging

(* Every step keeps the row's day behind its expiry.                       *)
LEMMA ChargingStep == IndInv /\ Horizon /\ Charging /\ [Next]_vars => Charging'
<1> SUFFICES ASSUME IndInv, Horizon, Charging, [Next]_vars  PROVE Charging'
  OBVIOUS
<1>1. /\ clock \in Nat /\ request \in [Slots -> Nat \cup {Idle}] /\ MaxWait \in Nat
      /\ RETENTION \in Nat /\ GRACE \in Nat /\ NoSlot \notin Slots /\ txn.began \in Nat
      /\ txn.slot \in Slots \cup {NoSlot} /\ (txn.slot # NoSlot => request[txn.slot] # Idle)
  BY SizesAssumption, IngestAssumption DEF IndInv, TypeOK
<1>2. CASE Tick
  <2>1. clock' = clock + 1 /\ request' = request /\ store' = store
    BY <1>2 DEF Tick, history
  <2>2. \A r \in Slots : request[r] # Idle => clock - request[r] < MaxWait
    BY <1>2 DEF Tick
  <2>3. ASSUME NEW r \in Slots, request'[r] # Idle  PROVE clock' - request'[r] <= MaxWait
    <3>1. request[r] \in Nat /\ clock - request[r] < MaxWait /\ request'[r] = request[r]
      BY <1>1, <2>1, <2>2, <2>3
    <3> QED  BY <1>1, <2>1, <3>1
  <2>4. store'.day # NoDay =>
          \E t \in Nat : store'.day = DayOf(t) /\ t <= store'.expires - RETENTION - GRACE
    BY <2>1 DEF Charging
  <2> QED  BY <2>3, <2>4 DEF Charging
<1>3. ASSUME NEW r \in Slots, Request(r)  PROVE Charging'
  <2>1. clock' = clock /\ store' = store /\ request' = [request EXCEPT ![r] = clock]
    BY <1>3 DEF Request, history
  <2>2. \A s \in Slots : request'[s] # Idle => clock - request'[s] <= MaxWait
    BY <1>1, <2>1 DEF Charging
  <2> QED  BY <2>1, <2>2 DEF Charging
<1>4. ASSUME NEW s, request' = [request EXCEPT ![s] = Idle], clock' = clock
      PROVE  \A r \in Slots : request'[r] # Idle => clock' - request'[r] <= MaxWait
  BY <1>1, <1>4 DEF Charging
<1>5. CASE (\E e \in Events : Refuse(e)) \/ Rollback \/ OverQuota
  <2>1. request' = [request EXCEPT ![txn.slot] = Idle] /\ clock' = clock /\ store' = store
    BY <1>5 DEF Refuse, Rollback, OverQuota, Abandon, history
  <2> QED  BY <1>4, <2>1 DEF Charging
<1>6. CASE Commit
  <2>1. /\ request' = [request EXCEPT ![txn.slot] = Idle] /\ clock' = clock
        /\ store'.day = DayOf(request[txn.slot])
        /\ store'.expires = txn.began + RETENTION + GRACE /\ txn.slot # NoSlot
    BY <1>6 DEF Commit, Today
  <2>2. request[txn.slot] \in Nat /\ request[txn.slot] <= txn.began
    BY <1>1, <2>1 DEF Horizon
  <2>3. store'.expires - RETENTION - GRACE = txn.began
    BY <1>1, <2>1
  <2> QED  BY <1>4, <2>1, <2>2, <2>3 DEF Charging
<1>7. CASE ReadState \/ PurgeExpired
  <2>1. store'.day = NoDay /\ clock' = clock /\ request' = request
    BY <1>7 DEF ReadState, PurgeExpired, DropExpired, BlankRow
  <2> QED  BY <2>1 DEF Charging
<1>8. CASE \/ \E r \in Slots : Begin(r)
           \/ \E e \in Events : Skip(e) \/ Absorb(e)
           \/ UNCHANGED vars
  <2>1. clock' = clock /\ request' = request /\ store' = store
    BY <1>8 DEF Begin, Skip, Absorb, history, vars
  <2> QED  BY <2>1 DEF Charging
<1> QED  BY <1>2, <1>3, <1>5, <1>6, <1>7, <1>8 DEF Next

(* When storage lets a row expire, everything the engine would remember is *)
(* already past the engine's own retention, provided storage's grace is at *)
(* least the clock skew events may have; and nobody counts on its usage    *)
(* any more, provided a row is kept for a day and the longest wait.        *)
THEOREM ExpiryCorrect ==
  StampedOnce /\ GRACE >= FUTURE /\ DAY + MaxWait <= RETENTION + GRACE
    => (Spec => []ExpiryLosesNothing)
<1> SUFFICES ASSUME StampedOnce, GRACE >= FUTURE, DAY + MaxWait <= RETENTION + GRACE
             PROVE  Spec => []ExpiryLosesNothing
  OBVIOUS
<1>1. IndInv /\ Charging /\ Forgettable => ExpiryLosesNothing
  <2> SUFFICES ASSUME IndInv, Charging, store.expires <= clock,
                      NEW t \in {clock} \cup {request[r] : r \in Slots}, t # Idle
               PROVE  store.day < DayOf(t)
    BY DEF Forgettable, ExpiryLosesNothing, UsageOver
  <2>1. /\ clock \in Nat /\ store.expires \in Nat /\ MaxWait \in Nat /\ DAY \in Nat
        /\ RETENTION \in Nat /\ GRACE \in Nat /\ t \in Nat
    BY SizesAssumption, IngestAssumption DEF IndInv, TypeOK
  <2>2. clock - MaxWait <= t
    BY <2>1 DEF Charging
  <2>3. CASE store.day = NoDay
    <3>1. DayOf(t) \in Nat
      BY <2>1, DaysInOrder
    <3> QED  BY <2>3, <3>1 DEF NoDay
  <2>4. CASE store.day # NoDay
    <3>1. PICK s \in Nat : store.day = DayOf(s) /\ s <= store.expires - RETENTION - GRACE
      BY <2>4 DEF Charging
    <3>2. s + DAY <= t
      BY <2>1, <2>2, <3>1
    <3> QED  BY <2>1, <3>1, <3>2, DaysInOrder
  <2> QED  BY <2>3, <2>4
<1>2. IndInv /\ Horizon /\ Charging /\ [Next]_vars => (IndInv /\ Horizon /\ Charging)'
  BY IndInvStep, HorizonStep, ChargingStep
<1> QED
  BY <1>1, <1>2, IndInvInit, HorizonInit, ChargingInit, RetentionLapses, PTL DEF Spec
-----------------------------------------------------------------------------
(***************************************************************************)
(* Requests that do not wait.  No event is counted twice and the daily     *)
(* quota holds as long as no request waits: a `now` that was captured      *)
(* before another transaction committed is the only way to break either    *)
(* (the runs ingest_stale_replay and ingest_stale_quota break them by one  *)
(* tick).                                                                  *)
(***************************************************************************)

(* Requests are answered within the tick of the clock they arrive in; any  *)
(* number of them may overlap in it.                                       *)
AtOnce == MaxWait = 0

(* A request works with the present instant, and so does its transaction.  *)
Prompt == /\ \A r \in Slots : request[r] # Idle => request[r] = clock
          /\ txn.slot # NoSlot => txn.began = clock

(* Nobody has asked anything yet.                                          *)
LEMMA PromptInit == Init => Prompt
BY DEF Init, Prompt, NoTxn

(* The clock waits for the requests of its tick.                           *)
LEMMA PromptStep == AtOnce /\ IndInv /\ Prompt /\ [Next]_vars => Prompt'
<1> SUFFICES ASSUME AtOnce, IndInv, Prompt, [Next]_vars  PROVE Prompt'
  OBVIOUS
<1>1. /\ clock \in Nat /\ request \in [Slots -> Nat \cup {Idle}] /\ NoSlot \notin Slots
      /\ txn.slot \in Slots \cup {NoSlot} /\ (txn.slot # NoSlot => request[txn.slot] # Idle)
  BY IngestAssumption DEF IndInv, TypeOK
<1>2. CASE Tick
  <2>1. \A r \in Slots : request[r] = Idle
    BY <1>1, <1>2 DEF Tick, AtOnce, Prompt
  <2> QED  BY <1>1, <1>2, <2>1 DEF Tick, Prompt
<1>3. CASE \E r \in Slots : Request(r)
  BY <1>1, <1>3 DEF Request, Prompt
<1>4. ASSUME NEW r \in Slots, Begin(r)  PROVE Prompt'
  <2>1. txn'.began = clock /\ clock' = clock /\ request' = request
    BY <1>4 DEF Begin, NoTxn
  <2> QED  BY <2>1 DEF Prompt
<1>5. ASSUME NEW e \in Events, Skip(e) \/ Absorb(e)  PROVE Prompt'
  <2>1. /\ txn'.began = txn.began /\ txn'.slot = txn.slot
        /\ clock' = clock /\ request' = request
    BY <1>5 DEF Skip, Absorb, Taken, IndInv, TypeOK
  <2> QED  BY <2>1 DEF Prompt
<1>6. ASSUME txn' = NoTxn, request' = [request EXCEPT ![txn.slot] = Idle], clock' = clock
      PROVE  Prompt'
  BY <1>1, <1>6 DEF NoTxn, Prompt
<1>7. CASE (\E e \in Events : Refuse(e)) \/ Rollback \/ OverQuota \/ Commit
  BY <1>6, <1>7 DEF Refuse, Rollback, OverQuota, Abandon, Commit
<1>8. CASE ReadState \/ PurgeExpired \/ UNCHANGED vars
  BY <1>8 DEF ReadState, PurgeExpired, DropExpired, vars, Prompt
<1> QED  BY <1>2, <1>3, <1>4, <1>5, <1>7, <1>8 DEF Next

-----------------------------------------------------------------------------
(***************************************************************************)
(* Replay.                                                                 *)
(***************************************************************************)

(* The state st does not accept e (again) at or after instant `at`.        *)
Barred(st, e, at) == e \in st.dedup \/ e.ts <= st.floor \/ e.ts <= at - RETENTION

(* Pruning at an instant forgets only what that instant has made too old.  *)
LEMMA PruneBars ==
  ASSUME NEW st, IsEngine(st), NEW now \in Int, NEW e, Barred(st, e, now)
  PROVE  Barred(Prune(st, now), e, now)
<1> DEFINE cutoff == now - RETENTION
<1>1. /\ Prune(st, now).dedup = {d \in st.dedup : d.ts > cutoff}
      /\ Prune(st, now).floor = st.floor
  BY DEF Prune, IsEngine
<1>2. e \in st.dedup => e.ts \in Nat
  BY EngineParts, EventParts
<1> QED  BY <1>1, <1>2, SizesAssumption DEF Barred

(* Accepting an event bars it and unbars none.                             *)
LEMMA AcceptBars ==
  ASSUME NEW st, IsEngine(st), NEW e \in Events, NEW at, NEW d, d = e \/ Barred(st, d, at)
  PROVE  Barred(Accept(st, e), d, at)
<1> DEFINE seen == Evaluate(st, e, Push(StreamFor(st, e), e))
<1>1. Accept(st, e) = Replaced(st, e, Graduate(seen.stream), seen.incidents)
  BY AcceptShape
<1>2. Accept(st, e).dedup = st.dedup \cup {e} /\ Accept(st, e).floor = st.floor
  BY <1>1 DEF Replaced
<1> QED  BY <1>2 DEF Barred

(* What the end of a batch forgets, replay_floor bars.                     *)
LEMMA FinishBars ==
  ASSUME NEW st, IsEngine(st), DedupBounded(st), NEW e \in Events, NEW at, Barred(st, e, at)
  PROVE  Barred(Finish(st), e, at)
<1> DEFINE gone == Evicted(st.dedup)
<1>1. gone \in SUBSET st.dedup /\ e.ts \in Nat /\ st.floor \in Nat
  BY EventParts, EngineParts DEF Evicted
<1>2. CASE gone = {}  BY <1>2 DEF Finish
<1>3. CASE gone # {}
  <2>1. /\ Finish(st).dedup = st.dedup \ gone
        /\ Finish(st).floor = Greater(st.floor, HighestTime(gone))
    BY <1>3 DEF Finish, IsEngine
  <2> HIDE DEF gone
  <2>2. HighestTime(gone) \in Nat /\ \A d \in gone : d.ts <= HighestTime(gone)
    BY <1>1, <1>3, HighestTimeCovers
  <2>3. /\ e.ts <= st.floor => e.ts <= Finish(st).floor
        /\ e \in gone => e.ts <= Finish(st).floor
    BY <1>1, <2>1, <2>2 DEF Greater
  <2> QED  BY <2>1, <2>3 DEF Barred
<1> QED  BY <1>2, <1>3

(* Every event accepted so far is barred from the row and from the open    *)
(* transaction, which has not accepted any of those before it.             *)
Replay ==
  /\ \A e \in counted : Barred(store.state, e, clock)
  /\ txn.slot # NoSlot => \A e \in counted \cup txn.fresh : Barred(txn.work, e, clock)
  /\ txn.fresh \cap counted = {}
  /\ recounted = {}

(* No event has been accepted yet.                                         *)
LEMMA ReplayInit == Init => Replay
BY DEF Init, NoTxn, Replay

(* What an expired row forgets, the retention period bars.                 *)
LEMMA EmptyBars ==
  ASSUME IndInv, Forgettable, store.expires <= clock,
         NEW e \in Events, Barred(store.state, e, clock)
  PROVE  Barred(Empty, e, clock)
<1>1. /\ e.ts \in Nat /\ clock \in Nat /\ RETENTION \in Nat
      /\ store.state.floor \in Nat /\ Empty.floor = 0
  BY EventParts, EngineParts, SizesAssumption DEF IndInv, TypeOK, Empty
<1>2. /\ \A d \in store.state.dedup : d.ts <= clock - RETENTION
      /\ store.state.floor <= Greater(clock - RETENTION, 0)
  BY DEF Forgettable, NothingRetained
<1> QED  BY <1>1, <1>2 DEF Barred, Greater

(* Every step keeps the accepted events barred.                            *)
LEMMA ReplayStep ==
  IndInv /\ Forgettable /\ Prompt /\ Replay /\ [Next]_vars => Replay'
<1> SUFFICES ASSUME IndInv, Forgettable, Prompt, Replay, [Next]_vars  PROVE Replay'
  OBVIOUS
<1>1. /\ counted \subseteq Events /\ txn.fresh \subseteq Events /\ clock \in Nat
      /\ txn.slot \in Slots \cup {NoSlot} /\ IsEngine(store.state) /\ IsEngine(txn.work)
      /\ (txn.slot # NoSlot => request[txn.slot] = clock) /\ NoTxn.slot = NoSlot /\ NoTxn.fresh = {}
  BY IngestAssumption DEF IndInv, TypeOK, Prompt, NoTxn
<1>2. CASE Tick
  <2>1. ASSUME NEW st, NEW e \in Events, Barred(st, e, clock)  PROVE Barred(st, e, clock + 1)
    BY <1>1, <2>1, EventParts, SizesAssumption DEF Barred
  <2>2. clock' = clock + 1 /\ UNCHANGED <<store, txn, counted, recounted>>
    BY <1>2 DEF Tick, history
  <2> QED  BY <1>1, <2>1, <2>2 DEF Replay
<1>3. CASE (\E r \in Slots : Request(r)) \/ UNCHANGED vars
  BY <1>3 DEF Request, history, vars, Replay
<1>4. ASSUME NEW r \in Slots, Begin(r)  PROVE Replay'
  <2> DEFINE loaded == Loaded(store, clock).state
  <2>1. /\ txn'.work = Prune(loaded, clock) /\ txn'.fresh = {}
        /\ UNCHANGED <<clock, store, counted, recounted>>
    BY <1>4 DEF Begin, Prompt, NoTxn, history
  <2>2. GoodEngine(loaded)
    BY LoadedGood
  <2>3. ASSUME NEW e \in counted  PROVE Barred(Prune(loaded, clock), e, clock)
    <3>1. Barred(loaded, e, clock)
      <4>1. CASE store.expires > clock
        BY <4>1 DEF Loaded, Replay
      <4>2. CASE ~ (store.expires > clock)
        <5>1. store.expires <= clock
          BY <1>1, <4>2 DEF IndInv, TypeOK
        <5>2. loaded = Empty
          BY <4>2 DEF Loaded, BlankRow
        <5> QED  BY <1>1, <5>1, <5>2, EmptyBars DEF Replay
      <4> QED  BY <4>1, <4>2
    <3> HIDE DEF loaded
    <3> QED  BY <1>1, <2>2, <3>1, PruneBars DEF GoodEngine
  <2> HIDE DEF loaded
  <2> QED  BY <2>1, <2>3 DEF Replay
<1>5. ASSUME NEW e \in Events, Skip(e)  PROVE Replay'
  <2>1. /\ txn'.work = txn.work /\ txn'.fresh = txn.fresh /\ txn'.slot = txn.slot
        /\ UNCHANGED <<clock, store, counted, recounted>>
    BY <1>5 DEF Skip, Taken, history, IndInv, TypeOK
  <2> QED  BY <2>1 DEF Replay
<1>6. ASSUME NEW e \in Events, Absorb(e)  PROVE Replay'
  <2>1. /\ txn'.work = Accept(txn.work, e) /\ txn'.fresh = txn.fresh \cup {e}
        /\ txn'.slot = txn.slot /\ txn.slot # NoSlot
        /\ UNCHANGED <<clock, store, counted, recounted>>
    BY <1>6 DEF Absorb, Follows, Taken, history, IndInv, TypeOK
  <2>2. e \notin counted
    <3>1. /\ \A d \in txn.work.dedup : d.id # e.id
          /\ e.ts > txn.work.floor /\ e.ts > clock - RETENTION
      BY <1>1, <1>6, <2>1 DEF Absorb, Admissible, Timely
    <3>2. e.ts \in Nat /\ txn.work.floor \in Nat /\ clock - RETENTION \in Int
      BY <1>1, EventParts, EngineParts, SizesAssumption
    <3>3. ~ Barred(txn.work, e, clock)
      BY <3>1, <3>2 DEF Barred
    <3> QED  BY <2>1, <3>3 DEF Replay
  <2>3. \A d \in counted \cup (txn.fresh \cup {e}) : Barred(Accept(txn.work, e), d, clock)
    BY <1>1, <2>1, AcceptBars DEF Replay
  <2> QED  BY <2>1, <2>2, <2>3 DEF Replay
<1>7. CASE (\E e \in Events : Refuse(e)) \/ Rollback \/ OverQuota
  BY <1>1, <1>7 DEF Refuse, Rollback, OverQuota, Abandon, history, Replay
<1>8. CASE Commit
  <2>1. /\ store'.state = Finish(txn.work) /\ txn' = NoTxn /\ clock' = clock
        /\ counted' = counted \cup txn.fresh /\ txn.slot # NoSlot
        /\ recounted' = recounted \cup (txn.fresh \cap counted)
    BY <1>8 DEF Commit
  <2>2. \A e \in counted \cup txn.fresh : Barred(Finish(txn.work), e, clock)
    BY <1>1, <2>1, FinishBars DEF Replay, IndInv, GoodEngine
  <2> QED  BY <1>1, <2>1, <2>2 DEF Replay
<1>9. CASE ReadState \/ PurgeExpired
  <2>1. /\ store'.state = Empty /\ store.expires <= clock
        /\ UNCHANGED <<clock, txn, counted, recounted>>
    BY <1>9 DEF ReadState, PurgeExpired, DropExpired, BlankRow, history
  <2>2. \A e \in counted : Barred(Empty, e, clock)
    BY <1>1, <2>1, EmptyBars DEF Replay
  <2> QED  BY <2>1, <2>2 DEF Replay
<1> QED
  BY <1>2, <1>3, <1>4, <1>5, <1>6, <1>7, <1>8, <1>9 DEF Next

(* No event is accepted by two commits, whatever is resent, evicted,       *)
(* pruned or expired with its row, when requests do not wait.              *)
THEOREM ReplayCorrect ==
  AtOnce /\ StampedOnce /\ GRACE >= FUTURE => (Spec => []NoEventCountedTwice)
<1> SUFFICES ASSUME AtOnce, StampedOnce, GRACE >= FUTURE  PROVE Spec => []NoEventCountedTwice
  OBVIOUS
<1>1. Spec => []Forgettable
  BY RetentionLapses
<1>2. Spec => []IndInv
  BY Invariance
<1>3. IndInv /\ Forgettable /\ Prompt /\ Replay /\ [Next]_vars => (Prompt /\ Replay)'
  BY PromptStep, ReplayStep
<1>4. Replay => NoEventCountedTwice
  BY DEF Replay, NoEventCountedTwice
<1> QED  BY <1>1, <1>2, <1>3, <1>4, PromptInit, ReplayInit, PTL DEF Spec

-----------------------------------------------------------------------------
(***************************************************************************)
(* Quota.                                                                  *)
(***************************************************************************)

(* Today's events are all charged to the row, whose day lies in the past   *)
(* by the time storage may expire it.                                      *)
Ledger ==
  /\ charged \in [0..DayOf(MaxClock) -> Nat]
  /\ \A d \in DOMAIN charged :
       /\ charged[d] <= QUOTA
       /\ d >= DayOf(clock) => charged[d] <= (IF store.day = d THEN store.used ELSE 0)
  /\ store.day # NoDay =>
       \E t \in Nat : /\ store.day = DayOf(t) /\ t <= clock
                      /\ store.expires = t + RETENTION + GRACE

(* Nothing has been charged yet.                                           *)
LEMMA LedgerInit == Init => Ledger
BY IngestAssumption DEF Init, BlankRow, Ledger

(* Every step keeps the ledger.                                            *)
LEMMA LedgerStep ==
  DAY <= RETENTION + GRACE /\ IndInv /\ Prompt /\ Ledger /\ [Next]_vars => Ledger'
<1> SUFFICES ASSUME DAY <= RETENTION + GRACE, IndInv, Prompt, Ledger, [Next]_vars
             PROVE  Ledger'
  OBVIOUS
<1>1. /\ clock \in Nat /\ store.used \in Nat /\ store.day \in Int
      /\ QUOTA \in Nat /\ DAY \in Nat \ {0} /\ RETENTION \in Nat /\ GRACE \in Nat
      /\ DayOf(clock) \in Nat
  BY IngestAssumption, SizesAssumption, DaysInOrder DEF IndInv, TypeOK
(* The day of an expired row is over.                                      *)
<1>2. store.expires <= clock => store.day < DayOf(clock)
  <2>1. CASE store.day = NoDay
    BY <1>1, <2>1 DEF NoDay
  <2>2. CASE store.day # NoDay
    BY <1>1, <2>2, DaysInOrder DEF Ledger
  <2> QED  BY <2>1, <2>2
<1>3. CASE Tick
  <2>1. clock' = clock + 1 /\ UNCHANGED <<store, charged>>
    BY <1>3 DEF Tick, history
  <2>2. DayOf(clock) <= DayOf(clock + 1) /\ DayOf(clock + 1) \in Nat
    BY <1>1, DaysInOrder
  <2>3. \A d \in DOMAIN charged : d \in Nat
    BY DEF Ledger
  <2>4. store.day # NoDay =>
          \E t \in Nat : /\ store.day = DayOf(t) /\ t <= clock + 1
                         /\ store.expires = t + RETENTION + GRACE
    BY <1>1 DEF Ledger
  <2>5. \A d \in DOMAIN charged :
          d >= DayOf(clock + 1) => charged[d] <= (IF store.day = d THEN store.used ELSE 0)
    BY <1>1, <2>2, <2>3 DEF Ledger
  <2> QED  BY <2>1, <2>4, <2>5 DEF Ledger
<1>4. CASE Commit
  <2> DEFINE spent == UsedToday + Accepted
             today == DayOf(clock)
  <2>1. Today = today /\ txn.began = clock /\ Accepted \in Nat
    BY <1>4, FS_CardinalityType DEF Commit, Prompt, Today, Accepted, IndInv, TypeOK
  <2>2. /\ store'.day = today /\ store'.used = spent /\ spent <= QUOTA
        /\ store'.expires = clock + RETENTION + GRACE /\ clock' = clock
        /\ charged' = [charged EXCEPT ![today] = @ + Accepted]
    BY <1>4, <2>1 DEF Commit
  <2>3. UsedToday \in Nat /\ (today \in DOMAIN charged => charged[today] <= UsedToday)
    <3>1. UsedToday = IF store.expires > clock /\ store.day = today THEN store.used ELSE 0
      BY <1>1, <2>1 DEF UsedToday, Loaded, BlankRow, NoDay
    <3>2. today \in DOMAIN charged =>
            charged[today] <= (IF store.day = today THEN store.used ELSE 0)
      BY <1>1 DEF Ledger
    <3>3. store.day = today => store.expires > clock
      BY <1>1, <1>2 DEF IndInv, TypeOK
    <3> HIDE DEF today
    <3> QED  BY <1>1, <3>1, <3>2, <3>3
  <2>4. store.day <= today
    BY <1>1, DaysInOrder DEF Ledger, NoDay
  <2>5. charged' \in [0..DayOf(MaxClock) -> Nat] /\ DOMAIN charged' = DOMAIN charged
    <3> DEFINE days == 0..DayOf(MaxClock)
    <3>1. charged \in [days -> Nat] /\ \A d \in days : charged[d] + Accepted \in Nat
      BY <2>1 DEF Ledger
    <3> HIDE DEF days, today
    <3>2. charged' \in [days -> Nat] /\ DOMAIN charged' = DOMAIN charged
      BY <2>2, <3>1
    <3> QED  BY <3>2 DEF days
  <2>6. ASSUME NEW d \in DOMAIN charged
        PROVE  /\ charged'[d] <= QUOTA
               /\ d >= today => charged'[d] <= (IF today = d THEN spent ELSE 0)
    <3>1. CASE d = today
      <4>1. charged'[d] = charged[d] + Accepted /\ charged[d] \in Nat
        BY <2>2, <3>1 DEF Ledger
      <4> QED  BY <1>1, <2>1, <2>2, <2>3, <3>1, <4>1
    <3>2. CASE d # today
      <4>1. charged'[d] = charged[d] /\ d \in Nat
        BY <2>2, <3>2 DEF Ledger
      <4> QED  BY <1>1, <2>4, <3>2, <4>1 DEF Ledger
    <3> QED  BY <3>1, <3>2
  <2> HIDE DEF spent, today
  <2>7. \E t \in Nat : /\ store'.day = DayOf(t) /\ t <= clock'
                       /\ store'.expires = t + RETENTION + GRACE
    BY <1>1, <2>2 DEF today
  <2>8. today = DayOf(clock')
    BY <2>2 DEF today
  <2> QED  BY <2>2, <2>5, <2>6, <2>7, <2>8 DEF Ledger
<1>5. CASE ReadState \/ PurgeExpired
  <2>1. /\ store'.day = NoDay /\ store'.used = 0 /\ store.expires <= clock
        /\ UNCHANGED <<clock, charged>>
    BY <1>5 DEF ReadState, PurgeExpired, DropExpired, BlankRow, history
  <2>2. \A d \in DOMAIN charged : d >= DayOf(clock) => charged[d] <= 0
    <3>1. \A d \in DOMAIN charged : d \in Nat
      BY DEF Ledger
    <3> QED  BY <1>1, <1>2, <2>1, <3>1 DEF Ledger
  <2> QED  BY <2>1, <2>2 DEF Ledger
<1>6. ASSUME UNCHANGED <<clock, store, charged>>  PROVE Ledger'
  BY <1>6 DEF Ledger
<1>7. CASE \/ \E r \in Slots : Request(r) \/ Begin(r)
           \/ \E e \in Events : Skip(e) \/ Absorb(e) \/ Refuse(e)
           \/ Rollback \/ OverQuota \/ UNCHANGED vars
  BY <1>6, <1>7 DEF Request, Begin, Skip, Absorb, Refuse, Rollback, OverQuota, Abandon,
                    history, vars
<1> QED  BY <1>3, <1>4, <1>5, <1>7 DEF Next

(* No UTC day is charged more events than the quota, when requests do not  *)
(* wait and storage keeps a row for at least a day: usage is forgotten     *)
(* with an expired row only once its day is over.                          *)
THEOREM QuotaCorrect ==
  AtOnce /\ StampedOnce /\ DAY <= RETENTION + GRACE => (Spec => []DailyQuotaHolds)
<1> SUFFICES ASSUME AtOnce, StampedOnce, DAY <= RETENTION + GRACE
             PROVE  Spec => []DailyQuotaHolds
  OBVIOUS
<1>1. Spec => []IndInv
  BY Invariance
<1>2. IndInv /\ Prompt /\ Ledger /\ [Next]_vars => (Prompt /\ Ledger)'
  BY PromptStep, LedgerStep
<1>3. Ledger => DailyQuotaHolds
  BY DEF Ledger, DailyQuotaHolds
<1> QED  BY <1>1, <1>2, <1>3, PromptInit, LedgerInit, PTL DEF Spec
=============================================================================
