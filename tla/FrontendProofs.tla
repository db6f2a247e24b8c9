--------------------------- MODULE FrontendProofs ---------------------------
(***************************************************************************)
(* Middleware and rate limiter for any number of requests and tenants, any *)
(* limits and any capacity: one response per request, no tenant admitted   *)
(* beyond its budget, and none refused by its own limiter within it.       *)
(***************************************************************************)
EXTENDS Frontend, FiniteSetTheorems, SequenceTheorems, TLAPS

Entry == [id : Tenants, start : Nat, count : Nat]

RequestRecord == [stage : Stages, open : BOOLEAN, tenant : Tenants \cup {NoTenant},
                  body : 0..MAX_BODY, now : 0..clock, starts : 0..2]

(* global_limit has the one identifier "all".                              *)
Single == all \in Seq([id : {"all"}, start : Nat, count : Nat])

(* A response has been started only where nothing else can start one, and  *)
(* there is a tenant to charge where one is charged.                       *)
Started ==
  \A r \in Slots :
    /\ request[r].starts <= 1
    /\ request[r].stage \notin {"responding", "ended"} => request[r].starts = 0
    /\ request[r].stage = "authenticated" => request[r].tenant \in Tenants

(* The dictionary: one entry per tenant.                                   *)
Dictionary ==
  /\ buckets \in Seq(Entry)
  /\ \A i, j \in 1..Len(buckets) : buckets[i].id = buckets[j].id => i = j

Histories ==
  /\ passed \in [Tenants -> Seq(Nat)] /\ since \in [Tenants -> SUBSET Tenants]
  /\ \A t \in Tenants : \A i \in 1..Len(passed[t]) : passed[t][i] <= clock

(* The tenants admitted since the last admission of an entry's tenant are  *)
(* the tenants of the entries behind it.                                   *)
Follow ==
  \A i \in 1..Len(buckets) :
    /\ since[buckets[i].id] = {buckets[j].id : j \in i + 1..Len(buckets)}
    /\ IsFiniteSet(since[buckets[i].id])
    /\ Cardinality(since[buckets[i].id]) = Len(buckets) - i

Forgotten ==
  \A t \in Tenants : (\A i \in 1..Len(buckets) : buckets[i].id # t) => passed[t] = << >>

(* A count stands for admissions not earlier than the window's start.      *)
Counted ==
  \A i \in 1..Len(buckets) :
    Cardinality(Since(passed[buckets[i].id], buckets[i].start)) >= buckets[i].count

(* Calls of the tenant that read the clock before a and are on their way.  *)
Overtaken(t, a) == {r \in Stalled : request[r].tenant = t /\ request[r].now < a}

Spent(t, a) == Cardinality(Since(passed[t], a)) + Cardinality(Overtaken(t, a))

(* What the count of a tenant's entry allows it to have spent since a.     *)
Covers(entry, spent, a) ==
  /\ entry.start < a - SECONDS => spent <= Cardinality(Slots)
  /\ a - SECONDS <= entry.start /\ entry.start < a
       => spent <= entry.count + Cardinality(Slots) - 1
  /\ a <= entry.start => spent <= entry.count + LIMIT + Cardinality(Slots) - 1

(* What a tenant has spent since an instant less than SECONDS ago.         *)
Budget ==
  \A t \in Tenants : \A a \in clock - SECONDS + 1..clock :
    /\ (\A i \in 1..Len(buckets) : buckets[i].id # t) => Spent(t, a) <= Cardinality(Slots)
    /\ \A i \in 1..Len(buckets) : buckets[i].id = t => Covers(buckets[i], Spent(t, a), a)

Inv == /\ TypeOK /\ Single /\ Started /\ Dictionary /\ Histories /\ Follow /\ Forgotten
       /\ Counted /\ Budget

-----------------------------------------------------------------------------
(***************************************************************************)
(* What an admission does to the dictionary: the tenant's entry goes, or   *)
(* the oldest one if there is no room, and the new entry comes last.       *)
(***************************************************************************)

Fresh(t, now) == [Tenant!Current(buckets, t, now) EXCEPT !.count = @ + 1]

Gone(t) == IF Tenant!Has(buckets, t) THEN Tenant!Place(buckets, t)
           ELSE IF Len(buckets) = CAPACITY THEN 1 ELSE 0

Kept(t) == IF Gone(t) = 0 THEN Len(buckets) ELSE Len(buckets) - 1

(* The place an entry that stays in place i has come from.                 *)
From(t, i) == IF Gone(t) = 0 \/ i < Gone(t) THEN i ELSE i + 1

LEMMA Sizes ==
  ASSUME Inv
  PROVE  /\ buckets \in Seq(Entry) /\ Len(buckets) \in Nat /\ Len(buckets) <= CAPACITY
         /\ DOMAIN buckets = 1..Len(buckets)
         /\ {GLOBAL_LIMIT, LIMIT, SECONDS, CAPACITY} \subseteq Nat /\ clock \in Nat
         /\ LIMIT >= 1 /\ SECONDS >= 1 /\ CAPACITY >= 1
         /\ \A i \in 1..Len(buckets) :
              /\ buckets[i] \in Entry /\ buckets[i].start <= clock
              /\ buckets[i].count >= 1 /\ buckets[i].count <= LIMIT
<1>1. buckets \in Seq(Entry) /\ Len(buckets) <= CAPACITY
  BY DEF Inv, Dictionary, TypeOK
<1>2. Len(buckets) \in Nat /\ DOMAIN buckets = 1..Len(buckets)
  BY <1>1, LenProperties
<1>3. {GLOBAL_LIMIT, LIMIT, SECONDS, CAPACITY, MaxClock} \subseteq Nat \ {0}
  BY FrontendAssumption
<1>4. clock \in 0..MaxClock
  BY DEF Inv, TypeOK
<1>5. ASSUME NEW i \in 1..Len(buckets)
      PROVE  /\ buckets[i] \in Entry /\ buckets[i].start <= clock
             /\ buckets[i].count >= 1 /\ buckets[i].count <= LIMIT
  <2>1. buckets[i] \in Entry /\ buckets[i] \in Range(buckets)
    BY <1>1, <1>2, ElementOfSeq DEF Range
  <2>2. buckets[i].start \in 0..clock /\ buckets[i].count \in 1..LIMIT
    BY <2>1 DEF Inv, TypeOK
  <2> QED  BY <1>3, <1>4, <2>1, <2>2
<1> QED  BY <1>1, <1>2, <1>3, <1>4, <1>5

(* The place of a tenant's entry.                                          *)
LEMMA PlaceIs ==
  ASSUME Inv, NEW t
  PROVE  /\ Tenant!Has(buckets, t) <=> \E i \in 1..Len(buckets) : buckets[i].id = t
         /\ Tenant!Has(buckets, t) =>
              /\ Tenant!Place(buckets, t) \in 1..Len(buckets)
              /\ buckets[Tenant!Place(buckets, t)].id = t
         /\ \A i \in 1..Len(buckets) : buckets[i].id = t => Tenant!Place(buckets, t) = i
<1>1. DOMAIN buckets = 1..Len(buckets)
  BY Sizes
<1>2. Tenant!Has(buckets, t) <=> \E i \in 1..Len(buckets) : buckets[i].id = t
  BY <1>1 DEF Tenant!Has
<1>3. Tenant!Has(buckets, t) =>
        /\ Tenant!Place(buckets, t) \in 1..Len(buckets)
        /\ buckets[Tenant!Place(buckets, t)].id = t
  BY <1>1 DEF Tenant!Has, Tenant!Place
<1>4. ASSUME NEW i \in 1..Len(buckets), buckets[i].id = t
      PROVE  Tenant!Place(buckets, t) = i
  <2>1. Tenant!Has(buckets, t)
    BY <1>2, <1>4
  <2> QED  BY <1>3, <1>4, <2>1 DEF Inv, Dictionary
<1> QED  BY <1>2, <1>3, <1>4

(* The new entry counts one more than the one it takes the place of.       *)
LEMMA FreshIs ==
  ASSUME Inv, NEW t \in Tenants, NEW now \in 0..clock, Tenant!Allows(buckets, t, now)
  PROVE  /\ Fresh(t, now) \in Entry /\ Fresh(t, now).id = t
         /\ Fresh(t, now).count \in 1..LIMIT /\ Fresh(t, now).start \in 0..clock
         /\ \/ /\ Fresh(t, now).start = now /\ Fresh(t, now).count = 1
               /\ \A i \in 1..Len(buckets) :
                    buckets[i].id = t => now - buckets[i].start >= SECONDS
            \/ \E i \in 1..Len(buckets) :
                 /\ buckets[i].id = t /\ ~ (now - buckets[i].start >= SECONDS)
                 /\ Fresh(t, now).start = buckets[i].start
                 /\ Fresh(t, now).count = buckets[i].count + 1
<1> DEFINE cur == Tenant!Current(buckets, t, now)
<1>1. /\ Len(buckets) \in Nat /\ clock \in Nat /\ LIMIT \in Nat /\ LIMIT >= 1
      /\ SECONDS \in Nat /\ SECONDS >= 1
      /\ \A i \in 1..Len(buckets) :
           /\ buckets[i] \in Entry /\ buckets[i].start <= clock
           /\ buckets[i].count >= 1 /\ buckets[i].count <= LIMIT
  BY Sizes
<1>2. now \in Nat /\ now <= clock
  BY <1>1
<1>3. ASSUME cur = [id |-> t, start |-> now, count |-> 0]
      PROVE  /\ Fresh(t, now) = [id |-> t, start |-> now, count |-> 1]
  BY <1>3 DEF Fresh
<1>4. CASE ~ Tenant!Has(buckets, t)
  <2>1. Tenant!Found(buckets, t, now) = [id |-> t, start |-> now, count |-> 0]
    BY <1>4 DEF Tenant!Found
  <2>2. cur = [id |-> t, start |-> now, count |-> 0]
    BY <1>1, <1>2, <2>1 DEF Tenant!Current
  <2>3. \A i \in 1..Len(buckets) : buckets[i].id # t
    BY <1>4, PlaceIs
  <2> QED  BY <1>1, <1>2, <1>3, <2>2, <2>3 DEF Entry
<1>5. CASE Tenant!Has(buckets, t)
  <2>1. PICK i \in 1..Len(buckets) : i = Tenant!Place(buckets, t) /\ buckets[i].id = t
    BY <1>5, PlaceIs
  <2>2. Tenant!Found(buckets, t, now) = buckets[i]
    BY <1>5, <2>1 DEF Tenant!Found
  <2>3. \A j \in 1..Len(buckets) : buckets[j].id = t => j = i
    BY <2>1, PlaceIs
  <2>4. CASE now - buckets[i].start >= SECONDS
    <3>1. cur = [id |-> t, start |-> now, count |-> 0]
      BY <2>2, <2>4 DEF Tenant!Current
    <3> QED  BY <1>1, <1>2, <1>3, <2>3, <2>4, <3>1 DEF Entry
  <2>5. CASE ~ (now - buckets[i].start >= SECONDS)
    <3>1. cur = buckets[i]
      BY <2>2, <2>5 DEF Tenant!Current
    <3>2. buckets[i].count < LIMIT
      BY <3>1 DEF Tenant!Allows
    <3>3. buckets[i] \in Entry
      BY <1>1
    <3>4. Fresh(t, now) = [buckets[i] EXCEPT !.count = buckets[i].count + 1]
      BY <3>1 DEF Fresh
    <3>5. /\ Fresh(t, now) \in Entry /\ Fresh(t, now).id = t
          /\ Fresh(t, now).start = buckets[i].start
          /\ Fresh(t, now).count = buckets[i].count + 1
      BY <2>1, <3>3, <3>4 DEF Entry
    <3>6. buckets[i].count + 1 \in 1..LIMIT /\ buckets[i].start \in 0..clock
      BY <1>1, <3>2, <3>3 DEF Entry
    <3> QED  BY <2>1, <2>5, <3>5, <3>6
  <2> QED  BY <2>4, <2>5
<1> QED  BY <1>4, <1>5

LEMMA GoneIs ==
  ASSUME Inv, NEW t
  PROVE  /\ Gone(t) \in 0..Len(buckets) /\ Kept(t) \in Nat
         /\ Gone(t) = 0 => ~ Tenant!Has(buckets, t) /\ Len(buckets) < CAPACITY
         /\ Gone(t) # 0 => \/ buckets[Gone(t)].id = t
                           \/ /\ ~ Tenant!Has(buckets, t) /\ Gone(t) = 1
                              /\ Len(buckets) = CAPACITY
         /\ \A i \in 1..Kept(t) : /\ From(t, i) \in 1..Len(buckets) /\ From(t, i) # Gone(t)
                                  /\ buckets[From(t, i)].id # t
         /\ \A i \in 1..Len(buckets) :
              i # Gone(t) => \E j \in 1..Kept(t) : i = From(t, j)
<1>1. Len(buckets) \in Nat /\ CAPACITY \in Nat /\ CAPACITY >= 1 /\ Len(buckets) <= CAPACITY
  BY Sizes
<1>2. Gone(t) \in 0..Len(buckets) /\ Kept(t) \in Nat
  <2>1. CASE Tenant!Has(buckets, t)
    BY <1>1, <2>1, PlaceIs DEF Gone, Kept
  <2>2. CASE ~ Tenant!Has(buckets, t)
    BY <1>1, <2>2 DEF Gone, Kept
  <2> QED  BY <2>1, <2>2
<1>3. Gone(t) = 0 => ~ Tenant!Has(buckets, t) /\ Len(buckets) < CAPACITY
  BY <1>1, PlaceIs DEF Gone
<1>4. Gone(t) # 0 => \/ buckets[Gone(t)].id = t
                     \/ /\ ~ Tenant!Has(buckets, t) /\ Gone(t) = 1 /\ Len(buckets) = CAPACITY
  BY PlaceIs DEF Gone
<1>5. \A i \in 1..Kept(t) : From(t, i) \in 1..Len(buckets) /\ From(t, i) # Gone(t)
  BY <1>1, <1>2 DEF From, Kept
<1>6. \A i \in 1..Len(buckets) : buckets[i].id = t => i = Gone(t)
  BY PlaceIs DEF Gone
<1>7. ASSUME NEW i \in 1..Len(buckets), i # Gone(t)
      PROVE  \E j \in 1..Kept(t) : i = From(t, j)
  <2>1. CASE Gone(t) = 0 \/ i < Gone(t)
    <3>1. i \in 1..Kept(t) /\ i = From(t, i)
      BY <1>1, <1>2, <1>7, <2>1 DEF Kept, From
    <3> QED  BY <3>1
  <2>2. CASE ~ (Gone(t) = 0 \/ i < Gone(t))
    <3>1. i - 1 \in 1..Kept(t) /\ i = From(t, i - 1)
      BY <1>1, <1>2, <1>7, <2>2 DEF Kept, From
    <3> QED  BY <3>1
  <2> QED  BY <2>1, <2>2
<1> QED  BY <1>2, <1>3, <1>4, <1>5, <1>6, <1>7

Admitted(t, now) == Tenant!Admit(buckets, t, now)

LEMMA OthersIs ==
  ASSUME Inv, NEW t, Tenant!Has(buckets, t)
  PROVE  /\ Tenant!Others(buckets, t) \in Seq(Entry)
         /\ Len(Tenant!Others(buckets, t)) = Len(buckets) - 1
         /\ \A i \in 1..Len(buckets) - 1 :
              Tenant!Others(buckets, t)[i]
                = IF i < Tenant!Place(buckets, t) THEN buckets[i] ELSE buckets[i + 1]
<1> DEFINE p == Tenant!Place(buckets, t)
           front == SubSeq(buckets, 1, p - 1)
           back == SubSeq(buckets, p + 1, Len(buckets))
<1>1. Len(buckets) \in Nat /\ p \in 1..Len(buckets)
      /\ \A i \in 1..Len(buckets) : buckets[i] \in Entry
  BY Sizes, PlaceIs
<1>2. Tenant!Others(buckets, t) = front \o back
  BY DEF Tenant!Others
<1> HIDE DEF p
<1>3. 1 \in Int /\ p - 1 \in Int /\ p + 1 \in Int /\ Len(buckets) \in Int
      /\ (p - 1) - 1 + 1 = p - 1 /\ Len(buckets) - (p + 1) + 1 = Len(buckets) - p
  BY <1>1
<1>4. (\A i \in 1..p - 1 : buckets[i] \in Entry)
      /\ (\A i \in p + 1..Len(buckets) : buckets[i] \in Entry)
  BY <1>1
<1>5. /\ front \in Seq(Entry) /\ Len(front) = p - 1
      /\ \A i \in 1..p - 1 : front[i] = buckets[i]
  <2>1. /\ front \in Seq(Entry) /\ Len(front) = IF 1 <= p - 1 THEN (p - 1) - 1 + 1 ELSE 0
        /\ \A i \in 1..(p - 1) - 1 + 1 : front[i] = buckets[1 + i - 1]
    BY <1>3, <1>4, SubSeqProperties
  <2>2. \A i \in 1..p - 1 : 1 + i - 1 = i
    BY <1>1
  <2> QED  BY <1>1, <1>3, <2>1, <2>2
<1>6. /\ back \in Seq(Entry) /\ Len(back) = Len(buckets) - p
      /\ \A i \in 1..Len(buckets) - p : back[i] = buckets[p + i]
  <2>1. /\ back \in Seq(Entry)
        /\ Len(back) = IF p + 1 <= Len(buckets) THEN Len(buckets) - (p + 1) + 1 ELSE 0
        /\ \A i \in 1..Len(buckets) - (p + 1) + 1 : back[i] = buckets[(p + 1) + i - 1]
    BY <1>3, <1>4, SubSeqProperties
  <2>2. \A i \in 1..Len(buckets) - p : (p + 1) + i - 1 = p + i
    BY <1>1
  <2>3. ~ (p + 1 <= Len(buckets)) => Len(buckets) - p = 0
    BY <1>1
  <2>4. Len(back) = Len(buckets) - p
    BY <1>3, <2>1, <2>3
  <2>5. \A i \in 1..Len(buckets) - p : back[i] = buckets[p + i]
    BY <1>3, <2>1, <2>2
  <2> QED  BY <2>1, <2>4, <2>5
<1> HIDE DEF front, back
<1>7. /\ front \o back \in Seq(Entry) /\ Len(front \o back) = Len(front) + Len(back)
      /\ \A i \in 1..Len(front) + Len(back) :
           (front \o back)[i] = IF i <= Len(front) THEN front[i] ELSE back[i - Len(front)]
  BY <1>5, <1>6, ConcatProperties
<1>8. Len(front) + Len(back) = Len(buckets) - 1
  BY <1>1, <1>5, <1>6
<1>9. ASSUME NEW i \in 1..Len(buckets) - 1
      PROVE  (front \o back)[i] = IF i < p THEN buckets[i] ELSE buckets[i + 1]
  <2>1. CASE i < p
    BY <1>1, <1>5, <1>7, <1>8, <1>9, <2>1
  <2>2. CASE ~ (i < p)
    <3>1. i - (p - 1) \in 1..Len(buckets) - p /\ p + (i - (p - 1)) = i + 1
      BY <1>1, <1>9, <2>2
    <3>2. (front \o back)[i] = back[i - (p - 1)]
      BY <1>1, <1>5, <1>7, <1>8, <1>9, <2>2
    <3>3. back[i - (p - 1)] = buckets[p + (i - (p - 1))]
      BY <1>6, <3>1
    <3> QED  BY <2>2, <3>1, <3>2, <3>3
  <2> QED  BY <2>1, <2>2
<1> QED  BY <1>2, <1>7, <1>8, <1>9 DEF p

LEMMA AdmittedIs ==
  ASSUME Inv, NEW t \in Tenants, NEW now \in 0..clock, Tenant!Allows(buckets, t, now)
  PROVE  /\ Admitted(t, now) \in Seq(Entry) /\ Len(Admitted(t, now)) = Kept(t) + 1
         /\ Kept(t) + 1 <= CAPACITY
         /\ \A i \in 1..Kept(t) : Admitted(t, now)[i] = buckets[From(t, i)]
         /\ Admitted(t, now)[Kept(t) + 1] = Fresh(t, now)
<1> DEFINE rest == Tenant!Others(buckets, t)
           new == Append(rest, Fresh(t, now))
<1>1. /\ buckets \in Seq(Entry) /\ Len(buckets) \in Nat /\ Len(buckets) <= CAPACITY
      /\ CAPACITY \in Nat /\ CAPACITY >= 1
  BY Sizes
<1>2. Admitted(t, now) = Tenant!Newest(new)
  BY DEF Admitted, Tenant!Admit, Fresh
<1>3. Fresh(t, now) \in Entry
  BY FreshIs
<1>4. ASSUME rest \in Seq(Entry)
      PROVE  /\ new \in Seq(Entry) /\ Len(new) = Len(rest) + 1
             /\ \A i \in 1..Len(rest) : new[i] = rest[i]
             /\ new[Len(rest) + 1] = Fresh(t, now)
  BY <1>3, <1>4, AppendProperties
<1>5. ASSUME new \in Seq(Entry), Len(new) <= CAPACITY PROVE Admitted(t, now) = new
  <2>1. Len(new) \in Nat
    BY <1>5, LenProperties
  <2>2. Tenant!Newest(new) = SubSeq(new, 1, Len(new))
    <3>1. ~ (Len(new) > CAPACITY)
      BY <1>1, <1>5, <2>1
    <3> HIDE DEF new
    <3> QED  BY <3>1 DEF Tenant!Newest
  <2>3. SubSeq(new, 1, Len(new)) = new
    BY <1>5, SubSeqFull
  <2> QED  BY <1>2, <2>2, <2>3
<1>6. CASE Tenant!Has(buckets, t)
  <2>1. Tenant!Place(buckets, t) \in 1..Len(buckets) /\ Gone(t) = Tenant!Place(buckets, t)
        /\ Kept(t) = Len(buckets) - 1
    BY <1>1, <1>6, PlaceIs DEF Gone, Kept
  <2>2. /\ rest \in Seq(Entry) /\ Len(rest) = Kept(t)
        /\ \A i \in 1..Kept(t) :
             rest[i] = IF i < Gone(t) THEN buckets[i] ELSE buckets[i + 1]
    BY <1>6, <2>1, OthersIs
  <2>3. \A i \in 1..Kept(t) : rest[i] = buckets[From(t, i)]
    BY <1>1, <2>1, <2>2 DEF From
  <2>4. Kept(t) + 1 <= CAPACITY /\ Kept(t) \in Nat
    BY <1>1, <2>1
  <2> HIDE DEF rest
  <2>5. Admitted(t, now) = new
    BY <1>4, <1>5, <2>2, <2>4
  <2> QED  BY <1>4, <2>2, <2>3, <2>4, <2>5
<1>7. CASE ~ Tenant!Has(buckets, t)
  <2>1. rest = buckets
    BY <1>7 DEF Tenant!Others
  <2> HIDE DEF rest
  <2>2. CASE Len(buckets) # CAPACITY
    <3>1. Gone(t) = 0 /\ Kept(t) = Len(buckets) /\ \A i : From(t, i) = i
      BY <1>7, <2>2 DEF Gone, Kept, From
    <3>2. Kept(t) + 1 <= CAPACITY
      BY <1>1, <2>2, <3>1
    <3>3. Admitted(t, now) = new
      BY <1>1, <1>4, <1>5, <2>1, <3>1, <3>2
    <3> QED  BY <1>1, <1>4, <2>1, <3>1, <3>2, <3>3
  <2>3. CASE Len(buckets) = CAPACITY
    <3>1. Gone(t) = 1 /\ Kept(t) = CAPACITY - 1 /\ \A i \in Nat \ {0} : From(t, i) = i + 1
      BY <1>7, <2>3 DEF Gone, Kept, From
    <3>2. new \in Seq(Entry) /\ Len(new) = CAPACITY + 1
          /\ (\A i \in 1..CAPACITY : new[i] = buckets[i]) /\ new[CAPACITY + 1] = Fresh(t, now)
      BY <1>1, <1>4, <2>1, <2>3
    <3> HIDE DEF new
    <3>3. Admitted(t, now) = SubSeq(new, 2, CAPACITY + 1)
      <4>1. Len(new) > CAPACITY /\ Len(new) - CAPACITY + 1 = 2
        BY <1>1, <3>2
      <4> QED  BY <1>2, <3>2, <4>1 DEF Tenant!Newest
    <3>4. PICK last : last = CAPACITY + 1
      OBVIOUS
    <3>5. 2 \in Int /\ last \in Int /\ 2 <= last /\ last - 2 + 1 = CAPACITY
          /\ \A i \in 2..last : new[i] \in Entry
      BY <1>1, <3>2, <3>4, ElementOfSeq
    <3>6. /\ SubSeq(new, 2, last) \in Seq(Entry)
          /\ Len(SubSeq(new, 2, last)) = IF 2 <= last THEN last - 2 + 1 ELSE 0
          /\ \A i \in 1..last - 2 + 1 : SubSeq(new, 2, last)[i] = new[2 + i - 1]
      BY <3>5, SubSeqProperties
    <3>7. \A i \in 1..CAPACITY : Admitted(t, now)[i] = new[i + 1]
      <4>1. \A i \in 1..CAPACITY : 2 + i - 1 = i + 1
        BY <1>1
      <4> QED  BY <3>3, <3>4, <3>5, <3>6, <4>1
    <3>8. \A i \in 1..CAPACITY - 1 : i + 1 \in 1..CAPACITY /\ i \in Nat \ {0} /\ i \in 1..CAPACITY
      BY <1>1
    <3>9. \A i \in 1..CAPACITY - 1 : Admitted(t, now)[i] = buckets[From(t, i)]
      BY <3>1, <3>2, <3>7, <3>8
    <3>10. Admitted(t, now)[CAPACITY] = Fresh(t, now)
      <4>1. CAPACITY \in 1..CAPACITY
        BY <1>1
      <4> QED  BY <3>2, <3>7, <4>1
    <3>11. Kept(t) + 1 = CAPACITY /\ CAPACITY <= CAPACITY
      BY <1>1, <3>1
    <3>12. Admitted(t, now) \in Seq(Entry) /\ Len(Admitted(t, now)) = CAPACITY
      BY <3>3, <3>4, <3>5, <3>6
    <3>13. \A i \in 1..Kept(t) : Admitted(t, now)[i] = buckets[From(t, i)]
      BY <3>1, <3>9
    <3> QED  BY <3>10, <3>11, <3>12, <3>13
  <2> QED  BY <2>2, <2>3
<1> QED  BY <1>6, <1>7

-----------------------------------------------------------------------------
(***************************************************************************)
(* Histories and calls on their way.                                       *)
(***************************************************************************)

LEMMA SinceFinite ==
  ASSUME NEW s \in Seq(Nat), NEW a \in Int
  PROVE  /\ IsFiniteSet(Since(s, a)) /\ Cardinality(Since(s, a)) \in Nat
         /\ \A b \in Int : b <= a => Cardinality(Since(s, a)) <= Cardinality(Since(s, b))
<1>1. Len(s) \in Nat /\ DOMAIN s = 1..Len(s) /\ \A i \in 1..Len(s) : s[i] \in Nat
  BY LenProperties, ElementOfSeq
<1>2. IsFiniteSet(1..Len(s))
  BY <1>1, FS_Interval
<1>3. ASSUME NEW b \in Int PROVE IsFiniteSet(Since(s, b))
  <2>1. Since(s, b) \in SUBSET (1..Len(s))
    BY <1>1 DEF Since
  <2> QED  BY <1>2, <2>1, FS_Subset
<1>4. ASSUME NEW b \in Int, b <= a PROVE Cardinality(Since(s, a)) <= Cardinality(Since(s, b))
  <2>1. Since(s, a) \in SUBSET Since(s, b)
    BY <1>1, <1>4 DEF Since
  <2> QED  BY <1>3, <2>1, FS_Subset
<1> QED  BY <1>3, <1>4, FS_CardinalityType

(* One more admission is one more in every span that reaches it.           *)
LEMMA SinceAppended ==
  ASSUME NEW s \in Seq(Nat), NEW now \in Nat, NEW a \in Int, a <= now
  PROVE  Cardinality(Since(Append(s, now), a)) = Cardinality(Since(s, a)) + 1
<1>1. Len(s) \in Nat /\ DOMAIN s = 1..Len(s)
  BY LenProperties
<1>2. /\ Append(s, now) \in Seq(Nat) /\ Len(Append(s, now)) = Len(s) + 1
      /\ \A i \in 1..Len(s) : Append(s, now)[i] = s[i]
      /\ Append(s, now)[Len(s) + 1] = now
  BY AppendProperties
<1>3. DOMAIN Append(s, now) = 1..Len(s) + 1
  BY <1>2, LenProperties
<1>4. Since(Append(s, now), a) = Since(s, a) \cup {Len(s) + 1}
  BY <1>1, <1>2, <1>3 DEF Since
<1>5. Len(s) + 1 \notin Since(s, a)
  BY <1>1 DEF Since
<1> QED  BY <1>4, <1>5, SinceFinite, FS_AddElement

LEMMA SinceNone == ASSUME NEW a PROVE Cardinality(Since(<< >>, a)) = 0
<1>1. Since(<< >>, a) = {}
  BY DEF Since
<1> QED  BY <1>1, FS_EmptySet

LEMMA SlotsFinite == IsFiniteSet(Slots) /\ Cardinality(Slots) \in Nat
BY FrontendAssumption, FS_CardinalityType

LEMMA OvertakenFinite ==
  ASSUME NEW t, NEW a
  PROVE  /\ IsFiniteSet(Overtaken(t, a)) /\ Cardinality(Overtaken(t, a)) \in Nat
         /\ Cardinality(Overtaken(t, a)) <= Cardinality(Slots)
<1>1. Overtaken(t, a) \in SUBSET Slots
  BY DEF Overtaken, Stalled
<1> QED  BY <1>1, SlotsFinite, FS_Subset, FS_CardinalityType

LEMMA SpentIs ==
  ASSUME Inv, NEW t \in Tenants, NEW a \in Int
  PROVE  Spent(t, a) \in Nat
<1>1. passed[t] \in Seq(Nat)
  BY DEF Inv, Histories
<1>2. Cardinality(Since(passed[t], a)) \in Nat
  BY <1>1, SinceFinite
<1>3. Cardinality(Overtaken(t, a)) \in Nat
  BY OvertakenFinite
<1> QED  BY <1>2, <1>3 DEF Spent

(* Who has no history has spent no more than its calls on the way.         *)
LEMMA SpentNone ==
  ASSUME NEW t \in Tenants, NEW a \in Int, passed[t] = << >>
  PROVE  Spent(t, a) <= Cardinality(Slots)
BY SinceNone, OvertakenFinite, SlotsFinite DEF Spent

(* What covers an amount covers less.                                      *)
LEMMA CoversLess ==
  ASSUME NEW entry \in Entry, NEW a, NEW before \in Nat, NEW after \in Nat, after <= before,
         Covers(entry, before, a)
  PROVE  Covers(entry, after, a)
<1>1. PICK slots, count \in Nat : slots = Cardinality(Slots) /\ count = entry.count
  BY SlotsFinite DEF Entry
<1>2. LIMIT \in Nat /\ slots \in Nat
  BY <1>1, FrontendAssumption, SlotsFinite
<1>3. /\ before <= slots => after <= slots
      /\ before <= count + slots - 1 => after <= count + slots - 1
      /\ before <= count + LIMIT + slots - 1 => after <= count + LIMIT + slots - 1
  BY <1>1, <1>2
<1> QED  BY <1>1, <1>3 DEF Covers

LEMMA InitInv == Init => Inv
<1> SUFFICES ASSUME Init PROVE Inv
  OBVIOUS
<1> USE DEF Init
<1>1. {GLOBAL_LIMIT, LIMIT, SECONDS, CAPACITY, MAX_BODY, MaxClock} \subseteq Nat \ {0}
  BY FrontendAssumption
<1>2. \A S : << >> \in Seq(S) /\ Len(<< >>) = 0
  BY EmptySeq
<1>3. TypeOK
  <2>1. request \in [Slots -> [stage : Stages, open : BOOLEAN, tenant : Tenants \cup {NoTenant},
                               body : 0..MAX_BODY, now : 0..clock, starts : 0..2]]
    BY <1>1 DEF NoRequest, Stages
  <2>2. Range(buckets) = {}
    BY DEF Range
  <2>3. Len(buckets) <= CAPACITY /\ Len(all) <= 1 /\ clock \in 0..MaxClock
    BY <1>1, <1>2
  <2> QED  BY <2>1, <2>2, <2>3 DEF TypeOK
<1>4. Single /\ Dictionary
  BY <1>2 DEF Single, Dictionary
<1>5. Started
  BY DEF Started, NoRequest
<1>6. Histories
  BY <1>2 DEF Histories
<1>7. Follow /\ Counted
  BY <1>2 DEF Follow, Counted
<1>8. Forgotten
  BY DEF Forgotten
<1>9. Budget
  <2>1. ASSUME NEW t \in Tenants, NEW a \in clock - SECONDS + 1..clock
        PROVE  Spent(t, a) <= Cardinality(Slots)
    <3>1. a \in Int
      BY <1>1
    <3> QED  BY <3>1, SpentNone
  <2> QED  BY <1>2, <2>1 DEF Budget
<1> QED  BY <1>3, <1>4, <1>5, <1>6, <1>7, <1>8, <1>9 DEF Inv

-----------------------------------------------------------------------------
(***************************************************************************)
(* Steps that leave the dictionary and the histories alone.                *)
(***************************************************************************)

(* The middleware's own limit keeps its one bucket.                        *)
LEMMA GlobalAdmit ==
  ASSUME Inv, Global!Allows(all, "all", clock)
  PROVE  /\ Global!Admit(all, "all", clock) \in Seq([id : {"all"}, start : Nat, count : Nat])
         /\ Len(Global!Admit(all, "all", clock)) <= 1
<1> DEFINE Bucket == [id : {"all"}, start : Nat, count : Nat]
           cur == Global!Current(all, "all", clock)
<1>1. all \in Seq(Bucket) /\ Len(all) <= 1
  BY DEF Inv, Single, TypeOK
<1>2. Len(all) \in {0, 1} /\ DOMAIN all = 1..Len(all) /\ \A i \in 1..Len(all) : all[i] \in Bucket
  <2>1. Len(all) \in Nat /\ DOMAIN all = 1..Len(all)
    BY <1>1, LenProperties
  <2>2. \A i \in 1..Len(all) : all[i] \in Bucket
    BY <1>1, ElementOfSeq
  <2>3. Len(all) \in {0, 1}
    BY <1>1, <2>1
  <2> QED  BY <2>1, <2>2, <2>3
<1>3. clock \in Nat
  BY Sizes
<1>4. Global!Others(all, "all") = << >>
  <2>1. CASE Global!Has(all, "all")
    <3>1. Len(all) = 1 /\ Global!Place(all, "all") = 1
      BY <1>2, <2>1 DEF Global!Has, Global!Place
    <3>2. SubSeq(all, 1, 1 - 1) = << >> /\ SubSeq(all, 1 + 1, 1) = << >>
      BY SubSeqEmpty
    <3>3. Global!Others(all, "all") = SubSeq(all, 1, 1 - 1) \o SubSeq(all, 1 + 1, 1)
      BY <2>1, <3>1 DEF Global!Others
    <3> QED  BY <3>2, <3>3
  <2>2. CASE ~ Global!Has(all, "all")
    <3>1. Len(all) = 0
      <4>1. ASSUME Len(all) = 1 PROVE FALSE
        BY <1>2, <2>2, <4>1 DEF Global!Has
      <4> QED  BY <1>2, <4>1
    <3>2. all = << >>
      BY <1>1, <3>1, EmptySeq
    <3> QED  BY <2>2, <3>2 DEF Global!Others
  <2> QED  BY <2>1, <2>2
<1>5. cur \in Bucket
  <2>1. Global!Found(all, "all", clock) \in Bucket
    <3>1. CASE Global!Has(all, "all")
      <4>1. Global!Place(all, "all") \in 1..Len(all)
        BY <1>2, <3>1 DEF Global!Has, Global!Place
      <4> QED  BY <1>2, <3>1, <4>1 DEF Global!Found
    <3>2. CASE ~ Global!Has(all, "all")
      BY <1>3, <3>2 DEF Global!Found
    <3> QED  BY <3>1, <3>2
  <2> QED  BY <1>3, <2>1 DEF Global!Current
<1> DEFINE new == [cur EXCEPT !.count = @ + 1]
<1>6. new \in Bucket
  <2> HIDE DEF cur
  <2>1. PICK n \in Nat : n = cur.count
    BY <1>5
  <2>2. n + 1 \in Nat
    BY <2>1
  <2>3. [cur EXCEPT !.count = n + 1] \in Bucket
    BY <1>5, <2>2
  <2> QED  BY <2>1, <2>3
<1>7. Append(<< >>, new) = <<new>>
  OBVIOUS
<1>8. Global!Admit(all, "all", clock) = Global!Newest(<<new>>)
  <2>1. Global!Admit(all, "all", clock) = Global!Newest(Append(Global!Others(all, "all"), new))
    BY DEF Global!Admit
  <2> HIDE DEF new
  <2> QED  BY <1>4, <1>7, <2>1
<1> HIDE DEF cur, new
<1>9. <<new>> \in Seq(Bucket) /\ Len(<<new>>) = 1
  BY <1>6
<1>10. Global!Newest(<<new>>) = SubSeq(<<new>>, 1, Len(<<new>>))
  BY <1>9 DEF Global!Newest
<1>11. SubSeq(<<new>>, 1, Len(<<new>>)) = <<new>>
  BY <1>9, SubSeqFull
<1>12. Global!Admit(all, "all", clock) = <<new>>
  BY <1>8, <1>10, <1>11
<1>13. Len(<<new>>) <= 1
  BY <1>9
<1> QED  BY <1>9, <1>12, <1>13

LEMMA RequestStep ==
  ASSUME Inv, UNCHANGED <<clock, buckets, passed, since>>,
         NEW r \in Slots, NEW rec \in RequestRecord, request' = [request EXCEPT ![r] = rec],
         rec.starts <= 1, rec.stage \notin {"responding", "ended"} => rec.starts = 0,
         rec.stage = "authenticated" => rec.now = clock /\ rec.tenant \in Tenants,
         all' \in Seq([id : {"all"}, start : Nat, count : Nat]), Len(all') <= 1
  PROVE  Inv'
<1>1. request \in [Slots -> RequestRecord]
  BY DEF Inv, TypeOK, RequestRecord
<1>2. request' \in [Slots -> RequestRecord] /\ \A q \in Slots : q # r => request'[q] = request[q]
      /\ request'[r] = rec
  BY <1>1
<1>3. TypeOK'
  BY <1>2 DEF Inv, TypeOK, RequestRecord
<1>4. Single'
  BY DEF Single
<1>5. Started'
  BY <1>2 DEF Inv, Started
<1>6. Dictionary' /\ Histories' /\ Follow' /\ Forgotten' /\ Counted'
  BY DEF Inv, Dictionary, Histories, Follow, Forgotten, Counted, Since
<1>7. ASSUME NEW t \in Tenants, NEW a \in clock - SECONDS + 1..clock
      PROVE  Spent(t, a)' <= Spent(t, a) /\ Spent(t, a)' \in Nat /\ Spent(t, a) \in Nat
  <2>1. clock \in Nat /\ SECONDS \in Nat /\ a \in Int /\ a <= clock
    BY Sizes
  <2>2. Overtaken(t, a)' \in SUBSET Overtaken(t, a)
    <3>1. ASSUME NEW q \in Overtaken(t, a)' PROVE q \in Overtaken(t, a)
      <4>1. q \in Slots /\ request'[q].stage = "authenticated" /\ request'[q].tenant = t
            /\ request'[q].now < a
        BY <3>1 DEF Overtaken, Stalled, At
      <4>2. q # r
        BY <1>2, <2>1, <4>1
      <4> QED  BY <1>2, <4>1, <4>2 DEF Overtaken, Stalled, At
    <3> QED  BY <3>1
  <2>3. PICK before, after : before = Overtaken(t, a) /\ after = Overtaken(t, a)'
    OBVIOUS
  <2>4. IsFiniteSet(before)
    BY <2>3, OvertakenFinite
  <2>5. Cardinality(after) <= Cardinality(before) /\ Cardinality(after) \in Nat
        /\ Cardinality(before) \in Nat
    BY <2>2, <2>3, <2>4, FS_Subset, FS_CardinalityType
  <2>6. PICK n : n = Cardinality(Since(passed[t], a))
    OBVIOUS
  <2>7. n \in Nat
    BY <2>1, <2>6, SinceFinite DEF Inv, Histories
  <2>8. Spent(t, a) = n + Cardinality(before) /\ Spent(t, a)' = n + Cardinality(after)
    BY <2>3, <2>6 DEF Spent, Since
  <2> QED  BY <2>5, <2>7, <2>8
<1>8. Budget'
  <2>1. ASSUME NEW t \in Tenants, NEW a \in clock - SECONDS + 1..clock
        PROVE  /\ (\A i \in 1..Len(buckets) : buckets[i].id # t)
                    => Spent(t, a)' <= Cardinality(Slots)
               /\ \A i \in 1..Len(buckets) :
                    buckets[i].id = t => Covers(buckets[i], Spent(t, a)', a)
    <3>1. PICK before, after : before = Spent(t, a) /\ after = Spent(t, a)'
      OBVIOUS
    <3>2. after <= before /\ after \in Nat /\ before \in Nat
      BY <1>7, <3>1
    <3>3. /\ (\A i \in 1..Len(buckets) : buckets[i].id # t) => before <= Cardinality(Slots)
          /\ \A i \in 1..Len(buckets) : buckets[i].id = t => Covers(buckets[i], before, a)
      BY <3>1 DEF Inv, Budget
    <3>4. Cardinality(Slots) \in Nat /\ LIMIT \in Nat
          /\ \A i \in 1..Len(buckets) : buckets[i] \in Entry
      BY Sizes, SlotsFinite
    <3>5. ASSUME NEW i \in 1..Len(buckets), Covers(buckets[i], before, a)
          PROVE  Covers(buckets[i], after, a)
      <4>1. buckets[i] \in Entry
        BY <3>4
      <4> QED  BY <3>2, <3>5, <4>1, CoversLess
    <3>6. (\A i \in 1..Len(buckets) : buckets[i].id # t) => after <= Cardinality(Slots)
      BY <3>2, <3>3, <3>4
    <3> QED  BY <3>1, <3>3, <3>5, <3>6
  <2> QED  BY <2>1 DEF Budget, Covers
<1> QED  BY <1>3, <1>4, <1>5, <1>6, <1>8 DEF Inv

LEMMA TickStep == Inv /\ Tick => Inv'
<1> SUFFICES ASSUME Inv, Tick PROVE Inv'
  OBVIOUS
<1>1. /\ clock' = clock + 1 /\ clock < MaxClock
      /\ UNCHANGED <<all, buckets, request, passed, since>>
  BY DEF Tick
<1>2. clock \in Nat /\ MaxClock \in Nat /\ SECONDS \in Nat /\ LIMIT \in Nat /\ LIMIT >= 1
  BY Sizes, FrontendAssumption
<1>3. TypeOK'
  <2>1. clock' \in 0..MaxClock
    BY <1>1, <1>2
  <2>2. 0..clock \subseteq 0..clock'
    BY <1>1, <1>2
  <2>3. \A b \in Range(buckets)' : b.id \in Tenants /\ b.start \in 0..clock' /\ b.count \in 1..LIMIT
    BY <1>1, <2>2 DEF Inv, TypeOK, Range
  <2>4. request \in [Slots -> RequestRecord] /\ RequestRecord \subseteq RequestRecord'
    BY <2>2 DEF Inv, TypeOK, RequestRecord
  <2>5. request' \in [Slots -> RequestRecord']
    BY <1>1, <2>4
  <2>6. Len(buckets') <= CAPACITY /\ Len(all') <= 1
    BY <1>1 DEF Inv, TypeOK
  <2> QED  BY <2>1, <2>3, <2>5, <2>6 DEF TypeOK, RequestRecord
<1>4. Single' /\ Started' /\ Dictionary' /\ Follow' /\ Forgotten' /\ Counted'
  <2>1. Single' /\ Started'
    BY <1>1 DEF Inv, Single, Started
  <2>2. Dictionary' /\ Forgotten'
    BY <1>1 DEF Inv, Dictionary, Forgotten
  <2>3. Follow'
    BY <1>1 DEF Inv, Follow
  <2>4. Counted'
    BY <1>1 DEF Inv, Counted, Since
  <2> QED  BY <2>1, <2>2, <2>3, <2>4
<1>5. Histories'
  <2>1. ASSUME NEW t \in Tenants, NEW i \in 1..Len(passed[t]) PROVE passed[t][i] <= clock + 1
    <3>1. passed[t] \in Seq(Nat) /\ passed[t][i] <= clock
      BY DEF Inv, Histories
    <3>2. passed[t][i] \in Nat
      BY <3>1, ElementOfSeq
    <3> QED  BY <1>2, <3>1, <3>2
  <2> QED  BY <1>1, <2>1 DEF Inv, Histories
<1>6. Budget'
  <2>1. ASSUME NEW t \in Tenants, NEW a \in clock + 1 - SECONDS + 1..clock + 1
        PROVE  /\ (\A i \in 1..Len(buckets) : buckets[i].id # t)
                    => Spent(t, a) <= Cardinality(Slots)
               /\ \A i \in 1..Len(buckets) :
                    buckets[i].id = t => Covers(buckets[i], Spent(t, a), a)
    <3>1. CASE a <= clock
      <4>1. a \in clock - SECONDS + 1..clock
        BY <1>2, <3>1
      <4> QED  BY <4>1 DEF Inv, Budget
    <3>2. CASE ~ (a <= clock)
      <4>1. a = clock + 1 /\ a \in Int
        BY <1>2, <3>2
      <4>2. passed[t] \in Seq(Nat) /\ \A i \in 1..Len(passed[t]) : passed[t][i] <= clock
        BY DEF Inv, Histories
      <4>3. Since(passed[t], a) = {}
        <5>1. \A i \in DOMAIN passed[t] : passed[t][i] \in Nat /\ passed[t][i] <= clock
          BY <4>2, LenProperties, ElementOfSeq
        <5> QED  BY <1>2, <4>1, <5>1 DEF Since
      <4>4. PICK spent : spent = Spent(t, a)
        OBVIOUS
      <4>5. spent \in Nat /\ spent <= Cardinality(Slots) /\ Cardinality(Slots) \in Nat
        <5>1. Cardinality(Since(passed[t], a)) = 0
          BY <4>3, FS_EmptySet
        <5> QED  BY <4>4, <5>1, SlotsFinite, OvertakenFinite DEF Spent
      <4>6. ASSUME NEW i \in 1..Len(buckets) PROVE Covers(buckets[i], spent, a)
        <5>1. buckets[i].count \in Nat /\ buckets[i].count >= 1
          BY Sizes DEF Entry
        <5> QED  BY <1>2, <4>5, <5>1 DEF Covers
      <4> QED  BY <4>4, <4>5, <4>6
    <3> QED  BY <3>1, <3>2
  <2>2. \A t, a : Spent(t, a)' = Spent(t, a)
    BY <1>1 DEF Spent, Since, Overtaken, Stalled, At
  <2>3. buckets' = buckets /\ clock' = clock + 1
    BY <1>1
  <2>4. Budget' <=> \A t \in Tenants : \A a \in clock' - SECONDS + 1..clock' :
           /\ (\A i \in 1..Len(buckets') : buckets'[i].id # t)
                => Spent(t, a)' <= Cardinality(Slots)
           /\ \A i \in 1..Len(buckets') :
                buckets'[i].id = t => Covers(buckets'[i], Spent(t, a)', a)
    BY DEF Budget, Covers
  <2>5. ASSUME NEW t \in Tenants, NEW a \in clock' - SECONDS + 1..clock'
        PROVE  /\ (\A i \in 1..Len(buckets') : buckets'[i].id # t)
                    => Spent(t, a)' <= Cardinality(Slots)
               /\ \A i \in 1..Len(buckets') :
                    buckets'[i].id = t => Covers(buckets'[i], Spent(t, a)', a)
    <3>1. a \in clock + 1 - SECONDS + 1..clock + 1
      BY <1>2, <2>3
    <3>2. Spent(t, a)' = Spent(t, a)
      BY <2>2
    <3> QED  BY <2>1, <2>3, <3>1, <3>2
  <2> QED  BY <2>4, <2>5
<1> QED  BY <1>3, <1>4, <1>5, <1>6 DEF Inv

(* The middleware's steps, and those of `require` that admit nobody.       *)
LEMMA OtherStep ==
  ASSUME Inv, NEW r \in Slots,
         \/ \E open \in BOOLEAN : Arrive(r, open)
         \/ \E chunk \in 0..MAX_BODY, more \in BOOLEAN : Receive(r, chunk, more)
         \/ \E t \in Tenants \cup {NoTenant} : Authenticate(r, t)
         \/ Reject(r) \/ Disconnect(r) \/ Fail(r) \/ RateLimited(r) \/ Respond(r) \/ Sent(r)
  PROVE  Inv'
<1> DEFINE Bucket == [id : {"all"}, start : Nat, count : Nat]
           Step(rec) == /\ rec \in RequestRecord /\ rec.starts <= 1
                        /\ rec.stage \notin {"responding", "ended"} => rec.starts = 0
                        /\ rec.stage = "authenticated"
                             => rec.now = clock /\ rec.tenant \in Tenants
                        /\ request' = [request EXCEPT ![r] = rec]
           Same == UNCHANGED <<clock, buckets, passed, since>>
<1>1. clock \in Nat /\ MAX_BODY \in Nat /\ all \in Seq(Bucket) /\ Len(all) <= 1
  BY Sizes, FrontendAssumption DEF Inv, Single, TypeOK
<1>2. /\ request[r] \in RequestRecord /\ request[r].starts <= 1
      /\ request[r].stage \notin {"responding", "ended"} => request[r].starts = 0
      /\ request \in [Slots -> RequestRecord]
  BY DEF Inv, TypeOK, Started, RequestRecord
<1>3. ASSUME NEW rec, Step(rec), Same, all' \in Seq(Bucket), Len(all') <= 1 PROVE Inv'
  BY <1>3, RequestStep
<1>4. NoRequest \in RequestRecord
  BY <1>1 DEF NoRequest, RequestRecord, Stages
<1>5. ASSUME NEW stage \in {"ended", "responding"}, Start(r, stage), request[r].starts = 0
      PROVE  \E rec : Step(rec)
  <2>1. PICK rec : rec = [NoRequest EXCEPT !.stage = stage, !.starts = request[r].starts + 1]
    OBVIOUS
  <2>2. rec = [NoRequest EXCEPT !.stage = stage, !.starts = 1]
    BY <1>5, <2>1
  <2>3. PICK begun : begun = [NoRequest EXCEPT !.stage = stage]
    OBVIOUS
  <2>4. begun \in RequestRecord /\ begun.stage = stage
    BY <1>4, <2>3 DEF RequestRecord, Stages
  <2>5. rec = [begun EXCEPT !.starts = 1]
    BY <2>2, <2>3 DEF NoRequest
  <2>6. rec \in RequestRecord /\ rec.starts = 1 /\ rec.stage = stage
    BY <2>4, <2>5 DEF RequestRecord
  <2>7. request' = [request EXCEPT ![r] = rec]
    BY <1>5, <2>1 DEF Start
  <2>8. Step(rec)
    BY <2>6, <2>7
  <2> QED  BY <2>8
<1>6. ASSUME Leave(r) PROVE \E rec : Step(rec)
  <2>1. Step(NoRequest)
    BY <1>4, <1>6 DEF Leave, NoRequest
  <2> QED  BY <2>1
<1>7. ASSUME NEW open \in BOOLEAN, Arrive(r, open) PROVE Inv'
  <2>1. Same /\ request[r].stage = "none" /\ request[r].starts = 0
    BY <1>2, <1>7 DEF Arrive, At
  <2>2. CASE open \/ Global!Allows(all, "all", clock)
    <3>1. request' = [request EXCEPT ![r].stage = "admitted", ![r].open = open]
      BY <1>7, <2>2 DEF Arrive
    <3>2. PICK rec : rec = [request[r] EXCEPT !.stage = "admitted", !.open = open]
      OBVIOUS
    <3>3. rec \in RequestRecord /\ rec.starts = 0 /\ rec.stage = "admitted"
      BY <1>2, <2>1, <3>2 DEF RequestRecord, Stages
    <3>4. request' = [request EXCEPT ![r] = rec]
      BY <1>2, <3>1, <3>2
    <3>5. all' \in Seq(Bucket) /\ Len(all') <= 1
      <4>1. CASE open
        BY <1>1, <1>7, <4>1 DEF Arrive
      <4>2. CASE ~ open
        BY <1>7, <2>2, <4>2, GlobalAdmit DEF Arrive
      <4> QED  BY <4>1, <4>2
    <3>6. Step(rec)
      BY <3>3, <3>4
    <3> QED  BY <1>3, <2>1, <3>5, <3>6
  <2>3. CASE ~ (open \/ Global!Allows(all, "all", clock))
    <3>1. request' = [request EXCEPT ![r].stage = "ended", ![r].starts = 1] /\ all' = all
      BY <1>7, <2>3 DEF Arrive
    <3>2. PICK rec : rec = [request[r] EXCEPT !.stage = "ended", !.starts = 1]
      OBVIOUS
    <3>3. PICK ended : ended = [request[r] EXCEPT !.stage = "ended"]
      OBVIOUS
    <3>4. ended \in RequestRecord /\ ended.stage = "ended"
      BY <1>2, <3>3 DEF RequestRecord, Stages
    <3>5. rec = [ended EXCEPT !.starts = 1]
      BY <1>2, <3>2, <3>3 DEF RequestRecord
    <3>6. rec \in RequestRecord /\ rec.starts = 1 /\ rec.stage = "ended"
      BY <3>4, <3>5 DEF RequestRecord
    <3>7. request' = [request EXCEPT ![r] = rec]
      BY <1>2, <3>1, <3>2
    <3>8. Step(rec)
      BY <3>6, <3>7
    <3> QED  BY <1>1, <1>3, <2>1, <3>1, <3>8
  <2> QED  BY <2>2, <2>3
<1>8. ASSUME NEW chunk \in 0..MAX_BODY, NEW more \in BOOLEAN, Receive(r, chunk, more) PROVE Inv'
  <2>1. Same /\ all' = all /\ request[r].stage = "admitted" /\ request[r].starts = 0
    BY <1>2, <1>8 DEF Receive, At
  <2>2. CASE ~ Fits(r, chunk)
    <3>1. Start(r, "ended")
      BY <1>8, <2>2 DEF Receive
    <3>2. \E rec : Step(rec)
      BY <1>5, <2>1, <3>1
    <3> QED  BY <1>1, <1>3, <2>1, <3>2
  <2>3. CASE Fits(r, chunk)
    <3>1. PICK body : body = IF more THEN request[r].body + chunk ELSE 0
      OBVIOUS
    <3>2. PICK stage : stage = IF more THEN "admitted" ELSE "buffered"
      OBVIOUS
    <3>3. body \in 0..MAX_BODY /\ stage \in {"admitted", "buffered"}
      BY <1>1, <1>2, <2>3, <3>1, <3>2 DEF Fits, RequestRecord
    <3>4. PICK rec : rec = [request[r] EXCEPT !.body = body, !.stage = stage]
      OBVIOUS
    <3>5. rec \in RequestRecord /\ rec.starts = 0 /\ rec.stage = stage
      BY <1>2, <2>1, <3>3, <3>4 DEF RequestRecord, Stages
    <3>6. request' = [request EXCEPT ![r].body = body, ![r].stage = stage]
      BY <1>8, <2>3, <3>1, <3>2 DEF Receive
    <3>7. request' = [request EXCEPT ![r] = rec]
      BY <1>2, <3>4, <3>6
    <3>8. Step(rec)
      BY <3>3, <3>5, <3>7
    <3> QED  BY <1>1, <1>3, <2>1, <3>8
  <2> QED  BY <2>2, <2>3
<1>9. ASSUME NEW t \in Tenants \cup {NoTenant}, Authenticate(r, t) PROVE Inv'
  <2>1. Same /\ all' = all
    BY <1>9 DEF Authenticate
  <2>2. PICK rec : rec = IF t = NoTenant THEN [NoRequest EXCEPT !.stage = "working"]
            ELSE [NoRequest EXCEPT !.stage = "authenticated", !.tenant = t, !.now = clock]
    OBVIOUS
  <2>3. request' = [request EXCEPT ![r] = rec]
    BY <1>9, <2>2 DEF Authenticate
  <2>4. rec \in RequestRecord /\ rec.starts = 0
        /\ \/ rec.stage = "working"
           \/ rec.stage = "authenticated" /\ rec.now = clock /\ rec.tenant \in Tenants
    <3>1. CASE t = NoTenant
      <4>1. rec = [NoRequest EXCEPT !.stage = "working"]
        BY <2>2, <3>1
      <4> QED  BY <1>4, <4>1 DEF RequestRecord, Stages, NoRequest
    <3>2. CASE t # NoTenant
      <4>1. PICK named : named = [NoRequest EXCEPT !.stage = "authenticated"]
        OBVIOUS
      <4>2. PICK charged : charged = [named EXCEPT !.tenant = t]
        OBVIOUS
      <4>3. named \in RequestRecord /\ named.stage = "authenticated" /\ named.starts = 0
        BY <1>4, <4>1 DEF RequestRecord, Stages, NoRequest
      <4>4. charged \in RequestRecord /\ charged.stage = "authenticated" /\ charged.starts = 0
            /\ charged.tenant = t
        BY <4>2, <4>3 DEF RequestRecord
      <4>5. rec = [charged EXCEPT !.now = clock]
        BY <2>2, <3>2, <4>1, <4>2 DEF NoRequest
      <4> QED  BY <1>1, <1>9, <3>2, <4>4, <4>5 DEF RequestRecord
    <3> QED  BY <3>1, <3>2
  <2>5. Step(rec)
    BY <2>3, <2>4
  <2> QED  BY <1>1, <1>3, <2>1, <2>5
<1>10. ASSUME Reject(r) \/ RateLimited(r) \/ Respond(r) PROVE Inv'
  <2>1. Same /\ all' = all /\ request[r].starts = 0
    BY <1>2, <1>10 DEF Reject, RateLimited, Respond, At
  <2>2. \E stage \in {"ended", "responding"} : Start(r, stage)
    BY <1>10 DEF Reject, RateLimited, Respond
  <2>3. \E rec : Step(rec)
    BY <1>5, <2>1, <2>2
  <2> QED  BY <1>1, <1>3, <2>1, <2>3
<1>11. ASSUME Disconnect(r) \/ Sent(r) PROVE Inv'
  <2>1. Same /\ all' = all /\ Leave(r)
    BY <1>11 DEF Disconnect, Sent
  <2> QED  BY <1>1, <1>3, <1>6, <2>1
<1>12. ASSUME Fail(r) PROVE Inv'
  <2>1. Same /\ all' = all
    BY <1>12 DEF Fail
  <2>2. CASE request[r].starts = 0
    <3>1. Start(r, "ended")
      BY <1>12, <2>2 DEF Fail
    <3>2. \E rec : Step(rec)
      BY <1>5, <2>2, <3>1
    <3> QED  BY <1>1, <1>3, <2>1, <3>2
  <2>3. CASE request[r].starts # 0
    <3>1. PICK rec : rec = [request[r] EXCEPT !.stage = "ended"]
      OBVIOUS
    <3>2. rec \in RequestRecord /\ rec.starts <= 1 /\ rec.stage = "ended"
      BY <1>2, <3>1 DEF RequestRecord, Stages
    <3>3. request' = [request EXCEPT ![r] = rec]
      BY <1>2, <1>12, <2>3, <3>1 DEF Fail, To
    <3> QED  BY <1>1, <1>3, <2>1, <3>2, <3>3
  <2> QED  BY <2>2, <2>3
<1> QED  BY <1>7, <1>8, <1>9, <1>10, <1>11, <1>12

-----------------------------------------------------------------------------
(***************************************************************************)
(* An admission.                                                           *)
(***************************************************************************)

(* What Allowed does, with the tenant and the instant of the call named.   *)
Admission(r, t, now) ==
  /\ r \in Stalled /\ request[r].tenant = t /\ request[r].now = now
  /\ Tenant!Allows(buckets, t, now) /\ buckets' = Admitted(t, now)
  /\ request' = [request EXCEPT ![r] = [NoRequest EXCEPT !.stage = "working"]]
  /\ passed' = [u \in Tenants |->
       IF u = t THEN Append(passed[t], clock)
       ELSE IF Remembered(u, t) THEN passed[u] ELSE << >>]
  /\ since' = [u \in Tenants |-> IF u = t THEN {} ELSE since[u] \cup {t}]
  /\ clock' = clock /\ all' = all

LEMMA AllowedIs ==
  ASSUME Inv, NEW r \in Slots, Allowed(r)
  PROVE  \E t \in Tenants, now \in 0..clock : Admission(r, t, now)
<1>1. request[r].stage = "authenticated"
  BY DEF Allowed, At
<1>2. request[r].tenant \in Tenants
  BY <1>1 DEF Inv, Started
<1>3. request[r].now \in 0..clock
  BY DEF Inv, TypeOK
<1>4. r \in Stalled
  BY <1>1 DEF Stalled, At
<1>5. Admission(r, request[r].tenant, request[r].now)
  BY <1>4 DEF Allowed, Admitted, Admission
<1> QED  BY <1>2, <1>3, <1>5

(* The entries of the others keep their order.                             *)
LEMMA Order ==
  ASSUME Inv, NEW t
  PROVE  /\ \A i, j \in 1..Kept(t) : i < j => From(t, i) < From(t, j)
         /\ \A i \in 1..Kept(t) : From(t, i) \in Nat /\ From(t, i) >= i /\ From(t, i) <= i + 1
BY GoneIs, Sizes DEF From, Kept

(* Who has an entry after the admission of t: t, last, and every tenant    *)
(* that had one and has not lost it.                                       *)
LEMMA EntriesAfter ==
  ASSUME Inv, NEW t \in Tenants, NEW now \in 0..clock, Tenant!Allows(buckets, t, now)
  PROVE  LET new == Admitted(t, now) IN
         /\ new \in Seq(Entry) /\ Len(new) \in Nat /\ Len(new) <= CAPACITY
         /\ Len(new) = Kept(t) + 1 /\ Kept(t) \in Nat
         /\ new[Len(new)] = Fresh(t, now) /\ Fresh(t, now).id = t
         /\ \A i \in 1..Kept(t) : new[i] = buckets[From(t, i)] /\ new[i].id # t
         /\ \A i \in 1..Len(new) : i \in 1..Kept(t) \/ i = Len(new)
         /\ \A i, j \in 1..Len(new) : new[i].id = new[j].id => i = j
<1> DEFINE new == Admitted(t, now)
<1>1. /\ new \in Seq(Entry) /\ Len(new) = Kept(t) + 1 /\ Kept(t) + 1 <= CAPACITY
      /\ \A i \in 1..Kept(t) : new[i] = buckets[From(t, i)]
      /\ new[Kept(t) + 1] = Fresh(t, now)
  BY AdmittedIs
<1>2. Fresh(t, now).id = t
  BY FreshIs
<1>3. /\ Kept(t) \in Nat
      /\ \A i \in 1..Kept(t) : From(t, i) \in 1..Len(buckets) /\ buckets[From(t, i)].id # t
  BY GoneIs
<1> HIDE DEF new
<1>4. \A i \in 1..Len(new) : i \in 1..Kept(t) \/ i = Len(new)
  BY <1>1, <1>3
<1>5. ASSUME NEW i \in 1..Kept(t), NEW j \in 1..Kept(t), new[i].id = new[j].id
      PROVE  i = j
  <2>1. From(t, i) = From(t, j)
    BY <1>1, <1>3, <1>5 DEF Inv, Dictionary
  <2>2. ~ (i < j) /\ ~ (j < i)
    <3>1. /\ i < j => From(t, i) < From(t, j)
          /\ j < i => From(t, j) < From(t, i)
          /\ From(t, i) \in Nat /\ From(t, j) \in Nat
      BY Order
    <3> QED  BY <2>1, <3>1
  <2> QED  BY <1>3, <2>2
<1>6. \A i, j \in 1..Len(new) : new[i].id = new[j].id => i = j
  <2>1. \A i \in 1..Kept(t) : new[i].id # t
    BY <1>1, <1>3
  <2>2. new[Len(new)].id = t
    BY <1>1, <1>2
  <2> QED  BY <1>4, <1>5, <2>1, <2>2
<1>7. \A i \in 1..Kept(t) : new[i] = buckets[From(t, i)] /\ new[i].id # t
  BY <1>1, <1>3
<1>8. Len(new) \in Nat /\ Len(new) <= CAPACITY /\ new[Len(new)] = Fresh(t, now)
  BY <1>1, <1>3
<1> QED  BY <1>1, <1>2, <1>3, <1>4, <1>6, <1>7, <1>8 DEF new

Behind(entries, i) == {entries[j].id : j \in i + 1..Len(entries)}

(* Those behind an entry that stays, once t has gone to the end.           *)
LEMMA FollowAfter ==
  ASSUME Inv, NEW t \in Tenants, NEW now \in 0..clock, Tenant!Allows(buckets, t, now),
         NEW i \in 1..Kept(t), NEW u, u = buckets[From(t, i)].id
  PROVE  /\ since[u] \cup {t} = Behind(Admitted(t, now), i)
         /\ IsFiniteSet(since[u] \cup {t})
         /\ Cardinality(since[u] \cup {t}) = Len(Admitted(t, now)) - i
<1> DEFINE new == Admitted(t, now)
           p == From(t, i)
<1>1. /\ Len(new) = Kept(t) + 1 /\ Kept(t) \in Nat
      /\ new[Len(new)].id = t
      /\ \A j \in 1..Kept(t) : new[j] = buckets[From(t, j)] /\ new[j].id # t
  BY EntriesAfter
<1>2. /\ Gone(t) \in 0..Len(buckets) /\ Len(buckets) \in Nat
      /\ Gone(t) # 0 => buckets[Gone(t)].id = t \/ Gone(t) = 1
      /\ p \in 1..Len(buckets) /\ p # Gone(t)
      /\ \A j \in 1..Len(buckets) : j # Gone(t) => \E k \in 1..Kept(t) : j = From(t, k)
      /\ \A k \in 1..Kept(t) : From(t, k) \in 1..Len(buckets) /\ buckets[From(t, k)].id # t
  BY GoneIs, Sizes
<1>3. /\ since[u] = {buckets[j].id : j \in p + 1..Len(buckets)}
      /\ IsFiniteSet(since[u]) /\ Cardinality(since[u]) = Len(buckets) - p
  BY <1>2 DEF Inv, Follow
<1> HIDE DEF new, p
<1>4. \A k \in 1..Kept(t) : p < From(t, k) <=> i < k
  <2>1. \A k \in 1..Kept(t) : /\ i < k => p < From(t, k)
                              /\ k < i => From(t, k) < p
                              /\ From(t, k) \in Nat
    BY Order DEF p
  <2>2. p \in Nat
    BY <1>2
  <2>3. ASSUME NEW k \in 1..Kept(t), p < From(t, k) PROVE i < k
    <3>1. k # i
      BY <2>2, <2>3 DEF p
    <3> QED  BY <1>1, <2>1, <2>2, <2>3, <3>1
  <2> QED  BY <2>1, <2>3
<1>5. since[u] \cup {t} = {new[j].id : j \in i + 1..Len(new)}
  <2>1. ASSUME NEW x \in since[u] PROVE x \in {new[j].id : j \in i + 1..Len(new)}
    <3>1. PICK j \in p + 1..Len(buckets) : x = buckets[j].id
      BY <1>3, <2>1
    <3>2. CASE j = Gone(t)
      <4>1. x = t
        BY <1>2, <3>1, <3>2
      <4>2. Len(new) \in i + 1..Len(new)
        BY <1>1
      <4> QED  BY <1>1, <4>1, <4>2
    <3>3. CASE j # Gone(t)
      <4>1. j \in 1..Len(buckets) /\ p < j
        BY <1>2, <3>1
      <4>2. PICK k \in 1..Kept(t) : j = From(t, k)
        BY <1>2, <3>3, <4>1
      <4>3. i < k /\ k \in i + 1..Len(new)
        BY <1>1, <1>4, <4>1, <4>2
      <4>4. new[k].id = x
        BY <1>1, <3>1, <4>2
      <4> QED  BY <4>3, <4>4
    <3> QED  BY <3>2, <3>3
  <2>2. t \in {new[j].id : j \in i + 1..Len(new)}
    <3>1. Len(new) \in i + 1..Len(new)
      BY <1>1
    <3> QED  BY <1>1, <3>1
  <2>3. ASSUME NEW j \in i + 1..Len(new) PROVE new[j].id \in since[u] \cup {t}
    <3>1. CASE j = Len(new)
      BY <1>1, <3>1
    <3>2. CASE j # Len(new)
      <4>1. j \in 1..Kept(t) /\ i < j
        BY <1>1, <2>3, <3>2
      <4>2. From(t, j) \in p + 1..Len(buckets)
        BY <1>2, <1>4, <4>1
      <4> QED  BY <1>1, <1>3, <4>1, <4>2
    <3> QED  BY <3>1, <3>2
  <2> QED  BY <2>1, <2>2, <2>3
<1>6. Cardinality(since[u] \cup {t}) = Len(new) - i
  <2>1. Cardinality(since[u] \cup {t})
          = IF t \in since[u] THEN Cardinality(since[u]) ELSE Cardinality(since[u]) + 1
    BY <1>3, FS_AddElement
  <2>2. CASE Gone(t) = 0
    <3>1. p = i /\ Kept(t) = Len(buckets)
      BY <2>2 DEF p, From, Kept
    <3>2. t \notin since[u]
      <4>1. \A j \in 1..Len(buckets) : buckets[j].id # t
        BY <1>2, <2>2
      <4> QED  BY <1>2, <1>3, <4>1
    <3> QED  BY <1>1, <1>2, <1>3, <2>1, <3>1, <3>2
  <2>3. CASE Gone(t) # 0 /\ Gone(t) < p
    <3>1. p = i + 1 /\ Kept(t) = Len(buckets) - 1
      BY <1>1, <1>2, <2>3 DEF p, From, Kept
    <3>2. t \notin since[u]
      <4>1. \A j \in p + 1..Len(buckets) : j \in 1..Len(buckets) /\ j # Gone(t)
        BY <1>2, <2>3
      <4> QED  BY <1>2, <1>3, <4>1
    <3> QED  BY <1>1, <1>2, <1>3, <2>1, <3>1, <3>2
  <2>4. CASE Gone(t) # 0 /\ p < Gone(t)
    <3>1. p = i /\ Kept(t) = Len(buckets) - 1
      BY <1>1, <1>2, <2>4 DEF p, From, Kept
    <3>2. t \in since[u]
      <4>1. buckets[Gone(t)].id = t /\ Gone(t) \in p + 1..Len(buckets)
        BY <1>2, <2>4
      <4> QED  BY <1>3, <4>1
    <3> QED  BY <1>1, <1>2, <1>3, <2>1, <3>1, <3>2
  <2> QED  BY <1>2, <2>2, <2>3, <2>4
<1>7. IsFiniteSet(since[u] \cup {t})
  BY <1>3, FS_AddElement
<1>8. since[u] \cup {t} = Behind(Admitted(t, now), i)
  BY <1>5 DEF Behind, new
<1> QED  BY <1>6, <1>7, <1>8 DEF new

(* The history of another tenant stays just as long as its entry.          *)
LEMMA HistoryAfter ==
  ASSUME Inv, NEW r \in Slots, NEW t \in Tenants, NEW now \in 0..clock, Admission(r, t, now),
         NEW u \in Tenants, u # t
  PROVE  /\ \A i \in 1..Kept(t) : buckets[From(t, i)].id = u => passed'[u] = passed[u]
         /\ (\A i \in 1..Kept(t) : buckets[From(t, i)].id # u) => passed'[u] = << >>
<1>1. passed'[u] = IF Remembered(u, t) THEN passed[u] ELSE << >>
  BY DEF Admission
<1>2. Remembered(u, t) <=> Cardinality(since[u] \cup {t}) < CAPACITY
  <2>1. {t} \ {u} = {t}
    OBVIOUS
  <2> QED  BY <2>1 DEF Remembered
<1>3. Tenant!Allows(buckets, t, now)
  BY DEF Admission
<1>4. ASSUME NEW i \in 1..Kept(t), buckets[From(t, i)].id = u PROVE passed'[u] = passed[u]
  <2>1. Cardinality(since[u] \cup {t}) = Len(Admitted(t, now)) - i
    BY <1>3, <1>4, FollowAfter
  <2>2. /\ Len(Admitted(t, now)) = Kept(t) + 1 /\ Len(Admitted(t, now)) <= CAPACITY
        /\ Kept(t) \in Nat
    BY <1>3, EntriesAfter
  <2>3. CAPACITY \in Nat
    BY Sizes
  <2>4. Cardinality(since[u] \cup {t}) < CAPACITY
    BY <2>1, <2>2, <2>3
  <2> QED  BY <1>1, <1>2, <2>4
<1>5. ASSUME \A i \in 1..Kept(t) : buckets[From(t, i)].id # u PROVE passed'[u] = << >>
  <2>1. CASE \A i \in 1..Len(buckets) : buckets[i].id # u
    <3>1. passed[u] = << >>
      BY <2>1 DEF Inv, Forgotten
    <3> QED  BY <1>1, <3>1
  <2>2. CASE \E i \in 1..Len(buckets) : buckets[i].id = u
    <3>1. PICK i \in 1..Len(buckets) : buckets[i].id = u
      BY <2>2
    <3>2. i = Gone(t)
      BY <1>5, <3>1, GoneIs
    <3>3. /\ Len(buckets) = CAPACITY /\ i = 1 /\ ~ Tenant!Has(buckets, t)
          /\ Len(buckets) \in Nat /\ Len(buckets) >= 1
      BY <3>1, <3>2, GoneIs, Sizes
    <3>4. /\ since[u] = {buckets[j].id : j \in 2..Len(buckets)}
          /\ IsFiniteSet(since[u]) /\ Cardinality(since[u]) = Len(buckets) - 1
      <4>1. /\ since[buckets[i].id] = {buckets[j].id : j \in i + 1..Len(buckets)}
            /\ IsFiniteSet(since[buckets[i].id])
            /\ Cardinality(since[buckets[i].id]) = Len(buckets) - i
        BY <3>1 DEF Inv, Follow
      <4>2. i + 1 = 2
        BY <3>3
      <4> QED  BY <3>1, <3>3, <4>1, <4>2
    <3>5. t \notin since[u]
      <4>1. \A j \in 1..Len(buckets) : buckets[j].id # t
        BY <3>3, PlaceIs
      <4>2. \A j \in 2..Len(buckets) : j \in 1..Len(buckets)
        BY <3>3
      <4> QED  BY <3>4, <4>1, <4>2
    <3>6. Cardinality(since[u] \cup {t}) = Len(buckets) - 1 + 1
      BY <3>4, <3>5, FS_AddElement
    <3>7. ~ (Cardinality(since[u] \cup {t}) < CAPACITY)
      BY <3>3, <3>6
    <3> QED  BY <1>1, <1>2, <3>7
  <2> QED  BY <2>1, <2>2
<1> QED  BY <1>4, <1>5

(* What the calls on their way are after one of them has been admitted.    *)
LEMMA OvertakenAfter ==
  ASSUME Inv, NEW r \in Slots, NEW t \in Tenants, NEW now \in 0..clock, Admission(r, t, now),
         NEW u \in Tenants, NEW a \in Int
  PROVE  /\ Cardinality(Overtaken(u, a)') \in Nat
         /\ Cardinality(Overtaken(u, a)') <= Cardinality(Overtaken(u, a))
         /\ u = t /\ now < a =>
              Cardinality(Overtaken(u, a)') = Cardinality(Overtaken(u, a)) - 1
         /\ u = t /\ ~ (now < a) =>
              /\ Cardinality(Overtaken(u, a)') = Cardinality(Overtaken(u, a))
              /\ Cardinality(Overtaken(u, a)) <= Cardinality(Slots) - 1
<1>1. request \in [Slots -> RequestRecord]
  BY DEF Inv, TypeOK, RequestRecord
<1>2. request'[r].stage = "working" /\ \A q \in Slots : q # r => request'[q] = request[q]
  BY <1>1 DEF Admission, NoRequest
<1>3. request[r].tenant = t /\ request[r].now = now /\ request[r].stage = "authenticated"
  BY DEF Admission, Stalled, At
<1>4. Overtaken(u, a)' = Overtaken(u, a) \ {r}
  BY <1>2 DEF Overtaken, Stalled, At
<1>5. PICK before, after : before = Overtaken(u, a) /\ after = Overtaken(u, a)'
  OBVIOUS
<1>6. IsFiniteSet(before) /\ Cardinality(before) \in Nat /\ before \in SUBSET Slots
  BY <1>5, OvertakenFinite DEF Overtaken, Stalled
<1>7. /\ IsFiniteSet(after)
      /\ Cardinality(after)
           = IF r \in before THEN Cardinality(before) - 1 ELSE Cardinality(before)
  <2>1. after = before \ {r}
    BY <1>4, <1>5
  <2> QED  BY <1>6, <2>1, FS_RemoveElement
<1>8. Cardinality(after) \in Nat
  BY <1>7, FS_CardinalityType
<1>9. ASSUME u = t, now < a PROVE r \in before
  BY <1>3, <1>5, <1>9 DEF Overtaken, Stalled, At
<1>10. ASSUME u = t, ~ (now < a)
       PROVE  r \notin before /\ Cardinality(before) <= Cardinality(Slots) - 1
  <2>1. r \notin before
    BY <1>3, <1>5, <1>10 DEF Overtaken
  <2>2. before \in SUBSET (Slots \ {r})
    BY <1>6, <2>1
  <2>3. IsFiniteSet(Slots \ {r}) /\ Cardinality(Slots \ {r}) = Cardinality(Slots) - 1
    BY SlotsFinite, FS_RemoveElement
  <2> QED  BY <2>1, <2>2, <2>3, FS_Subset
<1>11. u = t /\ now < a => Cardinality(after) = Cardinality(before) - 1
  BY <1>7, <1>9
<1>12. u = t /\ ~ (now < a) => /\ Cardinality(after) = Cardinality(before)
                              /\ Cardinality(before) <= Cardinality(Slots) - 1
  BY <1>7, <1>10
<1>13. Cardinality(after) <= Cardinality(before)
  BY <1>6, <1>7
<1> QED  BY <1>5, <1>8, <1>11, <1>12, <1>13

(* The budget of the tenant admitted: the new entry's count covers one more*)
(* admission, and the call that was on its way no longer is.               *)
LEMMA AdmissionCovers ==
  ASSUME Inv, NEW r \in Slots, NEW t \in Tenants, NEW now \in 0..clock, Admission(r, t, now),
         NEW a \in clock - SECONDS + 1..clock
  PROVE  Covers(Fresh(t, now), Spent(t, a)', a)
<1> DEFINE N == Cardinality(Slots)
<1>1. /\ clock \in Nat /\ SECONDS \in Nat /\ SECONDS >= 1 /\ LIMIT \in Nat /\ LIMIT >= 1
      /\ now \in Nat /\ now <= clock /\ a \in Int /\ a <= clock /\ clock - SECONDS < a
      /\ N \in Nat
  BY Sizes, SlotsFinite
<1>2. PICK before, after : before = Spent(t, a) /\ after = Spent(t, a)'
  OBVIOUS
<1>3. PICK past, way : /\ past = Cardinality(Since(passed[t], a))
                       /\ way = Cardinality(Overtaken(t, a))
  OBVIOUS
<1>4. past \in Nat /\ way \in Nat /\ way <= N /\ before = past + way
  <2>1. passed[t] \in Seq(Nat)
    BY DEF Inv, Histories
  <2> QED  BY <1>1, <1>2, <1>3, <2>1, SinceFinite, OvertakenFinite DEF Spent
<1>5. /\ now < a => after = before
      /\ ~ (now < a) => after = before + 1 /\ way <= N - 1
  <2>1. passed'[t] = Append(passed[t], clock)
    BY DEF Admission
  <2>2. Cardinality(Since(passed'[t], a)) = past + 1
    <3>1. passed[t] \in Seq(Nat)
      BY DEF Inv, Histories
    <3> QED  BY <1>1, <1>3, <2>1, <3>1, SinceAppended
  <2>3. PICK later : later = Cardinality(Overtaken(t, a)')
    OBVIOUS
  <2>4. /\ now < a => later = way - 1
        /\ ~ (now < a) => later = way /\ way <= N - 1
    BY <1>1, <1>3, <2>3, OvertakenAfter
  <2>5. after = past + 1 + later
    BY <1>2, <2>2, <2>3 DEF Spent, Since
  <2> QED  BY <1>1, <1>4, <2>4, <2>5
<1> HIDE DEF N
<1>6. /\ \A i \in 1..Len(buckets) : buckets[i].id = t => Covers(buckets[i], before, a)
      /\ (\A i \in 1..Len(buckets) : buckets[i].id # t) => before <= N
  BY <1>2 DEF Inv, Budget, N
<1>7. Tenant!Allows(buckets, t, now)
  BY DEF Admission
<1>8. \A i \in 1..Len(buckets) :
        buckets[i].start \in Nat /\ buckets[i].count \in Nat /\ buckets[i].count <= LIMIT
  BY Sizes DEF Entry
<1>9. CASE /\ Fresh(t, now).start = now /\ Fresh(t, now).count = 1
           /\ \A i \in 1..Len(buckets) : buckets[i].id = t => now - buckets[i].start >= SECONDS
  <2>1. CASE \A i \in 1..Len(buckets) : buckets[i].id # t
    <3>1. past = 0
      <4>1. passed[t] = << >>
        BY <2>1 DEF Inv, Forgotten
      <4> QED  BY <1>3, <4>1, SinceNone
    <3>2. before <= N
      BY <1>6, <2>1
    <3> QED  BY <1>1, <1>2, <1>4, <1>5, <1>9, <3>1, <3>2 DEF Covers, N
  <2>2. CASE \E i \in 1..Len(buckets) : buckets[i].id = t
    <3>1. PICK i \in 1..Len(buckets) : buckets[i].id = t
      BY <2>2
    <3>2. PICK start, count : start = buckets[i].start /\ count = buckets[i].count
      OBVIOUS
    <3>3. start \in Nat /\ count \in Nat /\ count <= LIMIT /\ now - start >= SECONDS
      BY <1>8, <1>9, <3>1, <3>2
    <3>4. /\ start < a - SECONDS => before <= N
          /\ a - SECONDS <= start /\ start < a => before <= count + N - 1
      BY <1>6, <3>1, <3>2 DEF Covers, N
    <3>5. now < a => before <= N
      BY <1>1, <3>3, <3>4
    <3>6. before <= N \/ before <= LIMIT + N - 1
      BY <1>1, <1>4, <3>3, <3>4
    <3>7. /\ now < a - SECONDS => after <= N
          /\ a - SECONDS <= now /\ now < a => after <= 1 + N - 1
          /\ a <= now => after <= 1 + LIMIT + N - 1
      BY <1>1, <1>4, <1>5, <3>5, <3>6
    <3> QED  BY <1>2, <1>9, <3>7 DEF Covers, N
  <2> QED  BY <2>1, <2>2
<1>10. ASSUME NEW i \in 1..Len(buckets), buckets[i].id = t,
              ~ (now - buckets[i].start >= SECONDS),
              Fresh(t, now).start = buckets[i].start,
              Fresh(t, now).count = buckets[i].count + 1
       PROVE  Covers(Fresh(t, now), after, a)
  <2>1. PICK start, count : start = buckets[i].start /\ count = buckets[i].count
    OBVIOUS
  <2>2. start \in Nat /\ count \in Nat /\ count <= LIMIT /\ ~ (now - start >= SECONDS)
    BY <1>8, <1>10, <2>1
  <2>3. /\ start < a - SECONDS => before <= N
        /\ a - SECONDS <= start /\ start < a => before <= count + N - 1
        /\ a <= start => before <= count + LIMIT + N - 1
    BY <1>6, <1>10, <2>1 DEF Covers, N
  <2>4. /\ start < a - SECONDS => after <= N
        /\ a - SECONDS <= start /\ start < a => after <= count + 1 + N - 1
        /\ a <= start => after <= count + 1 + LIMIT + N - 1
    BY <1>1, <1>4, <1>5, <2>2, <2>3
  <2> QED  BY <1>10, <2>1, <2>4 DEF Covers, N
<1> QED  BY <1>2, <1>7, <1>9, <1>10, FreshIs

LEMMA AdmissionBudget ==
  ASSUME Inv, NEW r \in Slots, NEW t \in Tenants, NEW now \in 0..clock, Admission(r, t, now)
  PROVE  Budget'
<1> DEFINE new == Admitted(t, now)
<1>1. Tenant!Allows(buckets, t, now) /\ clock' = clock /\ buckets' = new
  BY DEF Admission
<1>2. /\ Len(new) = Kept(t) + 1 /\ Kept(t) \in Nat
      /\ new[Len(new)] = Fresh(t, now) /\ Fresh(t, now).id = t
      /\ \A i \in 1..Kept(t) : new[i] = buckets[From(t, i)] /\ new[i].id # t
      /\ \A i \in 1..Len(new) : i \in 1..Kept(t) \/ i = Len(new)
  BY <1>1, EntriesAfter
<1>3. \A i \in 1..Kept(t) : From(t, i) \in 1..Len(buckets)
  BY GoneIs
<1>4. clock \in Nat /\ SECONDS \in Nat /\ LIMIT \in Nat /\ Cardinality(Slots) \in Nat
      /\ \A i \in 1..Len(buckets) : buckets[i] \in Entry
  BY Sizes, SlotsFinite
<1> HIDE DEF new
<1>5. ASSUME NEW u \in Tenants, NEW a \in clock - SECONDS + 1..clock
      PROVE  /\ (\A i \in 1..Len(new) : new[i].id # u) => Spent(u, a)' <= Cardinality(Slots)
             /\ \A i \in 1..Len(new) : new[i].id = u => Covers(new[i], Spent(u, a)', a)
  <2>0. a \in Int
    BY <1>4
  <2>1. CASE u = t
    <3>1. Covers(Fresh(t, now), Spent(t, a)', a)
      BY AdmissionCovers
    <3>2. Len(new) \in 1..Len(new)
      BY <1>2
    <3> QED  BY <1>2, <2>1, <3>1, <3>2
  <2>2. CASE u # t
    <3>1. PICK before, after : before = Spent(u, a) /\ after = Spent(u, a)'
      OBVIOUS
    <3>2. PICK way, later : way = Cardinality(Overtaken(u, a)) /\ later = Cardinality(Overtaken(u, a)')
      OBVIOUS
    <3>3. way \in Nat /\ later \in Nat /\ later <= way /\ way <= Cardinality(Slots)
      BY <2>0, <3>2, OvertakenAfter, OvertakenFinite
    <3>4. ASSUME \A i \in 1..Len(new) : new[i].id # u PROVE after <= Cardinality(Slots)
      <4>1. \A i \in 1..Kept(t) : buckets[From(t, i)].id # u
        <5>1. \A i \in 1..Kept(t) : i \in 1..Len(new)
          BY <1>2
        <5> QED  BY <1>2, <3>4, <5>1
      <4>2. passed'[u] = << >>
        BY <2>2, <4>1, HistoryAfter
      <4>3. Cardinality(Since(passed'[u], a)) = 0
        BY <4>2, SinceNone
      <4>4. after = 0 + later
        BY <3>1, <3>2, <4>3 DEF Spent, Since
      <4> QED  BY <1>4, <3>3, <4>4
    <3>5. ASSUME NEW i \in 1..Len(new), new[i].id = u PROVE Covers(new[i], after, a)
      <4>1. i \in 1..Kept(t) /\ new[i] = buckets[From(t, i)]
        BY <1>2, <2>2, <3>5
      <4>2. passed'[u] = passed[u]
        BY <2>2, <3>5, <4>1, HistoryAfter
      <4>3. PICK past : past = Cardinality(Since(passed[u], a))
        OBVIOUS
      <4>4. past \in Nat
        BY <2>0, <4>3, SinceFinite DEF Inv, Histories
      <4>5. before = past + way /\ after = past + later
        BY <3>1, <3>2, <4>2, <4>3 DEF Spent, Since
      <4>6. after <= before /\ after \in Nat /\ before \in Nat
        BY <3>3, <4>4, <4>5
      <4>7. Covers(new[i], before, a)
        BY <1>3, <3>1, <3>5, <4>1 DEF Inv, Budget
      <4>8. new[i] \in Entry
        BY <1>3, <1>4, <4>1
      <4> QED  BY <4>6, <4>7, <4>8, CoversLess
    <3> QED  BY <3>1, <3>4, <3>5
  <2> QED  BY <2>1, <2>2
<1>6. Budget' <=> \A u \in Tenants : \A a \in clock' - SECONDS + 1..clock' :
         /\ (\A i \in 1..Len(buckets') : buckets'[i].id # u)
              => Spent(u, a)' <= Cardinality(Slots)
         /\ \A i \in 1..Len(buckets') :
              buckets'[i].id = u => Covers(buckets'[i], Spent(u, a)', a)
  BY DEF Budget, Covers
<1> QED  BY <1>1, <1>5, <1>6

LEMMA AdmissionStep ==
  ASSUME Inv, NEW r \in Slots, NEW t \in Tenants, NEW now \in 0..clock, Admission(r, t, now)
  PROVE  Inv'
<1> DEFINE new == Admitted(t, now)
<1>1. Tenant!Allows(buckets, t, now) /\ clock' = clock /\ buckets' = new /\ all' = all
  BY DEF Admission
<1>2. /\ new \in Seq(Entry) /\ Len(new) \in Nat /\ Len(new) <= CAPACITY
      /\ Len(new) = Kept(t) + 1 /\ Kept(t) \in Nat
      /\ new[Len(new)] = Fresh(t, now) /\ Fresh(t, now).id = t
      /\ \A i \in 1..Kept(t) : new[i] = buckets[From(t, i)] /\ new[i].id # t
      /\ \A i \in 1..Len(new) : i \in 1..Kept(t) \/ i = Len(new)
      /\ \A i, j \in 1..Len(new) : new[i].id = new[j].id => i = j
  BY <1>1, EntriesAfter
<1>3. \A i \in 1..Kept(t) : From(t, i) \in 1..Len(buckets)
  BY GoneIs
<1>4. /\ clock \in Nat /\ clock \in 0..MaxClock
      /\ \A i \in 1..Len(buckets) :
           /\ buckets[i] \in Entry /\ buckets[i].start <= clock
           /\ buckets[i].count >= 1 /\ buckets[i].count <= LIMIT
  BY Sizes DEF Inv, TypeOK
<1>5. Fresh(t, now).count \in 1..LIMIT /\ Fresh(t, now).start \in 0..clock
  BY <1>1, FreshIs
<1> HIDE DEF new
<1>6. request \in [Slots -> RequestRecord]
  BY DEF Inv, TypeOK, RequestRecord
<1>7. PICK rec : rec = [NoRequest EXCEPT !.stage = "working"]
  OBVIOUS
<1>8. rec \in RequestRecord /\ rec.starts = 0 /\ rec.stage = "working"
  <2>1. NoRequest \in RequestRecord
    BY <1>4, FrontendAssumption DEF NoRequest, RequestRecord, Stages
  <2> QED  BY <1>7, <2>1 DEF RequestRecord, Stages, NoRequest
<1>9. request' = [request EXCEPT ![r] = rec]
  BY <1>7 DEF Admission
<1>10. request' \in [Slots -> RequestRecord] /\ request'[r] = rec
       /\ \A q \in Slots : q # r => request'[q] = request[q]
  BY <1>6, <1>8, <1>9
<1>11. \A i \in 1..Len(new) :
         new[i].id \in Tenants /\ new[i].start \in 0..clock /\ new[i].count \in 1..LIMIT
  <2>1. ASSUME NEW i \in 1..Kept(t)
        PROVE  new[i].id \in Tenants /\ new[i].start \in 0..clock /\ new[i].count \in 1..LIMIT
    <3>1. From(t, i) \in 1..Len(buckets) /\ new[i] = buckets[From(t, i)]
      BY <1>2, <1>3
    <3>2. /\ new[i] \in Entry /\ new[i].start <= clock
          /\ new[i].count >= 1 /\ new[i].count <= LIMIT
      BY <1>4, <3>1
    <3>3. LIMIT \in Nat
      BY Sizes
    <3> QED  BY <1>4, <3>2, <3>3 DEF Entry
  <2> QED  BY <1>2, <1>5, <2>1
<1>12. TypeOK'
  <2>1. \A b \in Range(new) : b.id \in Tenants /\ b.start \in 0..clock /\ b.count \in 1..LIMIT
    <3>1. DOMAIN new = 1..Len(new)
      BY <1>2, LenProperties
    <3> QED  BY <1>11, <3>1 DEF Range
  <2>2. Len(all) <= 1
    BY DEF Inv, TypeOK
  <2> QED  BY <1>1, <1>2, <1>4, <1>10, <2>1, <2>2 DEF TypeOK, RequestRecord
<1>13. Single' /\ Started'
  BY <1>1, <1>8, <1>10 DEF Inv, Single, Started
<1>14. Dictionary'
  BY <1>1, <1>2 DEF Dictionary
<1>15. Histories'
  <2>1. /\ passed \in [Tenants -> Seq(Nat)] /\ since \in [Tenants -> SUBSET Tenants]
        /\ \A u \in Tenants : \A i \in 1..Len(passed[u]) : passed[u][i] <= clock
    BY DEF Inv, Histories
  <2>2. ASSUME NEW u \in Tenants
        PROVE  /\ passed'[u] \in Seq(Nat) /\ since'[u] \in SUBSET Tenants
               /\ \A i \in 1..Len(passed'[u]) : passed'[u][i] <= clock
    <3>1. since'[u] \in SUBSET Tenants
      BY <2>1 DEF Admission
    <3>2. CASE u = t
      <4>1. passed'[u] = Append(passed[t], clock) /\ passed[t] \in Seq(Nat)
        BY <2>1, <3>2 DEF Admission
      <4>2. /\ passed'[u] \in Seq(Nat) /\ Len(passed'[u]) = Len(passed[t]) + 1
            /\ \A i \in 1..Len(passed[t]) : passed'[u][i] = passed[t][i]
            /\ passed'[u][Len(passed[t]) + 1] = clock
        BY <1>4, <4>1, AppendProperties
      <4>3. Len(passed[t]) \in Nat
        BY <4>1, LenProperties
      <4>4. \A i \in 1..Len(passed[t]) + 1 : i \in 1..Len(passed[t]) \/ i = Len(passed[t]) + 1
        BY <4>3
      <4>5. clock <= clock
        BY <1>4
      <4> QED  BY <2>1, <3>1, <4>2, <4>4, <4>5
    <3>3. CASE u # t
      <4>1. passed'[u] = passed[u] \/ passed'[u] = << >>
        BY <3>3 DEF Admission
      <4>2. << >> \in Seq(Nat) /\ \A i \in 1..Len(<< >>) : << >>[i] <= clock
        BY EmptySeq
      <4> QED  BY <2>1, <3>1, <4>1, <4>2
    <3> QED  BY <3>2, <3>3
  <2>3. passed' = [u \in Tenants |-> passed'[u]] /\ since' = [u \in Tenants |-> since'[u]]
    BY DEF Admission
  <2> QED  BY <1>1, <2>2, <2>3 DEF Histories
<1>16. Follow'
  <2>1. ASSUME NEW i \in 1..Len(new)
        PROVE  /\ since'[new[i].id] = {new[j].id : j \in i + 1..Len(new)}
               /\ IsFiniteSet(since'[new[i].id])
               /\ Cardinality(since'[new[i].id]) = Len(new) - i
    <3>1. CASE i = Len(new)
      <4>1. since'[new[i].id] = {}
        BY <1>2, <3>1 DEF Admission
      <4>2. i + 1..Len(new) = {} /\ Len(new) - i = 0
        BY <1>2, <3>1
      <4> QED  BY <4>1, <4>2, FS_EmptySet
    <3>2. CASE i \in 1..Kept(t)
      <4>1. PICK u : u = new[i].id
        OBVIOUS
      <4>2. u \in Tenants /\ u # t /\ u = buckets[From(t, i)].id
        BY <1>2, <1>11, <3>2, <4>1
      <4>3. since'[u] = since[u] \cup {t}
        BY <4>2 DEF Admission
      <4>4. /\ since[u] \cup {t} = {new[j].id : j \in i + 1..Len(new)}
            /\ IsFiniteSet(since[u] \cup {t})
            /\ Cardinality(since[u] \cup {t}) = Len(new) - i
        <5>1. u = buckets[From(t, i)].id /\ Tenant!Allows(buckets, t, now)
          BY <1>1, <4>2
        <5>2. /\ since[u] \cup {t} = Behind(Admitted(t, now), i)
              /\ IsFiniteSet(since[u] \cup {t})
              /\ Cardinality(since[u] \cup {t}) = Len(Admitted(t, now)) - i
          BY <3>2, <5>1, FollowAfter
        <5> QED  BY <5>2 DEF new, Behind
      <4> QED  BY <4>1, <4>3, <4>4
    <3> QED  BY <1>2, <3>1, <3>2
  <2> QED  BY <1>1, <2>1 DEF Follow
<1>17. Forgotten'
  <2>1. ASSUME NEW u \in Tenants, \A i \in 1..Len(new) : new[i].id # u PROVE passed'[u] = << >>
    <3>1. Len(new) \in 1..Len(new) /\ \A i \in 1..Kept(t) : i \in 1..Len(new)
      BY <1>2
    <3>2. u # t /\ \A i \in 1..Kept(t) : buckets[From(t, i)].id # u
      BY <1>2, <2>1, <3>1
    <3> QED  BY <3>2, HistoryAfter
  <2> QED  BY <1>1, <2>1 DEF Forgotten
<1>18. Counted'
  <2>1. ASSUME NEW i \in 1..Kept(t)
        PROVE  Cardinality(Since(passed'[new[i].id], new[i].start)) >= new[i].count
    <3>1. From(t, i) \in 1..Len(buckets) /\ new[i] = buckets[From(t, i)]
          /\ new[i].id # t /\ i \in 1..Len(new)
      BY <1>2, <1>3
    <3>2. passed'[new[i].id] = passed[new[i].id]
      BY <1>11, <3>1, HistoryAfter
    <3> QED  BY <3>1, <3>2 DEF Inv, Counted
  <2>2. Cardinality(Since(passed'[t], Fresh(t, now).start)) >= Fresh(t, now).count
    <3>1. passed'[t] = Append(passed[t], clock) /\ passed[t] \in Seq(Nat)
      BY DEF Admission, Inv, Histories
    <3>2. PICK a : a = Fresh(t, now).start
      OBVIOUS
    <3>3. a \in Int /\ a <= clock
      BY <1>4, <1>5, <3>2
    <3>4. Cardinality(Since(passed'[t], a)) = Cardinality(Since(passed[t], a)) + 1
      BY <1>4, <3>1, <3>3, SinceAppended
    <3>5. Cardinality(Since(passed[t], a)) \in Nat
      BY <3>1, <3>3, SinceFinite
    <3>6. CASE Fresh(t, now).count = 1
      BY <3>2, <3>4, <3>5, <3>6
    <3>7. ASSUME NEW i \in 1..Len(buckets), buckets[i].id = t,
                 Fresh(t, now).start = buckets[i].start,
                 Fresh(t, now).count = buckets[i].count + 1
          PROVE  Cardinality(Since(passed'[t], a)) >= Fresh(t, now).count
      <4>1. Cardinality(Since(passed[t], a)) >= buckets[i].count
        BY <3>2, <3>7 DEF Inv, Counted
      <4>2. buckets[i].count \in Nat
        BY <1>4 DEF Entry
      <4> QED  BY <3>4, <3>5, <3>7, <4>1, <4>2
    <3> QED  BY <1>1, <3>2, <3>6, <3>7, FreshIs
  <2>3. ASSUME NEW i \in 1..Len(new)
        PROVE  Cardinality(Since(passed'[new[i].id], new[i].start)) >= new[i].count
    BY <1>2, <2>1, <2>2
  <2> QED  BY <1>1, <2>3 DEF Counted, Since
<1>19. Budget'
  BY AdmissionBudget
<1> QED  BY <1>12, <1>13, <1>14, <1>15, <1>16, <1>17, <1>18, <1>19 DEF Inv

-----------------------------------------------------------------------------
LEMMA NextInv == Inv /\ [Next]_vars => Inv'
<1> SUFFICES ASSUME Inv, [Next]_vars PROVE Inv'
  OBVIOUS
<1>1. CASE Tick
  BY <1>1, TickStep
<1>2. ASSUME NEW r \in Slots, Allowed(r) PROVE Inv'
  <2>1. PICK t \in Tenants, now \in 0..clock : Admission(r, t, now)
    BY <1>2, AllowedIs
  <2> QED  BY <2>1, AdmissionStep
<1>3. CASE UNCHANGED vars
  <2>1. /\ UNCHANGED clock /\ UNCHANGED all /\ UNCHANGED buckets
        /\ UNCHANGED request /\ UNCHANGED passed /\ UNCHANGED since
    BY <1>3 DEF vars
  <2>2. TypeOK' /\ Single' /\ Started'
    BY <2>1 DEF Inv, TypeOK, Range, Single, Started
  <2>3. Dictionary' /\ Histories' /\ Forgotten'
    BY <2>1 DEF Inv, Dictionary, Histories, Forgotten
  <2>4. Follow' /\ Counted'
    BY <2>1 DEF Inv, Follow, Counted, Since
  <2>5. Budget'
    BY <2>1 DEF Inv, Budget, Covers, Spent, Since, Overtaken, Stalled, At
  <2> QED  BY <2>2, <2>3, <2>4, <2>5 DEF Inv
<1>4. ASSUME NEW r \in Slots,
             \/ \E open \in BOOLEAN : Arrive(r, open)
             \/ \E chunk \in 0..MAX_BODY, more \in BOOLEAN : Receive(r, chunk, more)
             \/ \E t \in Tenants \cup {NoTenant} : Authenticate(r, t)
             \/ Reject(r) \/ Disconnect(r) \/ Fail(r) \/ RateLimited(r) \/ Respond(r) \/ Sent(r)
      PROVE  Inv'
  BY <1>4, OtherStep
<1> QED  BY <1>1, <1>2, <1>3, <1>4 DEF Next

LEMMA InvHolds == Spec => []Inv
BY InitInv, NextInv, PTL DEF Spec

(* Requests, buckets and histories have their types, and a buffered body is*)
(* within its limit however it is cut into chunks (SafetyMiddleware).      *)
THEOREM TypesCorrect == Spec => []TypeOK
<1>1. Inv => TypeOK
  BY DEF Inv
<1> QED  BY <1>1, InvHolds, PTL

(* A client is sent at most one response, wherever the application or the  *)
(* connection fails (safe_send and the handlers of SafetyMiddleware).      *)
THEOREM ResponseCorrect == Spec => []OneResponse
<1>1. Inv => OneResponse
  BY DEF Inv, Started, OneResponse
<1> QED  BY <1>1, InvHolds, PTL

(* A call that the tenant's Limiter.allow refuses has LIMIT admissions of  *)
(* its own tenant behind it: the count found stands for admissions since   *)
(* the window's start.  Nothing is said of the process's limit (Arrive),   *)
(* which refuses a request for what others do, or of the daily quota.      *)
THEOREM RefusalCorrect == Spec => []RefusedOverBudget
<1>1. ASSUME Inv PROVE RefusedOverBudget
  <2> SUFFICES ASSUME NEW r \in Stalled,
                      ~Tenant!Allows(buckets, request[r].tenant, request[r].now)
               PROVE  Cardinality(Since(passed[request[r].tenant], request[r].now - SECONDS + 1))
                        >= LIMIT
    BY DEF RefusedOverBudget
  <2> DEFINE t == request[r].tenant
             now == request[r].now
  <2>1. t \in Tenants /\ now \in 0..clock
    BY <1>1 DEF Inv, TypeOK, Started, Stalled, At
  <2>2. /\ LIMIT \in Nat /\ LIMIT >= 1 /\ SECONDS \in Nat /\ clock \in Nat /\ now \in Nat
        /\ Len(buckets) \in Nat
        /\ \A i \in 1..Len(buckets) : buckets[i] \in Entry /\ buckets[i].count <= LIMIT
    BY <1>1, <2>1, Sizes
  <2>3. ~ (Tenant!Current(buckets, t, now).count < LIMIT)
    BY DEF Tenant!Allows
  <2> HIDE DEF t, now
  <2>4. PICK i \in 1..Len(buckets) :
          /\ buckets[i].id = t /\ ~ (now - buckets[i].start >= SECONDS)
          /\ ~ (buckets[i].count < LIMIT)
    <3>1. Tenant!Has(buckets, t)
      <4>1. ASSUME ~ Tenant!Has(buckets, t) PROVE FALSE
        <5>1. Tenant!Found(buckets, t, now).count = 0
          BY <4>1 DEF Tenant!Found
        <5>2. Tenant!Current(buckets, t, now).count = 0
          BY <5>1 DEF Tenant!Current
        <5> QED  BY <2>2, <2>3, <5>2
      <4> QED  BY <4>1
    <3>2. PICK i \in 1..Len(buckets) : i = Tenant!Place(buckets, t) /\ buckets[i].id = t
      BY <1>1, <3>1, PlaceIs
    <3>3. Tenant!Found(buckets, t, now) = buckets[i]
      BY <3>1, <3>2 DEF Tenant!Found
    <3>4. ~ (now - buckets[i].start >= SECONDS)
      <4>1. ASSUME now - buckets[i].start >= SECONDS PROVE FALSE
        <5>1. Tenant!Current(buckets, t, now).count = 0
          BY <3>3, <4>1 DEF Tenant!Current
        <5> QED  BY <2>2, <2>3, <5>1
      <4> QED  BY <4>1
    <3>5. Tenant!Current(buckets, t, now) = buckets[i]
      BY <3>3, <3>4 DEF Tenant!Current
    <3> QED  BY <2>3, <3>2, <3>4, <3>5
  <2>5. buckets[i].start \in Nat /\ buckets[i].count \in Nat /\ buckets[i].count <= LIMIT
    BY <2>2 DEF Entry
  <2>6. Cardinality(Since(passed[t], buckets[i].start)) >= buckets[i].count
    BY <1>1, <2>4 DEF Inv, Counted
  <2>7. passed[t] \in Seq(Nat)
    BY <1>1, <2>1 DEF Inv, Histories
  <2>8. PICK first : first = now - SECONDS + 1
    OBVIOUS
  <2>9. first \in Int /\ first <= buckets[i].start
    BY <2>2, <2>4, <2>5, <2>8
  <2>10. Cardinality(Since(passed[t], buckets[i].start)) <= Cardinality(Since(passed[t], first))
         /\ Cardinality(Since(passed[t], first)) \in Nat
         /\ Cardinality(Since(passed[t], buckets[i].start)) \in Nat
    <3>1. PICK start \in Int : start = buckets[i].start
      BY <2>5
    <3>2. /\ Cardinality(Since(passed[t], start)) \in Nat
          /\ Cardinality(Since(passed[t], start)) <= Cardinality(Since(passed[t], first))
      BY <2>7, <2>9, <3>1, SinceFinite
    <3> QED  BY <2>7, <2>9, <3>1, <3>2, SinceFinite
  <2>11. Cardinality(Since(passed[t], first)) >= LIMIT
    BY <2>2, <2>4, <2>5, <2>6, <2>10
  <2> QED  BY <2>8, <2>11 DEF t, now
<1> QED  BY <1>1, InvHolds, PTL

(* Limiter.allow admits a tenant at most twice its limit in any SECONDS,   *)
(* and the calls overtaken on the way to the lock.                         *)
THEOREM BudgetCorrect == Spec => []BudgetHolds
<1>1. ASSUME Inv PROVE BudgetHolds
  <2> SUFFICES ASSUME NEW t \in Tenants
               PROVE  Cardinality(Since(passed[t], clock - SECONDS + 1))
                        <= 2 * LIMIT + Cardinality(Slots) - 1
    BY DEF BudgetHolds
  <2>1. PICK a : a = clock - SECONDS + 1
    OBVIOUS
  <2>2. /\ clock \in Nat /\ SECONDS \in Nat /\ SECONDS >= 1 /\ LIMIT \in Nat /\ LIMIT >= 1
        /\ Cardinality(Slots) \in Nat
    BY <1>1, Sizes, SlotsFinite
  <2>3. a \in clock - SECONDS + 1..clock /\ a \in Int
    BY <2>1, <2>2
  <2>4. PICK past, way, spent : /\ past = Cardinality(Since(passed[t], a))
                                /\ way = Cardinality(Overtaken(t, a)) /\ spent = Spent(t, a)
    OBVIOUS
  <2>5. past \in Nat /\ way \in Nat /\ spent = past + way
    <3>1. passed[t] \in Seq(Nat)
      BY <1>1 DEF Inv, Histories
    <3> QED  BY <2>3, <2>4, <3>1, SinceFinite, OvertakenFinite DEF Spent
  <2>6. /\ (\A i \in 1..Len(buckets) : buckets[i].id # t) => spent <= Cardinality(Slots)
        /\ \A i \in 1..Len(buckets) : buckets[i].id = t => Covers(buckets[i], spent, a)
    BY <1>1, <2>3, <2>4 DEF Inv, Budget
  <2>7. spent <= 2 * LIMIT + Cardinality(Slots) - 1
    <3>1. CASE \A i \in 1..Len(buckets) : buckets[i].id # t
      BY <2>2, <2>5, <2>6, <3>1
    <3>2. CASE \E i \in 1..Len(buckets) : buckets[i].id = t
      <4>1. PICK i \in 1..Len(buckets) : buckets[i].id = t
        BY <3>2
      <4>2. Covers(buckets[i], spent, a)
        BY <2>6, <4>1
      <4>3. buckets[i].start \in Nat /\ buckets[i].count \in Nat /\ buckets[i].count <= LIMIT
        BY <1>1, Sizes DEF Entry
      <4>4. PICK start, count, slots :
              start = buckets[i].start /\ count = buckets[i].count /\ slots = Cardinality(Slots)
        OBVIOUS
      <4>5. start < a - SECONDS \/ (a - SECONDS <= start /\ start < a) \/ a <= start
        BY <2>2, <2>3, <4>3, <4>4
      <4>6. \/ spent <= slots
            \/ spent <= count + slots - 1
            \/ spent <= count + LIMIT + slots - 1
        BY <4>2, <4>4, <4>5 DEF Covers
      <4> QED  BY <2>2, <2>5, <4>3, <4>4, <4>6
    <3> QED  BY <3>1, <3>2
  <2> QED  BY <2>1, <2>2, <2>4, <2>5, <2>7
<1> QED  BY <1>1, InvHolds, PTL
=============================================================================
