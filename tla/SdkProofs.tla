------------------------------ MODULE SdkProofs ------------------------------
(***************************************************************************)
(* SdkClient's queue for any number of threads, any capacity and batch     *)
(* size: one flush at a time keeps the batch in hand and the queue in the  *)
(* order of emission, and only what the server has stored counts as sent.  *)
(* Delivery, which adds the wire and the service, takes the same steps.    *)
(***************************************************************************)
EXTENDS Delivery, FiniteSetTheorems, SequenceTheorems, NaturalsInduction,
        WellFoundedInduction, TLAPS

FlushRecord == [stage : Stages, remaining : 0..CAPACITY, batch : Seq(Numbers),
                attempt : 0..MAX_RETRIES, stored : BOOLEAN]

(* _flush_lock; a batch is in hand from taking it to counting it.          *)
OneFlush ==
  /\ \A f, g \in Threads : flushes[f] # Resting /\ flushes[g] # Resting => f = g
  /\ \A f \in Threads :
       /\ flushes[f].stage = "resting" => flushes[f] = Resting
       /\ flushes[f].stage = "looping" => flushes[f].batch = << >>
       /\ flushes[f].stage = "sent" => flushes[f].stored

(* The queue ends with the event enqueued last.                            *)
QueueOrder ==
  /\ Consecutive(queue)
  /\ queue # << >> => queue[Len(queue)] = counts.enqueued

(* A batch ends where the queue begins.                                    *)
BatchOrder(batch) ==
  /\ Consecutive(batch)
  /\ batch # << >> => Wrap(batch[Len(batch)] + 1) =
       IF queue = << >> THEN Wrap(counts.enqueued + 1) ELSE queue[1]
  /\ batch # << >> /\ queue = << >> => batch[Len(batch)] = counts.enqueued

Inv == TypeOK /\ OneFlush /\ QueueOrder /\ \A f \in Threads : BatchOrder(flushes[f].batch)

-----------------------------------------------------------------------------
(* Counting keeps the counters' type, and the other counters.              *)
LEMMA RaisedType ==
  ASSUME TypeOK, NEW name \in {"enqueued", "sent", "dropped", "failed_batches", "retries"},
         NEW n \in Nat
  PROVE  /\ Raised(name, n) \in [{"enqueued", "sent", "dropped", "failed_batches", "retries"} -> Numbers]
         /\ Raised(name, n)[name] = Wrap(counts[name] + n)
         /\ \A other \in {"enqueued", "sent", "dropped", "failed_batches", "retries"} \ {name} :
              Raised(name, n)[other] = counts[other]
<1>1. counts \in [{"enqueued", "sent", "dropped", "failed_batches", "retries"} -> Numbers]
  BY DEF TypeOK
<1>2. counts[name] + n \in Nat
  BY <1>1, SdkAssumption DEF Numbers
<1>3. Wrap(counts[name] + n) \in Numbers
  BY <1>2, SdkAssumption DEF Wrap, Numbers
<1> QED BY <1>1, <1>3 DEF Raised

(* A thread outside flush holds an empty batch.                            *)
LEMMA RestingType == Resting \in FlushRecord /\ Resting.batch = << >> /\ Len(Resting.batch) = 0
<1>1. << >> \in Seq(Numbers) /\ Len(<< >>) = 0
  BY EmptySeq
<1>2. 0 \in 0..CAPACITY /\ 0 \in 0..MAX_RETRIES
  BY SdkAssumption
<1> QED BY <1>1, <1>2 DEF Resting, FlushRecord, Stages

(* Batch and queue together are what InOrder is about.                     *)
LEMMA OrderMeans == Inv => InOrder
<1> SUFFICES ASSUME Inv, NEW f \in Threads
             PROVE  LET s == flushes[f].batch \o queue
                    IN Consecutive(s) /\ (s # << >> => s[Len(s)] = counts.enqueued)
  BY DEF InOrder
<1> PICK b \in Seq(Numbers) : b = flushes[f].batch
  BY DEF Inv, TypeOK
<1> PICK s : s = b \o queue
  OBVIOUS
<1>1. queue \in Seq(Numbers) /\ BatchOrder(b) /\ QueueOrder
  BY DEF Inv, TypeOK
<1>2. /\ s \in Seq(Numbers) /\ Len(s) = Len(b) + Len(queue) /\ Len(b) \in Nat /\ Len(queue) \in Nat
      /\ \A i \in 1..Len(b) + Len(queue) : s[i] = IF i <= Len(b) THEN b[i] ELSE queue[i - Len(b)]
  BY <1>1, ConcatProperties, LenProperties
<1>3. ASSUME NEW i \in 1..Len(s) - 1 PROVE s[i + 1] = Wrap(s[i] + 1)
  <2>0. /\ i \in Nat /\ i >= 1 /\ i + 1 <= Len(b) + Len(queue)
        /\ i \in 1..Len(b) + Len(queue) /\ i + 1 \in 1..Len(b) + Len(queue)
    BY <1>2
  <2>a. /\ s[i] = IF i <= Len(b) THEN b[i] ELSE queue[i - Len(b)]
        /\ s[i + 1] = IF i + 1 <= Len(b) THEN b[i + 1] ELSE queue[(i + 1) - Len(b)]
    BY <1>2, <2>0
  <2>1. CASE i < Len(b)
    <3>1. i <= Len(b) /\ i + 1 <= Len(b) /\ i \in 1..Len(b) - 1
      BY <1>2, <2>0, <2>1
    <3>2. s[i] = b[i] /\ s[i + 1] = b[i + 1]
      BY <2>a, <3>1
    <3> QED BY <1>1, <3>1, <3>2 DEF BatchOrder, Consecutive
  <2>2. CASE i = Len(b)
    <3>1. s[i] = b[Len(b)] /\ s[i + 1] = queue[1] /\ queue # << >> /\ b # << >>
      BY <1>2, <2>0, <2>a, <2>2, EmptySeq
    <3> QED BY <1>1, <2>2, <3>1 DEF BatchOrder
  <2>3. CASE i > Len(b)
    <3>1. /\ (i + 1) - Len(b) = (i - Len(b)) + 1 /\ i - Len(b) \in 1..Len(queue) - 1
          /\ ~(i <= Len(b)) /\ ~(i + 1 <= Len(b))
      BY <1>2, <2>0, <2>3
    <3>2. s[i] = queue[i - Len(b)] /\ s[i + 1] = queue[(i + 1) - Len(b)]
      BY <2>a, <3>1
    <3>3. queue[(i - Len(b)) + 1] = Wrap(queue[i - Len(b)] + 1)
      BY <1>1, <3>1 DEF QueueOrder, Consecutive
    <3> QED BY <3>1, <3>2, <3>3
  <2>4. i < Len(b) \/ i = Len(b) \/ i > Len(b)
    BY <1>2, <2>0
  <2> QED BY <2>1, <2>2, <2>3, <2>4
<1>4. s # << >> => s[Len(s)] = counts.enqueued
  <2>1. CASE queue = << >>
    <3>1. Len(queue) = 0
      BY <2>1, EmptySeq
    <3>2. b # << >> => s[Len(s)] = b[Len(b)]
      BY <1>2, <3>1, EmptySeq
    <3>3. b = << >> => s = << >>
      BY <1>1, <2>1, ConcatEmptySeq
    <3> QED BY <1>1, <2>1, <3>2, <3>3 DEF BatchOrder
  <2>2. CASE queue # << >>
    <3>1. Len(queue) > 0
      BY <1>1, <2>2, EmptySeq
    <3>2. s[Len(s)] = queue[Len(queue)]
      BY <1>2, <3>1
    <3> QED BY <1>1, <2>2, <3>2 DEF QueueOrder
  <2> QED BY <2>1, <2>2
<1>5. Consecutive(s)
  BY <1>3 DEF Consecutive
<1> QED BY <1>4, <1>5

(* An empty queue, and nobody inside flush.                                *)
LEMMA InvInit == Init => Inv
<1> SUFFICES ASSUME Init PROVE Inv
  OBVIOUS
<1>1. \A f \in Threads : flushes[f] = Resting
  BY DEF Init
<1>2. /\ queue = << >> /\ queue \in Seq(Numbers) /\ Len(queue) = 0
  BY EmptySeq DEF Init
<1>3. 0 \in Numbers
  BY SdkAssumption DEF Numbers
<1>4. TypeOK
  <2>1. counts \in [{"enqueued", "sent", "dropped", "failed_batches", "retries"} -> Numbers]
    BY <1>3 DEF Init
  <2>2. flushes \in [Threads -> FlushRecord]
    BY RestingType DEF Init
  <2>3. \A f \in Threads : flushes[f].remaining <= Len(queue) /\ Len(flushes[f].batch) <= BATCH
    BY <1>1, <1>2, RestingType, SdkAssumption DEF Resting
  <2> QED BY <1>2, <1>3, <2>1, <2>2, <2>3, SdkAssumption DEF TypeOK, Init, FlushRecord
<1>5. OneFlush
  BY <1>1 DEF OneFlush, Resting
<1>6. QueueOrder
  BY <1>2 DEF QueueOrder, Consecutive
<1>7. \A f \in Threads : BatchOrder(flushes[f].batch)
  <2>1. \A f \in Threads : flushes[f].batch = << >>
    BY <1>1, RestingType
  <2>2. BatchOrder(<< >>)
    BY EmptySeq DEF BatchOrder, Consecutive
  <2> QED BY <2>1, <2>2
<1> QED BY <1>4, <1>5, <1>6, <1>7 DEF Inv

-----------------------------------------------------------------------------
Counts == [{"enqueued", "sent", "dropped", "failed_batches", "retries"} -> Numbers]

(* A counter that wraps stays a number.                                    *)
LEMMA WrapType == \A n \in Nat : Wrap(n) \in Numbers
BY SdkAssumption DEF Wrap, Numbers

(* What every conjunct of the invariant says of a flush.                   *)
LEMMA FlushType ==
  ASSUME Inv, NEW f \in Threads
  PROVE  /\ flushes[f] \in FlushRecord
         /\ flushes[f].remaining <= Len(queue) /\ Len(flushes[f].batch) <= BATCH
         /\ Len(flushes[f].batch) \in Nat /\ Len(queue) \in Nat
         /\ BatchOrder(flushes[f].batch)
         /\ flushes[f] # Resting => \A g \in Threads \ {f} : flushes[g] = Resting
         /\ flushes[f].stage # "resting" => flushes[f] # Resting
<1>1. flushes[f] \in FlushRecord
  BY DEF Inv, TypeOK, FlushRecord
<1>2. flushes[f].batch \in Seq(Numbers) /\ queue \in Seq(Numbers)
  BY <1>1 DEF FlushRecord, Inv, TypeOK
<1>3. Len(flushes[f].batch) \in Nat /\ Len(queue) \in Nat
  BY <1>2, LenProperties
<1>4. flushes[f].remaining <= Len(queue) /\ Len(flushes[f].batch) <= BATCH
  BY DEF Inv, TypeOK
<1>5. flushes[f] # Resting => \A g \in Threads \ {f} : flushes[g] = Resting
  BY DEF Inv, OneFlush
<1>6. flushes[f].stage # "resting" => flushes[f] # Resting
  BY DEF Resting
<1> QED BY <1>1, <1>3, <1>4, <1>5, <1>6 DEF Inv

(* A step of the running flush that takes nothing from the queue: it keeps *)
(* its batch or is done with it.                                           *)
LEMMA FlushStep ==
  ASSUME Inv, NEW f \in Threads, NEW r \in FlushRecord,
         \A g \in Threads \ {f} : flushes[g] = Resting,
         flushes' = [flushes EXCEPT ![f] = r],
         r.stage = "resting" => r = Resting,
         r.stage = "looping" => r.batch = << >>,
         r.stage = "sent" => r.stored,
         r.remaining <= Len(queue), r.batch \in {flushes[f].batch, << >>},
         queue' = queue, failure_mode' = failure_mode,
         counts' \in Counts, counts'.enqueued = counts.enqueued,
         offered' \in Numbers, abandoned' \in Numbers
  PROVE  Inv'
<1>1. flushes \in [Threads -> FlushRecord]
  BY DEF Inv, TypeOK, FlushRecord
<1>2. /\ flushes' \in [Threads -> FlushRecord] /\ flushes'[f] = r
      /\ \A g \in Threads \ {f} : flushes'[g] = flushes[g]
  BY <1>1
<1>3. \A g \in Threads : flushes'[g].batch \in {flushes[g].batch, << >>}
  BY <1>2
<1>4. Len(<< >>) = 0 /\ Len(<< >>) <= BATCH
  BY EmptySeq, SdkAssumption
<1>5. TypeOK'
  <2>1. \A g \in Threads : flushes'[g].remaining <= Len(queue')
    <3> TAKE g \in Threads
    <3>1. CASE g = f
      BY <1>2, <3>1
    <3>2. CASE g # f
      BY <1>2, <3>2, FlushType
    <3> QED BY <3>1, <3>2
  <2>2. \A g \in Threads : Len(flushes'[g].batch) <= BATCH
    <3> TAKE g \in Threads
    <3>1. CASE flushes'[g].batch = flushes[g].batch
      BY <3>1, FlushType
    <3>2. CASE flushes'[g].batch = << >>
      BY <3>2, <1>4
    <3> QED BY <1>3, <3>1, <3>2
  <2>3. /\ failure_mode' \in {"drop", "raise"}
        /\ queue' \in Seq(Numbers) /\ Len(queue') <= CAPACITY
    BY DEF Inv, TypeOK
  <2> QED BY <1>2, <2>1, <2>2, <2>3 DEF TypeOK, Counts, FlushRecord
<1>6. OneFlush'
  <2>1. \A g \in Threads : flushes'[g] # Resting => g = f
    BY <1>2
  <2>2. \A g \in Threads :
          /\ flushes'[g].stage = "resting" => flushes'[g] = Resting
          /\ flushes'[g].stage = "looping" => flushes'[g].batch = << >>
          /\ flushes'[g].stage = "sent" => flushes'[g].stored
    BY <1>2 DEF Inv, OneFlush
  <2>3. \A g, h \in Threads : flushes'[g] # Resting /\ flushes'[h] # Resting => g = h
    BY <2>1
  <2> QED BY <2>2, <2>3 DEF OneFlush, Resting
<1>7. QueueOrder'
  BY DEF Inv, QueueOrder, Consecutive, Wrap
<1>8. \A g \in Threads : BatchOrder(flushes[g].batch)'
  <2> TAKE g \in Threads
  <2>1. CASE flushes'[g].batch = flushes[g].batch
    BY <2>1 DEF Inv, BatchOrder, Consecutive, Wrap
  <2>2. CASE flushes'[g].batch = << >>
    BY <2>2, EmptySeq DEF BatchOrder, Consecutive, Wrap
  <2> QED BY <1>3, <2>1, <2>2
<1> QED BY <1>5, <1>6, <1>7, <1>8 DEF Inv

(* Nothing that the order speaks of changes.                               *)
LEMMA QuietStep ==
  ASSUME Inv, UNCHANGED <<failure_mode, queue, flushes>>,
         counts' \in Counts, counts'.enqueued = counts.enqueued,
         offered' \in Numbers, abandoned' \in Numbers
  PROVE  Inv'
<1>1. TypeOK'
  BY DEF Inv, TypeOK, Counts
<1>2. OneFlush'
  BY DEF Inv, OneFlush, Resting
<1>3. QueueOrder'
  BY DEF Inv, QueueOrder, Consecutive, Wrap
<1>4. \A g \in Threads : BatchOrder(flushes[g].batch)'
  BY DEF Inv, BatchOrder, Consecutive, Wrap
<1> QED BY <1>1, <1>2, <1>3, <1>4 DEF Inv

(* A refused event is counted and leaves the queue as it was.              *)
LEMMA RefuseStep ==
  ASSUME Inv, NEW valid \in BOOLEAN, Refuse(valid)
  PROVE  Inv'
<1>1. counts' \in Counts /\ counts'.enqueued = counts.enqueued
  BY RaisedType DEF Refuse, Inv, Counts
<1>2. offered' \in Numbers /\ abandoned' \in Numbers
  <2>1. offered + 1 \in Nat
    BY SdkAssumption DEF Inv, TypeOK, Numbers
  <2> QED BY <2>1, WrapType DEF Refuse, Inv, TypeOK
<1> QED BY <1>1, <1>2, QuietStep DEF Refuse

(* An event enters behind all others, under the next number.               *)
LEMMA EnqueueStep ==
  ASSUME Inv, Enqueue
  PROVE  Inv'
<1> PICK q \in Seq(Numbers) : q = queue
  BY DEF Inv, TypeOK
<1> PICK e : e = Wrap(counts.enqueued + 1)
  OBVIOUS
<1>1. /\ counts' \in Counts /\ counts'.enqueued = e
      /\ counts.enqueued \in Numbers
  BY RaisedType DEF Enqueue, Inv, TypeOK, Counts
<1>2. e \in Numbers
  BY <1>1, WrapType, SdkAssumption DEF Counts
<1>3. offered' \in Numbers /\ abandoned' \in Numbers
  <2>1. offered + 1 \in Nat
    BY SdkAssumption DEF Inv, TypeOK, Numbers
  <2> QED BY <2>1, WrapType DEF Enqueue, Inv, TypeOK
<1>4. PICK s \in Seq(Numbers) : s = queue'
  BY <1>1, <1>2, AppendProperties DEF Enqueue
<1>5. /\ Len(q) \in Nat /\ Len(s) = Len(q) + 1 /\ s # << >>
      /\ \A i \in 1..Len(q) : s[i] = q[i]
      /\ s[Len(q) + 1] = e
  <2>1. s = Append(q, e)
    BY <1>1, <1>4 DEF Enqueue
  <2> QED BY <1>2, <2>1, AppendProperties, LenProperties, EmptySeq
<1>6. TypeOK'
  <2>1. Len(s) <= CAPACITY
    BY <1>5, SdkAssumption DEF Enqueue, HasSpace
  <2>2. \A f \in Threads : flushes[f].remaining <= Len(s)
    <3> TAKE f \in Threads
    <3>1. flushes[f].remaining \in Nat /\ flushes[f].remaining <= Len(q)
      BY FlushType, SdkAssumption DEF FlushRecord
    <3> QED BY <1>5, <3>1
  <2> QED BY <1>1, <1>3, <1>4, <2>1, <2>2 DEF Inv, TypeOK, Counts, Enqueue
<1>7. OneFlush'
  BY DEF Inv, OneFlush, Resting, Enqueue
<1>8. QueueOrder'
  <2>1. ASSUME NEW i \in 1..Len(s) - 1 PROVE s[i + 1] = Wrap(s[i] + 1)
    <3>1. CASE i < Len(q)
      <4>1. i \in 1..Len(q) - 1 /\ i \in 1..Len(q) /\ i + 1 \in 1..Len(q)
        BY <1>5, <3>1
      <4>2. s[i] = q[i] /\ s[i + 1] = q[i + 1]
        BY <1>5, <4>1
      <4> QED BY <4>1, <4>2 DEF Inv, QueueOrder, Consecutive
    <3>2. CASE i = Len(q)
      <4>1. i \in 1..Len(q) /\ q # << >>
        BY <1>5, <3>2, EmptySeq
      <4>2. s[i] = counts.enqueued /\ s[i + 1] = e
        BY <1>5, <3>2, <4>1 DEF Inv, QueueOrder
      <4> QED BY <4>2
    <3>3. i < Len(q) \/ i = Len(q)
      BY <1>5
    <3> QED BY <3>1, <3>2, <3>3
  <2>2. Consecutive(s)
    BY <2>1 DEF Consecutive
  <2>3. s[Len(s)] = counts'.enqueued
    BY <1>1, <1>5
  <2> QED BY <1>4, <2>2, <2>3 DEF QueueOrder, Consecutive, Wrap
<1>9. \A f \in Threads : BatchOrder(flushes[f].batch)'
  <2> SUFFICES ASSUME NEW f \in Threads PROVE BatchOrder(flushes[f].batch)'
    OBVIOUS
  <2> PICK b : b = flushes[f].batch
    OBVIOUS
  <2>1. flushes'[f].batch = b
    BY DEF Enqueue
  <2>2. BatchOrder(b)
    BY DEF Inv
  <2>3. b # << >> => Wrap(b[Len(b)] + 1) = s[1]
    <3>1. CASE q = << >>
      <4>1. Len(q) = 0
        BY <3>1, EmptySeq
      <4>2. s[1] = e
        BY <1>5, <4>1
      <4> QED BY <2>2, <3>1, <4>2 DEF BatchOrder
    <3>2. CASE q # << >>
      <4>1. 1 \in 1..Len(q)
        BY <1>5, <3>2, EmptySeq
      <4>2. s[1] = q[1]
        BY <1>5, <4>1
      <4> QED BY <2>2, <3>2, <4>2 DEF BatchOrder
    <3> QED BY <3>1, <3>2
  <2>4. Consecutive(b)
    BY <2>2 DEF BatchOrder
  <2> QED BY <1>4, <1>5, <2>1, <2>3, <2>4 DEF BatchOrder, Consecutive, Wrap
<1> QED BY <1>6, <1>7, <1>8, <1>9 DEF Inv

(* A batch is cut from the front of the queue.                             *)
LEMMA TakeBatchStep ==
  ASSUME Inv, NEW f \in Threads, TakeBatch(f)
  PROVE  Inv'
<1> PICK q \in Seq(Numbers) : q = queue
  BY DEF Inv, TypeOK
<1>1. PICK n \in 1..BATCH :
        /\ n <= flushes[f].remaining /\ n <= Len(q)
        /\ queue' = SubSeq(q, n + 1, Len(q))
        /\ flushes' = [flushes EXCEPT ![f] =
             [stage |-> "sending", remaining |-> flushes[f].remaining - n,
              batch |-> SubSeq(q, 1, n), attempt |-> 0, stored |-> FALSE]]
  BY DEF TakeBatch, Left
<1> PICK b : b = SubSeq(q, 1, n)
  OBVIOUS
<1> PICK s : s = SubSeq(q, n + 1, Len(q))
  OBVIOUS
<1>2. Len(q) \in Nat /\ n \in Nat /\ n >= 1 /\ n <= Len(q) /\ n <= BATCH /\ Len(q) <= CAPACITY
  BY <1>1, LenProperties, SdkAssumption DEF Inv, TypeOK
<1>3. /\ b \in Seq(Numbers) /\ Len(b) = n
      /\ \A i \in 1..n : b[i] = q[i]
  <2>1. \A i \in 1..n : q[i] \in Numbers
    BY <1>2, ElementOfSeq
  <2> QED BY <1>2, <2>1, SubSeqProperties
<1>4. /\ s \in Seq(Numbers) /\ Len(s) = Len(q) - n
      /\ \A i \in 1..Len(q) - n : s[i] = q[n + i]
  <2>1. \A i \in n + 1..Len(q) : q[i] \in Numbers
    BY <1>2, ElementOfSeq
  <2> QED BY <1>2, <2>1, SubSeqProperties
<1>5. /\ flushes[f].stage = "looping" /\ flushes[f] # Resting
      /\ \A g \in Threads \ {f} : flushes[g] = Resting
  BY FlushType DEF TakeBatch
<1>6. UNCHANGED <<failure_mode, counts, offered, abandoned>>
  BY DEF TakeBatch, history
<1>7. flushes \in [Threads -> FlushRecord]
  BY DEF Inv, TypeOK, FlushRecord
<1>8. /\ flushes[f].remaining \in 0..CAPACITY /\ flushes[f].remaining <= Len(q)
      /\ n <= flushes[f].remaining
  BY <1>1, <1>7, FlushType DEF FlushRecord
<1> PICK r : r = [stage |-> "sending", remaining |-> flushes[f].remaining - n,
                  batch |-> b, attempt |-> 0, stored |-> FALSE]
  OBVIOUS
<1>9. r \in FlushRecord
  <2>1. flushes[f].remaining - n \in 0..CAPACITY /\ 0 \in 0..MAX_RETRIES
    BY <1>2, <1>8, SdkAssumption
  <2> QED BY <1>3, <2>1 DEF FlushRecord, Stages
<1>10. /\ flushes' \in [Threads -> FlushRecord] /\ flushes'[f] = r
       /\ \A g \in Threads \ {f} : flushes'[g] = Resting
  BY <1>1, <1>5, <1>7, <1>9
<1>11. queue' = s
  BY <1>1
<1>12. TypeOK'
  <2>1. Len(s) <= CAPACITY
    <3>1. Len(s) = Len(q) - n
      BY <1>4
    <3> QED BY <1>2, <3>1, SdkAssumption
  <2>2. r.remaining <= Len(s) /\ Len(r.batch) <= BATCH
    BY <1>2, <1>3, <1>4, <1>8
  <2>3. Resting.remaining <= Len(s) /\ Len(Resting.batch) <= BATCH
    <3>1. Resting.remaining = 0
      BY DEF Resting
    <3> QED BY <1>2, <1>4, <3>1, RestingType, SdkAssumption
  <2>4. \A g \in Threads : flushes'[g].remaining <= Len(s) /\ Len(flushes'[g].batch) <= BATCH
    BY <1>10, <2>2, <2>3
  <2> QED BY <1>4, <1>6, <1>10, <1>11, <2>1, <2>4 DEF Inv, TypeOK, FlushRecord
<1>13. OneFlush'
  <2>1. \A g \in Threads : flushes'[g] # Resting => g = f
    BY <1>10
  <2>2. \A g, h \in Threads : flushes'[g] # Resting /\ flushes'[h] # Resting => g = h
    BY <2>1
  <2>3. \A g \in Threads :
          /\ flushes'[g].stage = "resting" => flushes'[g] = Resting
          /\ flushes'[g].stage = "looping" => flushes'[g].batch = << >>
          /\ flushes'[g].stage = "sent" => flushes'[g].stored
    BY <1>10 DEF Resting
  <2> QED BY <2>2, <2>3 DEF OneFlush, Resting
<1>14. Consecutive(q) /\ q[Len(q)] = counts.enqueued
  <2>1. q # << >>
    BY <1>2, EmptySeq
  <2> QED BY <2>1 DEF Inv, QueueOrder
<1>15. QueueOrder'
  <2>1. ASSUME NEW i \in 1..Len(s) - 1 PROVE s[i + 1] = Wrap(s[i] + 1)
    <3>1. /\ i \in 1..Len(q) - n /\ i + 1 \in 1..Len(q) - n /\ n + i \in 1..Len(q) - 1
          /\ n + (i + 1) = (n + i) + 1
      BY <1>2, <1>4
    <3>2. s[i] = q[n + i] /\ s[i + 1] = q[n + (i + 1)]
      BY <1>4, <3>1
    <3>3. q[(n + i) + 1] = Wrap(q[n + i] + 1)
      BY <1>14, <3>1 DEF Consecutive
    <3> QED BY <3>1, <3>2, <3>3
  <2>2. Consecutive(s)
    BY <2>1 DEF Consecutive
  <2>3. s # << >> => s[Len(s)] = counts.enqueued
    <3> SUFFICES ASSUME s # << >> PROVE s[Len(s)] = counts.enqueued
      OBVIOUS
    <3>1. Len(s) \in 1..Len(q) - n /\ n + Len(s) = Len(q)
      BY <1>2, <1>4, EmptySeq
    <3>2. s[Len(s)] = q[n + Len(s)]
      BY <1>4, <3>1
    <3> QED BY <1>14, <3>1, <3>2
  <2> QED BY <1>6, <1>11, <2>2, <2>3 DEF QueueOrder, Consecutive, Wrap
<1>16. \A g \in Threads : BatchOrder(flushes[g].batch)'
  <2>a. ASSUME NEW g \in Threads, g # f PROVE BatchOrder(flushes[g].batch)'
    <3>1. flushes'[g].batch = << >>
      BY <1>10, <2>a, RestingType
    <3> QED BY <3>1, EmptySeq DEF BatchOrder, Consecutive, Wrap
  <2>1. Consecutive(b)
    <3>1. ASSUME NEW i \in 1..Len(b) - 1 PROVE b[i + 1] = Wrap(b[i] + 1)
      <4>1. i \in 1..n /\ i + 1 \in 1..n /\ i \in 1..Len(q) - 1
        BY <1>2, <1>3
      <4>2. b[i] = q[i] /\ b[i + 1] = q[i + 1]
        BY <1>3, <4>1
      <4> QED BY <1>14, <4>1, <4>2 DEF Consecutive
    <3> QED BY <3>1 DEF Consecutive
  <2>2. b[Len(b)] = q[n]
    BY <1>2, <1>3
  <2>3. CASE n = Len(q)
    <3>1. Len(s) = 0
      BY <1>2, <1>4, <2>3
    <3>2. s = << >>
      BY <1>4, <3>1, EmptySeq
    <3>3. b[Len(b)] = counts.enqueued
      BY <1>14, <2>2, <2>3
    <3>4. BatchOrder(r.batch)'
      BY <1>6, <1>11, <2>1, <3>2, <3>3 DEF BatchOrder, Consecutive, Wrap
    <3>5. BatchOrder(flushes[f].batch)'
      BY <1>10, <3>4
    <3> QED BY <2>a, <3>5
  <2>4. CASE n < Len(q)
    <3>1. 1 \in 1..Len(q) - n /\ n \in 1..Len(q) - 1 /\ Len(s) # 0
      BY <1>2, <1>4, <2>4
    <3>2. s # << >>
      <4>1. s = << >> => Len(s) = 0
        BY EmptySeq
      <4> QED BY <3>1, <4>1
    <3>3. s[1] = q[n + 1] /\ q[n + 1] = Wrap(q[n] + 1)
      BY <1>4, <1>14, <3>1 DEF Consecutive
    <3>4. BatchOrder(r.batch)'
      BY <1>6, <1>11, <2>1, <2>2, <3>2, <3>3 DEF BatchOrder, Consecutive, Wrap
    <3>5. BatchOrder(flushes[f].batch)'
      BY <1>10, <3>4
    <3> QED BY <2>a, <3>5
  <2> QED BY <1>2, <2>3, <2>4
<1> QED BY <1>12, <1>13, <1>15, <1>16 DEF Inv

(* The steps of one flush, under its own record.                           *)
LEMMA WorkStep ==
  ASSUME Inv, NEW f \in Threads,
         Flush(f) \/ Return(f) \/ Server(f) \/ Answer(f) \/ Busy(f) \/ Error(f)
           \/ Sent(f) \/ Failed(f) \/ Dropped(f) \/ Interrupt(f)
  PROVE  Inv'
<1>1. /\ flushes[f] \in FlushRecord /\ flushes[f].remaining <= Len(queue)
      /\ Len(flushes[f].batch) \in Nat /\ Len(queue) \in Nat /\ Len(queue) <= CAPACITY
      /\ flushes[f] # Resting => \A g \in Threads \ {f} : flushes[g] = Resting
      /\ flushes[f].stage # "resting" => flushes[f] # Resting
  BY FlushType DEF Inv, TypeOK
<1>2. counts \in Counts /\ offered \in Numbers /\ abandoned \in Numbers
  BY DEF Inv, TypeOK, Counts
<1>3. \A name \in {"sent", "dropped", "failed_batches", "retries"}, n \in Nat :
        Raised(name, n) \in Counts /\ Raised(name, n).enqueued = counts.enqueued
  BY RaisedType DEF Inv, Counts
<1>4. Resting \in FlushRecord /\ Resting.batch = << >> /\ Resting.remaining = 0
      /\ Resting.stage = "resting"
  BY RestingType DEF Resting
<1>5. << >> \in Seq(Numbers) /\ 0 \in 0..MAX_RETRIES
  BY EmptySeq, SdkAssumption
<1>6. CASE Flush(f)
  <2>1. \A g \in Threads : flushes[g] = Resting
    BY <1>6 DEF Flush, MayFlush
  <2> PICK r : r = [flushes[f] EXCEPT !.stage = "looping", !.remaining = Len(queue)]
    OBVIOUS
  <2>2. Len(queue) \in 0..CAPACITY
    BY <1>1, SdkAssumption
  <2>3. /\ r \in FlushRecord /\ r.stage = "looping" /\ r.batch = << >>
        /\ r.remaining = Len(queue)
    BY <1>1, <1>4, <2>1, <2>2 DEF FlushRecord, Stages
  <2>4. flushes' = [flushes EXCEPT ![f] = r]
    BY <1>6 DEF Flush
  <2>5. UNCHANGED <<failure_mode, queue, counts, offered, abandoned>>
    BY <1>6 DEF Flush, client, history
  <2>6. r.remaining <= Len(queue)
    BY <1>1, <2>3
  <2> QED BY <1>2, <2>1, <2>3, <2>4, <2>5, <2>6, FlushStep
<1>7. CASE Return(f)
  <2>1. flushes' = [flushes EXCEPT ![f] = Resting]
    BY <1>7 DEF Return
  <2> QED BY <1>1, <1>2, <1>4, <1>7, <2>1, FlushStep DEF Return, client, history
<1>8. CASE Interrupt(f)
  <2>1. flushes' = [flushes EXCEPT ![f] = Resting] /\ flushes[f] # Resting
    BY <1>8 DEF Interrupt
  <2>2. abandoned' \in Numbers
    <3>1. abandoned + Len(flushes[f].batch) \in Nat
      BY <1>1, <1>2, SdkAssumption DEF Numbers
    <3> QED BY <1>8, <3>1, WrapType DEF Interrupt
  <2>3. UNCHANGED <<failure_mode, queue, counts, offered>>
    BY <1>8 DEF Interrupt, client
  <2>4. Resting.remaining <= Len(queue)
    BY <1>1, <1>4
  <2> QED BY <1>1, <1>2, <1>4, <2>1, <2>2, <2>3, <2>4, FlushStep
<1>9. CASE Server(f) \/ Busy(f)
  <2> PICK r : r = IF Server(f) THEN [flushes[f] EXCEPT !.stored = TRUE]
                   ELSE [flushes[f] EXCEPT !.attempt = @ + 1]
    OBVIOUS
  <2>1. flushes[f].stage = "sending"
    BY <1>9 DEF Server, Busy
  <2>2. /\ flushes' = [flushes EXCEPT ![f] = r]
        /\ r.stage = "sending" /\ r.batch = flushes[f].batch
        /\ r.remaining = flushes[f].remaining
    BY <1>1, <1>9, <2>1 DEF Server, Busy, FlushRecord
  <2>3. r \in FlushRecord
    <3>1. CASE Server(f)
      BY <1>1, <3>1 DEF FlushRecord
    <3>2. CASE ~Server(f)
      <4>1. flushes[f].attempt + 1 \in 0..MAX_RETRIES
        BY <1>1, <1>9, <3>2, SdkAssumption DEF Busy, FlushRecord
      <4> QED BY <1>1, <3>2, <4>1 DEF FlushRecord
    <3> QED BY <3>1, <3>2
  <2>4. counts' \in Counts /\ counts'.enqueued = counts.enqueued
    BY <1>2, <1>3, <1>9 DEF Server, Busy, client
  <2>5. UNCHANGED <<failure_mode, queue, offered, abandoned>>
    BY <1>9 DEF Server, Busy, client, history
  <2>6. \A g \in Threads \ {f} : flushes[g] = Resting
    BY <1>1, <2>1
  <2> QED BY <1>1, <1>2, <2>2, <2>3, <2>4, <2>5, <2>6, FlushStep
<1>10. CASE Answer(f) \/ Error(f) \/ Failed(f)
  <2>1. PICK stage \in {"sent", "failed", "dropping"} :
          /\ flushes' = [flushes EXCEPT ![f].stage = stage]
          /\ stage = "sent" => flushes[f].stored
    BY <1>10 DEF Answer, Error, Failed, To, Acknowledged
  <2> PICK r : r = [flushes[f] EXCEPT !.stage = stage]
    OBVIOUS
  <2>2. /\ r \in FlushRecord /\ r.stage = stage /\ r.batch = flushes[f].batch
        /\ r.remaining = flushes[f].remaining /\ r.stored = flushes[f].stored
    BY <1>1 DEF FlushRecord, Stages
  <2>3. counts' \in Counts /\ counts'.enqueued = counts.enqueued
    BY <1>2, <1>3, <1>10 DEF Answer, Error, Failed, client
  <2>4. flushes[f].stage # "resting" /\ flushes' = [flushes EXCEPT ![f] = r]
    BY <1>10, <2>1 DEF Answer, Error, Failed
  <2>5. UNCHANGED <<failure_mode, queue, offered, abandoned>>
    BY <1>10 DEF Answer, Error, Failed, client, history
  <2>6. \A g \in Threads \ {f} : flushes[g] = Resting
    BY <1>1, <2>4
  <2> QED BY <1>1, <1>2, <2>1, <2>2, <2>3, <2>4, <2>5, <2>6, FlushStep
<1>11. CASE Sent(f) \/ Dropped(f)
  <2> DEFINE looping == [flushes[f] EXCEPT !.stage = "looping", !.batch = << >>,
                                           !.stored = FALSE, !.attempt = 0]
  <2>1. PICK r \in {Resting, looping} : flushes' = [flushes EXCEPT ![f] = r]
    BY <1>11 DEF Sent, Dropped, Done
  <2>2. /\ looping \in FlushRecord /\ looping.stage = "looping" /\ looping.batch = << >>
        /\ looping.remaining = flushes[f].remaining
    BY <1>1, <1>5 DEF FlushRecord, Stages
  <2>3. /\ r \in FlushRecord /\ r.batch = << >> /\ r.remaining <= Len(queue)
        /\ r.stage \in {"resting", "looping"}
        /\ r.stage = "resting" => r = Resting
    <3>1. CASE r = Resting
      BY <1>1, <1>4, <3>1
    <3>2. CASE r = looping
      BY <1>1, <2>2, <3>2
    <3> QED BY <2>1, <3>1, <3>2
  <2>4. counts' \in Counts /\ counts'.enqueued = counts.enqueued
    BY <1>1, <1>3, <1>11 DEF Sent, Dropped
  <2>5. flushes[f].stage # "resting"
    BY <1>11 DEF Sent, Dropped
  <2> HIDE DEF looping
  <2>6. UNCHANGED <<failure_mode, queue, offered, abandoned>>
    BY <1>11 DEF Sent, Dropped, history
  <2>7. \A g \in Threads \ {f} : flushes[g] = Resting
    BY <1>1, <2>5
  <2> QED BY <1>2, <2>1, <2>3, <2>4, <2>6, <2>7, FlushStep
<1> QED BY <1>6, <1>7, <1>8, <1>9, <1>10, <1>11

(* Every step of applications and flushes.                                 *)
LEMMA InvNext == Inv /\ [Next]_vars => Inv'
<1> SUFFICES ASSUME Inv, [Next]_vars PROVE Inv'
  OBVIOUS
<1>1. CASE UNCHANGED vars
  BY <1>1, QuietStep DEF vars, client, history, Inv, TypeOK, Counts
<1>2. ASSUME NEW valid \in BOOLEAN, Emit(valid) \/ Observe(valid) PROVE Inv'
  BY <1>2, RefuseStep, EnqueueStep DEF Emit, Observe
<1>3. ASSUME NEW f \in Threads, Flush(f) \/ Server(f) \/ Work(f) \/ Interrupt(f) PROVE Inv'
  BY <1>3, WorkStep, TakeBatchStep DEF Work
<1> QED BY <1>1, <1>2, <1>3 DEF Next

(* The invariant the client's theorems rest on: one flush at a time, and   *)
(* batch and queue in one sequence.                                        *)
THEOREM InvHolds == Spec => []Inv
BY InvInit, InvNext, PTL DEF Spec

-----------------------------------------------------------------------------
(* The queue stays within its capacity and holds what the running flush    *)
(* still has to take, for every capacity, batch size and number of threads *)
(* (class ReliaMeshClient, emit and flush).                                *)
THEOREM TypeCorrect == Spec => []TypeOK
BY InvHolds, PTL DEF Inv

(* The batch in hand and the queue are the events in the order of emission *)
(* without a gap, whichever threads flush and however a flush ends (flush  *)
(* under _flush_lock).                                                     *)
THEOREM SentInOrder == Spec => []InOrder
BY InvHolds, OrderMeans, PTL

(* `sent` counts only batches the server has stored (flush: accepted plus  *)
(* duplicates equal the batch).                                            *)
THEOREM SentIsStored == Spec => SentWasStored
<1>1. Inv /\ [Next]_vars =>
        [\A f \in Threads : flushes[f].batch # << >> /\ counts'.sent # counts.sent
                              => flushes[f].stored]_vars
  <2> SUFFICES ASSUME Inv, Next, NEW f \in Threads, flushes[f].batch # << >>,
                      counts'.sent # counts.sent
               PROVE  flushes[f].stored
    BY DEF vars, client
  <2>1. counts \in Counts
    BY DEF Inv, TypeOK, Counts
  <2>2. \A name \in {"enqueued", "dropped", "failed_batches", "retries"}, n \in Nat :
          Raised(name, n).sent = counts.sent
    BY RaisedType DEF Inv
  <2>3. ~\E valid \in BOOLEAN : Emit(valid) \/ Observe(valid)
    BY <2>2 DEF Emit, Observe, Refuse, Enqueue
  <2>4. PICK g \in Threads : Flush(g) \/ Server(g) \/ Work(g) \/ Interrupt(g)
    BY <2>3 DEF Next
  <2>5. Len(flushes[g].batch) \in Nat
    BY FlushType
  <2>6. Sent(g)
    BY <2>2, <2>4, <2>5
       DEF Flush, Server, Interrupt, Work, TakeBatch, Return, Answer, Busy, Error, Failed,
           Dropped, client
  <2>7. flushes[g].stage = "sent" /\ flushes[g] # Resting
    BY <2>6, FlushType DEF Sent
  <2>8. f = g
    BY <2>7, FlushType, RestingType
  <2> QED BY <2>7, <2>8 DEF Inv, OneFlush
<1> QED BY <1>1, InvHolds, PTL DEF Spec, SentWasStored

(* A step of Delivery is one of the client's, or none of its business.     *)
LEMMA ClientStep == [DeliveryNext]_delivered => [Next]_vars
<1> SUFFICES ASSUME DeliveryNext PROVE Next \/ UNCHANGED vars
  BY DEF delivered
<1>1. CASE Tick
  BY <1>1 DEF Tick
<1>2. ASSUME NEW w \in Writers, StampEvent(w) \/ EmitStamped(w)
      PROVE  Next \/ UNCHANGED vars
  <2>1. CASE StampEvent(w)
    BY <2>1 DEF StampEvent
  <2>2. CASE EmitStamped(w)
    BY <2>2 DEF EmitStamped, Next, Emit
  <2> QED BY <1>2, <2>1, <2>2
<1>3. ASSUME NEW f \in Threads, Post(f) \/ GiveUp(f) \/ Continue(f) PROVE Next
  BY <1>3 DEF Post, GiveUp, Continue, Next, Work
<1>4. ASSUME NEW q \in wire, Accept(q) \/ RefuseLate(q) PROVE Next \/ UNCHANGED vars
  BY <1>4 DEF Accept, RefuseLate, Next
<1> QED BY <1>1, <1>2, <1>3, <1>4 DEF DeliveryNext

(* The client in Delivery, with the wire and the service around it, takes  *)
(* no step but those of SdkClient: what holds of the client holds there.   *)
THEOREM ClientInDelivery == DeliverySpec => Init /\ [][Next]_vars
<1>1. DeliveryInit => Init
  BY DEF DeliveryInit
<1> QED BY <1>1, ClientStep, PTL DEF DeliverySpec

-----------------------------------------------------------------------------
(***************************************************************************)
(* Delivery: what the service refuses as late.  No number wraps here, so   *)
(* the events that have left the queue are 1..Handed, and those that left  *)
(* it before the batch in hand are 1..Behind(f).                           *)
(***************************************************************************)

Handed    == counts.enqueued - Len(queue)
Behind(f) == Handed - Len(flushes[f].batch)

Busied == {w \in Writers : pending[w] # 0}

(* Each offered event has been stamped before, so their number is bounded. *)
Bounded ==
  /\ pending \in [Writers -> Nat] /\ clock \in Nat
  /\ IsFiniteSet(Busied) /\ offered + Cardinality(Busied) <= MaxEvents
  /\ counts.enqueued <= offered

(* The queue and the batch in hand are the events enqueued last.           *)
Numbered ==
  /\ \A i \in 1..Len(queue) : queue[i] = Handed + i
  /\ \A f \in Threads : \A i \in 1..Len(flushes[f].batch) :
       flushes[f].batch[i] = Behind(f) + i
  /\ Handed \in Nat /\ \A f \in Threads : Behind(f) \in Nat

(* A set of events is the batch in hand, or what left the queue before it. *)
Apart(events, f) == events = Range(flushes[f].batch) \/ events \subseteq 1..Behind(f)

(* Events that have left the queue, in a request of their own.             *)
Sound(events) == events \subseteq 1..Handed /\ \A f \in Threads : Apart(events, f)

(* The service knows of events that have left the queue; of the batch in   *)
(* hand it has accepted all or nothing.                                    *)
Known ==
  /\ accepted \subseteq 1..Handed
  /\ \A f \in Threads : \/ Range(flushes[f].batch) \subseteq accepted
                        \/ accepted \subseteq 1..Behind(f)
  /\ \A q \in wire : Sound(Range(q.batch))

InHand(batch) == \E f \in Threads : flushes[f].stage = "sending" /\ flushes[f].batch = batch

(* What is on its way and no longer waited for has been stored before, or  *)
(* was given up.                                                           *)
Settled ==
  /\ \A f \in Threads : flushes[f].stored => Range(flushes[f].batch) \subseteq accepted
  /\ \A q \in wire : InHand(q.batch) \/ Range(q.batch) \subseteq accepted \cup unanswered

DeliveryInv == Inv /\ Bounded /\ Numbered /\ Known /\ Settled /\ LateOnlyIfOvertaken

(* An empty batch has no events, and a batch those at its places.          *)
LEMMA RangeOf ==
  /\ Range(<< >>) = {} /\ Len(<< >>) = 0
  /\ \A b \in Seq(Numbers) : Range(b) = {b[i] : i \in 1..Len(b)}
<1>1. DOMAIN << >> = 1..0 /\ Len(<< >>) = 0
  BY EmptySeq
<1>2. \A b \in Seq(Numbers) : DOMAIN b = 1..Len(b)
  BY LenProperties
<1> QED BY <1>1, <1>2 DEF Range

(* The batch in hand lies between what left the queue before it and what   *)
(* is still queued.                                                        *)
LEMMA InHandLies ==
  ASSUME Inv, Numbered, NEW f \in Threads, NEW e \in Range(flushes[f].batch)
  PROVE  /\ e \in 1..Handed /\ e > Behind(f)
         /\ Handed \in Nat /\ Behind(f) \in Nat
<1> DEFINE b == flushes[f].batch
<1>1. b \in Seq(Numbers) /\ Len(b) \in Nat
  BY FlushType DEF FlushRecord
<1>2. PICK i \in 1..Len(b) : e = b[i]
  BY <1>1, RangeOf
<1>3. /\ e = Behind(f) + i /\ Behind(f) \in Nat /\ Handed \in Nat
      /\ Behind(f) = Handed - Len(b)
  BY <1>2 DEF Numbered, Behind
<1> HIDE DEF b
<1> QED BY <1>1, <1>2, <1>3

(* What the flushing thread does to the client's state, short of taking a  *)
(* batch: the batch in hand stays, or is gone.                             *)
LEMMA FlushEffect ==
  ASSUME Inv, NEW f \in Threads,
         Flush(f) \/ Return(f) \/ Answer(f) \/ Busy(f) \/ Error(f)
           \/ Sent(f) \/ Failed(f) \/ Dropped(f) \/ Interrupt(f)
  PROVE  /\ queue' = queue /\ counts'.enqueued = counts.enqueued /\ offered' = offered
         /\ \A g \in Threads \ {f} : flushes'[g] = flushes[g]
         /\ \/ flushes'[f].batch = flushes[f].batch /\ flushes'[f].stored = flushes[f].stored
            \/ flushes'[f].batch = << >> /\ ~flushes'[f].stored
<1>1. /\ flushes \in [Threads -> FlushRecord] /\ flushes[f] \in FlushRecord
      /\ Len(flushes[f].batch) \in Nat
  BY FlushType DEF Inv, TypeOK, FlushRecord
<1>2. \A name \in {"sent", "dropped", "failed_batches", "retries"}, n \in Nat :
        Raised(name, n).enqueued = counts.enqueued
  BY RaisedType DEF Inv
<1>3. Resting.batch = << >> /\ ~Resting.stored
  BY DEF Resting
<1>4. CASE Flush(f)
  BY <1>1, <1>4 DEF Flush, FlushRecord, client, history
<1>5. CASE Return(f)
  BY <1>1, <1>3, <1>5 DEF Return, client, history
<1>6. CASE Answer(f) \/ Error(f)
  BY <1>1, <1>6 DEF Answer, Error, To, FlushRecord, client, history
<1>7. CASE Busy(f)
  BY <1>1, <1>2, <1>7 DEF Busy, FlushRecord, history
<1>8. CASE Failed(f)
  BY <1>1, <1>2, <1>8 DEF Failed, To, FlushRecord, history
<1>9. CASE Sent(f) \/ Dropped(f)
  <2>1. counts'.enqueued = counts.enqueued /\ queue' = queue /\ offered' = offered
    BY <1>1, <1>2, <1>9 DEF Sent, Dropped, history
  <2>2. PICK stage : Done(f, stage)
    BY <1>9 DEF Sent, Dropped
  <2>3. CASE stage = "resting"
    BY <1>1, <1>3, <2>1, <2>2, <2>3 DEF Done
  <2>4. CASE stage # "resting"
    BY <1>1, <2>1, <2>2, <2>4 DEF Done, FlushRecord
  <2> QED BY <2>3, <2>4
<1>10. CASE Interrupt(f)
  BY <1>1, <1>3, <1>10 DEF Interrupt, client
<1> QED BY <1>4, <1>5, <1>6, <1>7, <1>8, <1>9, <1>10

(* And what taking one does.                                               *)
LEMMA TakeEffect ==
  ASSUME Inv, NEW f \in Threads, TakeBatch(f)
  PROVE  \E n \in Nat \ {0} :
           /\ counts' = counts /\ offered' = offered
           /\ Len(queue) \in Nat /\ n <= Len(queue)
           /\ Len(queue') = Len(queue) - n
           /\ \A i \in 1..Len(queue) - n : queue'[i] = queue[n + i]
           /\ flushes[f].batch = << >> /\ flushes[f].stage = "looping"
           /\ flushes'[f].batch \in Seq(Numbers) /\ Len(flushes'[f].batch) = n
           /\ \A i \in 1..n : flushes'[f].batch[i] = queue[i]
           /\ flushes'[f].stage = "sending" /\ ~flushes'[f].stored
           /\ \A g \in Threads \ {f} :
                /\ flushes'[g] = flushes[g] /\ flushes[g].batch = << >>
                /\ ~flushes[g].stored /\ flushes[g].stage = "resting"
<1> PICK q \in Seq(Numbers) : q = queue
  BY DEF Inv, TypeOK
<1>1. PICK n \in 1..BATCH :
        /\ n <= Len(q) /\ queue' = SubSeq(q, n + 1, Len(q))
        /\ flushes' = [flushes EXCEPT ![f] =
             [stage |-> "sending", remaining |-> flushes[f].remaining - n,
              batch |-> SubSeq(q, 1, n), attempt |-> 0, stored |-> FALSE]]
  BY DEF TakeBatch, Left
<1> PICK b : b = SubSeq(q, 1, n)
  OBVIOUS
<1> PICK s : s = SubSeq(q, n + 1, Len(q))
  OBVIOUS
<1>2. Len(q) \in Nat /\ n \in Nat \ {0} /\ n >= 1
  BY <1>1, LenProperties, SdkAssumption
<1>3. b \in Seq(Numbers) /\ Len(b) = n /\ \A i \in 1..n : b[i] = q[i]
  <2>1. \A i \in 1..n : q[i] \in Numbers
    BY <1>1, <1>2, ElementOfSeq
  <2> QED BY <1>2, <2>1, SubSeqProperties
<1>4. Len(s) = Len(q) - n /\ \A i \in 1..Len(q) - n : s[i] = q[n + i]
  <2>1. \A i \in n + 1..Len(q) : q[i] \in Numbers
    BY <1>2, ElementOfSeq
  <2> QED BY <1>1, <1>2, <2>1, SubSeqProperties
<1>5. /\ flushes[f].stage = "looping" /\ flushes[f].batch = << >>
      /\ \A g \in Threads \ {f} : flushes[g] = Resting
      /\ flushes \in [Threads -> FlushRecord]
  BY FlushType DEF TakeBatch, Inv, OneFlush, TypeOK, FlushRecord
<1>6. /\ flushes'[f] = [stage |-> "sending", remaining |-> flushes[f].remaining - n,
                        batch |-> b, attempt |-> 0, stored |-> FALSE]
      /\ \A g \in Threads \ {f} : flushes'[g] = flushes[g]
  BY <1>1, <1>5
<1>7. Resting.batch = << >> /\ ~Resting.stored /\ Resting.stage = "resting"
  BY DEF Resting
<1>8. counts' = counts /\ offered' = offered
  BY DEF TakeBatch, history
<1>9. queue' = s
  BY <1>1
<1> WITNESS n \in Nat \ {0}
<1> QED BY <1>1, <1>2, <1>3, <1>4, <1>5, <1>6, <1>7, <1>8, <1>9

(* No event can be enqueued under a number that wraps.                     *)
LEMMA EnqueueEffect ==
  ASSUME Inv, Bounded, Enqueue, offered + 1 <= MaxEvents
  PROVE  /\ counts'.enqueued = counts.enqueued + 1 /\ offered' = offered + 1
         /\ counts.enqueued \in Nat /\ offered \in Nat
         /\ Len(queue) \in Nat /\ Len(queue') = Len(queue) + 1
         /\ \A i \in 1..Len(queue) : queue'[i] = queue[i]
         /\ queue'[Len(queue) + 1] = counts.enqueued + 1
         /\ flushes' = flushes
<1>1. counts \in Counts /\ offered \in Nat /\ counts.enqueued \in Nat
  BY SdkAssumption DEF Inv, TypeOK, Numbers, Counts
<1>2. \A n \in Nat : n <= MaxEvents => Wrap(n) = n /\ n \in Numbers
  BY SdkAssumption, DeliveryAssumption DEF Wrap, Numbers
<1>3. counts.enqueued + 1 <= MaxEvents
  BY <1>1, DeliveryAssumption DEF Bounded
<1>4. counts'.enqueued = counts.enqueued + 1 /\ offered' = offered + 1
      /\ counts.enqueued + 1 \in Numbers
  <2>1. counts'.enqueued = Wrap(counts.enqueued + 1)
    BY RaisedType DEF Enqueue, Inv
  <2> QED BY <1>1, <1>2, <1>3, <2>1 DEF Enqueue
<1>5. queue \in Seq(Numbers) /\ Len(queue) \in Nat
  BY LenProperties DEF Inv, TypeOK
<1>6. queue' = Append(queue, counts.enqueued + 1)
  BY <1>4 DEF Enqueue
<1>7. /\ Len(queue') = Len(queue) + 1
      /\ \A i \in 1..Len(queue) : queue'[i] = queue[i]
      /\ queue'[Len(queue) + 1] = counts.enqueued + 1
  BY <1>4, <1>5, <1>6, AppendProperties
<1> QED BY <1>1, <1>4, <1>5, <1>7 DEF Enqueue
(* A step that takes nothing from the queue and adds nothing to it keeps   *)
(* the numbers, and each batch or none.                                    *)
KeptOrGone ==
  /\ queue' = queue /\ counts'.enqueued = counts.enqueued
  /\ \A f \in Threads : flushes'[f].batch \in {flushes[f].batch, << >>}

LEMMA NumbersKept ==
  ASSUME Inv, Numbered, KeptOrGone
  PROVE  /\ Numbered' /\ Handed' = Handed
         /\ \A f \in Threads :
              \/ Range(flushes'[f].batch) = Range(flushes[f].batch) /\ Behind(f)' = Behind(f)
              \/ Range(flushes'[f].batch) = {} /\ Behind(f)' = Handed
<1>1. Handed' = Handed
  BY DEF KeptOrGone, Handed
<1>2. ASSUME NEW f \in Threads
      PROVE  \/ flushes'[f].batch = flushes[f].batch /\ Behind(f)' = Behind(f)
             \/ flushes'[f].batch = << >> /\ Behind(f)' = Handed
  <2>1. CASE flushes'[f].batch = flushes[f].batch
    BY <1>1, <2>1 DEF Behind
  <2>2. CASE flushes'[f].batch = << >>
    <3>1. Len(flushes'[f].batch) = 0 /\ Handed \in Nat
      BY <2>2, RangeOf DEF Numbered
    <3> QED BY <1>1, <2>2, <3>1 DEF Behind
  <2> QED BY <2>1, <2>2 DEF KeptOrGone
<1>3. Numbered'
  <2>1. \A i \in 1..Len(queue') : queue'[i] = Handed' + i
    BY <1>1 DEF Numbered, KeptOrGone
  <2>2. ASSUME NEW f \in Threads
        PROVE  /\ \A i \in 1..Len(flushes'[f].batch) : flushes'[f].batch[i] = Behind(f)' + i
               /\ Behind(f)' \in Nat
    <3>1. CASE flushes'[f].batch = flushes[f].batch /\ Behind(f)' = Behind(f)
      BY <3>1 DEF Numbered
    <3>2. CASE flushes'[f].batch = << >> /\ Behind(f)' = Handed
      BY <3>2, RangeOf DEF Numbered
    <3> QED BY <1>2, <3>1, <3>2
  <2> QED BY <1>1, <2>1, <2>2 DEF Numbered
<1> QED BY <1>1, <1>2, <1>3, RangeOf

(* The batch in hand can become a request.                                 *)
LEMMA BatchSound ==
  ASSUME Inv, Numbered, NEW f \in Threads
  PROVE  Sound(Range(flushes[f].batch))
<1>1. Range(flushes[f].batch) \subseteq 1..Handed
  BY InHandLies
<1>2. ASSUME NEW g \in Threads PROVE Apart(Range(flushes[f].batch), g)
  <2>1. CASE g = f
    BY <2>1 DEF Apart
  <2>2. CASE flushes[f].batch = << >>
    BY <2>2, RangeOf DEF Apart
  <2>3. CASE g # f /\ flushes[f].batch # << >>
    <3>1. Len(flushes[g].batch) = 0
      BY <2>3, FlushType, RestingType
    <3>2. Behind(g) = Handed
      BY <3>1 DEF Behind, Numbered
    <3> QED BY <1>1, <3>2 DEF Apart
  <2> QED BY <2>1, <2>2, <2>3
<1> QED BY <1>1, <1>2 DEF Sound

(* Such a step does not disturb what the service knows, which may take in  *)
(* the events of a request.                                                *)
LEMMA KnownKept ==
  ASSUME Inv, Numbered, Known, KeptOrGone,
         NEW events, Sound(events), accepted' \in {accepted, accepted \cup events},
         \A q \in wire' : Sound(Range(q.batch))
  PROVE  Known'
<1>1. /\ Handed' = Handed /\ Handed \in Nat
      /\ \A f \in Threads :
           /\ Behind(f) \in Nat /\ Behind(f) <= Handed
           /\ \/ Range(flushes'[f].batch) = Range(flushes[f].batch) /\ Behind(f)' = Behind(f)
              \/ Range(flushes'[f].batch) = {} /\ Behind(f)' = Handed
  <2>1. ASSUME NEW f \in Threads PROVE Behind(f) \in Nat /\ Behind(f) <= Handed
    <3>1. Len(flushes[f].batch) \in Nat /\ Handed \in Nat /\ Behind(f) \in Nat
      BY FlushType DEF Numbered
    <3> QED BY <3>1 DEF Behind
  <2> QED BY <2>1, NumbersKept DEF Numbered
<1>2. accepted' \subseteq 1..Handed' /\ \A q \in wire' : Range(q.batch) \subseteq 1..Handed'
  BY <1>1 DEF Known, Sound
<1>3. ASSUME NEW f \in Threads
      PROVE  /\ \/ Range(flushes'[f].batch) \subseteq accepted'
                \/ accepted' \subseteq 1..Behind(f)'
             /\ \A q \in wire' : Apart(Range(q.batch), f)'
  <2>1. CASE Range(flushes'[f].batch) = Range(flushes[f].batch) /\ Behind(f)' = Behind(f)
    <3>1. \A set : Apart(set, f) => set = Range(flushes[f].batch) \/ set \subseteq 1..Behind(f)
      BY DEF Apart
    <3>2. /\ \/ Range(flushes[f].batch) \subseteq accepted
             \/ accepted \subseteq 1..Behind(f)
          /\ \/ events = Range(flushes[f].batch)
             \/ events \subseteq 1..Behind(f)
      BY <3>1 DEF Known, Sound
    <3>3. \A q \in wire' : Apart(Range(q.batch), f)'
      BY <2>1, <3>1 DEF Apart, Sound
    <3>4. \/ Range(flushes'[f].batch) \subseteq accepted'
          \/ accepted' \subseteq 1..Behind(f)'
      BY <2>1, <3>2
    <3> QED BY <3>3, <3>4
  <2>2. CASE Range(flushes'[f].batch) = {} /\ Behind(f)' = Handed
    BY <1>1, <1>2, <2>2 DEF Apart
  <2> QED BY <1>1, <2>1, <2>2
<1>4. \A q \in wire' : Sound(Range(q.batch))'
  BY <1>2, <1>3 DEF Sound
<1> QED BY <1>2, <1>3, <1>4 DEF Known

(* A new event is behind everything the service knows.                     *)
LEMMA EnqueueKept ==
  ASSUME Inv, Bounded, Numbered, Known, Enqueue, offered + 1 <= MaxEvents,
         accepted' = accepted, wire' = wire
  PROVE  Numbered' /\ Known'
<1>1. /\ counts'.enqueued = counts.enqueued + 1 /\ counts.enqueued \in Nat
      /\ Len(queue) \in Nat /\ Len(queue') = Len(queue) + 1
      /\ \A i \in 1..Len(queue) : queue'[i] = queue[i]
      /\ queue'[Len(queue) + 1] = counts.enqueued + 1
      /\ flushes' = flushes
  BY EnqueueEffect
<1>2. Handed' = Handed /\ \A f \in Threads : Behind(f)' = Behind(f)
  <2>1. Handed' = Handed
    BY <1>1 DEF Handed
  <2> QED BY <1>1, <2>1 DEF Behind
<1>3. \A i \in 1..Len(queue') : queue'[i] = Handed' + i
  <2> TAKE i \in 1..Len(queue')
  <2>1. CASE i \in 1..Len(queue)
    BY <1>1, <1>2, <2>1 DEF Numbered
  <2>2. CASE i = Len(queue) + 1
    BY <1>1, <1>2, <2>2 DEF Handed
  <2> QED BY <1>1, <2>1, <2>2
<1>4. Numbered'
  BY <1>1, <1>2, <1>3 DEF Numbered
<1>5. Known'
  BY <1>1, <1>2 DEF Known, Sound, Apart
<1> QED BY <1>4, <1>5

(* A batch moves from the queue into the thread's hand and onto the wire.  *)
LEMMA TakeKept ==
  ASSUME Inv, Numbered, Known, NEW f \in Threads, TakeBatch(f),
         accepted' = accepted, wire' = wire \cup {Request(f)'}
  PROVE  Numbered' /\ Known'
<1>1. PICK n \in Nat \ {0} :
        /\ counts' = counts
        /\ Len(queue) \in Nat /\ n <= Len(queue)
        /\ Len(queue') = Len(queue) - n
        /\ \A i \in 1..Len(queue) - n : queue'[i] = queue[n + i]
        /\ flushes[f].batch = << >>
        /\ flushes'[f].batch \in Seq(Numbers) /\ Len(flushes'[f].batch) = n
        /\ \A i \in 1..n : flushes'[f].batch[i] = queue[i]
        /\ \A g \in Threads \ {f} :
             flushes'[g] = flushes[g] /\ flushes[g].batch = << >>
  BY TakeEffect
<1>2. counts.enqueued \in Int /\ Handed \in Nat
  BY SdkAssumption DEF Numbered, Inv, TypeOK, Numbers
<1>3. /\ Handed' = Handed + n /\ Handed' \in Nat
      /\ Behind(f)' = Handed
      /\ \A g \in Threads \ {f} : Behind(g)' = Handed' /\ flushes'[g].batch = << >>
  <2>1. Handed' = Handed + n
    BY <1>1, <1>2 DEF Handed
  <2>2. Behind(f)' = Handed
    BY <1>1, <1>2, <2>1 DEF Behind
  <2>3. \A g \in Threads \ {f} : Len(flushes'[g].batch) = 0
    BY <1>1, RangeOf
  <2>4. \A g \in Threads \ {f} : Behind(g)' = Handed'
    <3> TAKE g \in Threads \ {f}
    <3>1. Behind(g)' = Handed' - Len(flushes'[g].batch)
      BY DEF Behind
    <3>2. Len(flushes'[g].batch) = 0 /\ Handed' \in Nat
      BY <1>2, <2>1, <2>3
    <3>3. \A h \in Nat : h - 0 = h
      OBVIOUS
    <3>4. Behind(g)' = Handed' - 0
      BY <3>1, <3>2
    <3> QED BY <3>2, <3>3, <3>4
  <2>5. Handed' \in Nat
    <3>1. n \in Nat
      BY <1>1
    <3> QED BY <1>2, <2>1, <3>1
  <2>6. \A g \in Threads \ {f} : flushes'[g].batch = << >>
    BY <1>1
  <2> QED BY <2>1, <2>2, <2>4, <2>5, <2>6
<1>4. \A i \in 1..Len(queue) : queue[i] = Handed + i
  BY DEF Numbered
<1>5. \A i \in 1..Len(queue') : queue'[i] = Handed' + i
  <2> TAKE i \in 1..Len(queue')
  <2>1. i \in 1..Len(queue) - n /\ n + i \in 1..Len(queue)
    BY <1>1
  <2>2. queue'[i] = Handed + (n + i)
    BY <1>1, <1>4, <2>1
  <2> QED BY <1>1, <1>2, <1>3, <2>1, <2>2
<1>6. \A i \in 1..n : flushes'[f].batch[i] = Handed + i
  <2> TAKE i \in 1..n
  <2>1. i \in 1..Len(queue)
    BY <1>1
  <2> QED BY <1>1, <1>4, <2>1
<1>7. Numbered'
  <2>1. \A g \in Threads : /\ Behind(g)' \in Nat
                           /\ \A i \in 1..Len(flushes'[g].batch) :
                                flushes'[g].batch[i] = Behind(g)' + i
    <3> TAKE g \in Threads
    <3>1. CASE g = f
      BY <1>1, <1>2, <1>3, <1>6, <3>1
    <3>2. CASE g # f
      BY <1>3, <3>2, RangeOf
    <3> QED BY <3>1, <3>2
  <2> QED BY <1>3, <1>5, <2>1 DEF Numbered
<1>8. Range(flushes'[f].batch) \subseteq 1..Handed'
  <2>1. \A i \in 1..n : Handed + i \in 1..Handed'
    BY <1>2, <1>3
  <2> QED BY <1>1, <1>6, <2>1, RangeOf
<1>9. \A q \in wire : Range(q.batch) \subseteq 1..Handed
  BY DEF Known, Sound
<1>10. 1..Handed \subseteq 1..Handed'
  BY <1>2, <1>3
<1>11. Request(f)'.batch = flushes'[f].batch
  BY DEF Request
<1>12. Known'
  <2>1. accepted' \subseteq 1..Handed'
    BY <1>10 DEF Known
  <2>2. \A q \in wire' : Range(q.batch) \subseteq 1..Handed'
    BY <1>8, <1>9, <1>10, <1>11
  <2>3. ASSUME NEW g \in Threads
        PROVE  /\ Range(flushes'[g].batch) \subseteq accepted' \/ accepted' \subseteq 1..Behind(g)'
               /\ \A q \in wire' : Apart(Range(q.batch), g)'
    <3>1. CASE g = f
      <4>1. accepted' \subseteq 1..Behind(g)'
        BY <1>3, <3>1 DEF Known
      <4>2. \A q \in wire' : Apart(Range(q.batch), g)'
        BY <1>3, <1>9, <1>11, <3>1 DEF Apart
      <4> QED BY <4>1, <4>2
    <3>2. CASE g # f
      <4>1. Range(flushes'[g].batch) = {} /\ Behind(g)' = Handed'
        BY <1>3, <3>2, RangeOf
      <4> QED BY <2>2, <4>1 DEF Apart
    <3> QED BY <3>1, <3>2
  <2>4. \A q \in wire' : Sound(Range(q.batch))'
    BY <2>2, <2>3 DEF Sound
  <2> QED BY <2>1, <2>3, <2>4 DEF Known
<1> QED BY <1>7, <1>12
(* The stamps waiting to be enqueued, with the events offered before them. *)
LEMMA BoundedSame ==
  ASSUME Bounded, offered' = offered, counts'.enqueued = counts.enqueued,
         pending' = pending, clock' \in Nat
  PROVE  Bounded'
BY DEF Bounded, Busied

LEMMA BoundedStamp ==
  ASSUME Inv, Bounded, NEW w \in Writers, StampEvent(w)
  PROVE  Bounded'
<1>1. /\ offered + Cardinality(Busied) < MaxEvents
      /\ pending' = [pending EXCEPT ![w] = clock]
      /\ offered' = offered /\ counts' = counts /\ clock' = clock
  BY DEF StampEvent, Busied, vars, client, history
<1>2. Busied' \subseteq Busied \cup {w}
  BY <1>1 DEF Bounded, Busied
<1>3. /\ IsFiniteSet(Busied \cup {w}) /\ Cardinality(Busied \cup {w}) \in Nat
      /\ Cardinality(Busied \cup {w}) <= Cardinality(Busied) + 1
      /\ Cardinality(Busied) \in Nat
  <2>1. /\ IsFiniteSet(Busied \cup {w})
        /\ \/ Cardinality(Busied \cup {w}) = Cardinality(Busied)
           \/ Cardinality(Busied \cup {w}) = Cardinality(Busied) + 1
    BY FS_AddElement DEF Bounded
  <2>2. Cardinality(Busied) \in Nat
    BY FS_CardinalityType DEF Bounded
  <2> QED BY <2>1, <2>2
<1>4. /\ IsFiniteSet(Busied') /\ Cardinality(Busied') <= Cardinality(Busied) + 1
      /\ Cardinality(Busied') \in Nat
  <2>1. IsFiniteSet(Busied') /\ Cardinality(Busied') <= Cardinality(Busied \cup {w})
    BY <1>2, <1>3, FS_Subset
  <2>2. Cardinality(Busied') \in Nat
    BY <2>1, FS_CardinalityType
  <2> QED BY <1>3, <2>1, <2>2
<1>5. offered \in Nat
  BY SdkAssumption DEF Inv, TypeOK, Numbers
<1>6. offered' + Cardinality(Busied') <= MaxEvents
  BY <1>1, <1>3, <1>4, <1>5, DeliveryAssumption
<1> QED BY <1>1, <1>4, <1>6 DEF Bounded

LEMMA BoundedEmit ==
  ASSUME Inv, Bounded, NEW w \in Writers, EmitStamped(w)
  PROVE  Bounded' /\ offered + 1 <= MaxEvents /\ offered' = offered + 1
<1>1. /\ pending[w] # 0 /\ pending' = [pending EXCEPT ![w] = 0] /\ clock' = clock
      /\ offered' = Wrap(offered + 1)
  BY DEF EmitStamped, Enqueue, Refuse
<1>2. Busied' = Busied \ {w} /\ w \in Busied
  BY <1>1 DEF Bounded, Busied
<1>3. /\ IsFiniteSet(Busied') /\ Cardinality(Busied') = Cardinality(Busied) - 1
      /\ Cardinality(Busied) \in Nat /\ Cardinality(Busied') \in Nat
  BY <1>2, FS_RemoveElement, FS_CardinalityType DEF Bounded
<1>4. offered \in Nat /\ counts.enqueued \in Nat
  BY SdkAssumption DEF Inv, TypeOK, Numbers
<1>5. offered + 1 <= MaxEvents
  BY <1>3, <1>4, DeliveryAssumption DEF Bounded
<1>6. offered' = offered + 1
  BY <1>1, <1>4, <1>5, SdkAssumption, DeliveryAssumption DEF Wrap
<1>7. counts'.enqueued <= offered'
  <2>1. CASE Enqueue
    BY <1>4, <1>5, <1>6, <2>1, EnqueueEffect DEF Bounded
  <2>2. ASSUME NEW valid \in BOOLEAN, Refuse(valid) PROVE counts'.enqueued <= offered'
    <3>1. counts'.enqueued = counts.enqueued
      BY <2>2, RaisedType DEF Refuse, Inv
    <3> QED BY <1>4, <1>6, <3>1 DEF Bounded
  <2> QED BY <2>1, <2>2 DEF EmitStamped
<1>8. offered' + Cardinality(Busied') <= MaxEvents
  BY <1>3, <1>4, <1>6, DeliveryAssumption DEF Bounded
<1>9. pending' \in [Writers -> Nat]
  BY <1>1 DEF Bounded
<1> QED BY <1>1, <1>3, <1>5, <1>6, <1>7, <1>8, <1>9 DEF Bounded

(* One writer's step.                                                      *)
LEMMA WriterStep ==
  ASSUME DeliveryInv, Inv', NEW w \in Writers, StampEvent(w) \/ EmitStamped(w)
  PROVE  DeliveryInv'
<1>1. /\ UNCHANGED service /\ flushes' = flushes
      /\ accepted' = accepted /\ wire' = wire
  BY DEF StampEvent, EmitStamped, Enqueue, Refuse, vars, service
<1>2. Settled' /\ LateOnlyIfOvertaken'
  BY <1>1 DEF DeliveryInv, Settled, InHand, LateOnlyIfOvertaken, service
<1>3. Bounded'
  BY BoundedStamp, BoundedEmit DEF DeliveryInv
<1>4. Numbered' /\ Known'
  <2>1. CASE EmitStamped(w) /\ Enqueue
    BY <1>1, <2>1, BoundedEmit, EnqueueKept DEF DeliveryInv
  <2>2. CASE ~(EmitStamped(w) /\ Enqueue)
    <3>1. queue' = queue /\ counts'.enqueued = counts.enqueued
      BY <2>2, RaisedType DEF StampEvent, EmitStamped, Refuse, vars, client, DeliveryInv, Inv
    <3>2. KeptOrGone
      BY <1>1, <3>1 DEF KeptOrGone
    <3>3. Sound({})
      BY DEF Sound, Apart
    <3> QED BY <1>1, <3>2, <3>3, NumbersKept, KnownKept DEF DeliveryInv, Known
  <2> QED BY <2>1, <2>2
<1> QED BY <1>2, <1>3, <1>4 DEF DeliveryInv

(* A batch or its retry goes out.                                          *)
LEMMA PostStep ==
  ASSUME DeliveryInv, Inv', NEW f \in Threads, Post(f)
  PROVE  DeliveryInv'
<1>1. /\ wire' = wire \cup {Request(f)'} /\ Request(f)'.batch = flushes'[f].batch
      /\ accepted' = accepted /\ unanswered' = unanswered /\ late' = late
      /\ pending' = pending /\ clock' = clock
  BY DEF Post, Request
<1>2. /\ offered' = offered /\ counts'.enqueued = counts.enqueued
      /\ \A g \in Threads \ {f} : flushes'[g] = flushes[g]
      /\ flushes'[f].stored => flushes[f].stored /\ flushes'[f].batch = flushes[f].batch
      /\ flushes'[f].stage = "sending"
      /\ flushes[f].stage = "sending" => flushes'[f].batch = flushes[f].batch
  <2>1. CASE TakeBatch(f)
    BY <2>1, TakeEffect DEF DeliveryInv
  <2>2. CASE Busy(f)
    <3>1. flushes[f] \in FlushRecord /\ flushes \in [Threads -> FlushRecord]
      BY DEF DeliveryInv, Inv, TypeOK, FlushRecord
    <3>2. /\ flushes'[f].stage = "sending" /\ flushes'[f].batch = flushes[f].batch
          /\ flushes'[f].stored = flushes[f].stored
      BY <2>2, <3>1 DEF Busy, FlushRecord
    <3> QED BY <2>2, <3>2, FlushEffect DEF DeliveryInv
  <2> QED BY <2>1, <2>2 DEF Post
<1>3. Numbered' /\ Known'
  <2>1. CASE TakeBatch(f)
    BY <1>1, <2>1, TakeKept DEF DeliveryInv
  <2>2. CASE Busy(f)
    <3>1. KeptOrGone
      BY <2>2, FlushEffect DEF KeptOrGone, DeliveryInv
    <3>2. flushes'[f].batch = flushes[f].batch
      BY <1>2, <2>2 DEF Busy
    <3>3. Sound(Range(flushes[f].batch))
      BY BatchSound DEF DeliveryInv
    <3>4. \A q \in wire' : Sound(Range(q.batch))
      BY <1>1, <3>2, <3>3 DEF DeliveryInv, Known
    <3> QED BY <1>1, <3>1, <3>3, <3>4, NumbersKept, KnownKept DEF DeliveryInv
  <2> QED BY <2>1, <2>2 DEF Post
<1>4. Settled'
  <2>1. \A g \in Threads : flushes'[g].stored => Range(flushes'[g].batch) \subseteq accepted'
    BY <1>1, <1>2 DEF DeliveryInv, Settled
  <2>2. \A b : b = flushes'[f].batch => InHand(b)'
    BY <1>2 DEF InHand
  <2>3. \A b : InHand(b) => InHand(b)'
    <3> SUFFICES ASSUME NEW b, NEW g \in Threads, flushes[g].stage = "sending",
                        flushes[g].batch = b
                 PROVE  flushes'[g].stage = "sending" /\ flushes'[g].batch = b
      BY DEF InHand
    <3> QED BY <1>2
  <2>4. ASSUME NEW q \in wire'
        PROVE  InHand(q.batch)' \/ Range(q.batch) \subseteq accepted' \cup unanswered'
    <3>1. CASE q \in wire
      <4>1. InHand(q.batch) \/ Range(q.batch) \subseteq accepted \cup unanswered
        BY <3>1 DEF DeliveryInv, Settled
      <4> QED BY <1>1, <2>3, <4>1
    <3>2. CASE q.batch = flushes'[f].batch
      BY <2>2, <3>2
    <3> QED BY <1>1, <3>1, <3>2
  <2> QED BY <2>1, <2>4 DEF Settled, InHand
<1>5. Bounded' /\ LateOnlyIfOvertaken'
  BY <1>1, <1>2, BoundedSame DEF DeliveryInv, Bounded, LateOnlyIfOvertaken
<1> QED BY <1>3, <1>4, <1>5 DEF DeliveryInv

(* The flushing thread's other steps: what it stops waiting for has been   *)
(* stored, is not on its way, or is noted.                                 *)
LEMMA ThreadStep ==
  ASSUME DeliveryInv, Inv', NEW f \in Threads, GiveUp(f) \/ Continue(f)
  PROVE  DeliveryInv'
<1>1. /\ wire' = wire /\ accepted' = accepted /\ late' = late
      /\ pending' = pending /\ clock' = clock /\ unanswered \subseteq unanswered'
  BY DEF GiveUp, Continue, service
<1>2. Flush(f) \/ Return(f) \/ Answer(f) \/ Busy(f) \/ Error(f)
        \/ Sent(f) \/ Failed(f) \/ Dropped(f) \/ Interrupt(f)
  BY DEF GiveUp, Continue
<1>3. /\ queue' = queue /\ offered' = offered /\ counts'.enqueued = counts.enqueued
      /\ \A g \in Threads \ {f} : flushes'[g] = flushes[g]
      /\ \/ flushes'[f].batch = flushes[f].batch /\ flushes'[f].stored = flushes[f].stored
         \/ flushes'[f].batch = << >> /\ ~flushes'[f].stored
  BY <1>2, FlushEffect DEF DeliveryInv
<1>4. KeptOrGone
  BY <1>3 DEF KeptOrGone
<1>5. Numbered' /\ Known'
  <2>1. Sound({})
    BY DEF Sound, Apart
  <2> QED BY <1>1, <1>4, <2>1, NumbersKept, KnownKept DEF DeliveryInv, Known
<1>6. flushes[f].stage = "sending" =>
        \A q \in wire : q.batch = flushes[f].batch => Range(q.batch) \subseteq accepted \cup unanswered'
  <2> SUFFICES ASSUME flushes[f].stage = "sending", NEW q \in wire, q.batch = flushes[f].batch
               PROVE  Range(q.batch) \subseteq accepted \cup unanswered'
    OBVIOUS
  <2>1. CASE GiveUp(f)
    BY <2>1 DEF GiveUp
  <2>2. CASE Continue(f)
    <3>1. Answer(f) /\ flushes'[f].stage = "sent"
      BY <2>2, FlushType, RestingType
         DEF Continue, Flush, MayFlush, Return, Sent, Failed, Dropped, DeliveryInv
    <3>2. flushes'[f].stored
      BY <3>1 DEF Inv, OneFlush
    <3> QED BY <1>3, <3>2 DEF DeliveryInv, Settled
  <2> QED BY <2>1, <2>2
<1>7. Settled'
  <2>1. \A g \in Threads : flushes'[g].stored => Range(flushes'[g].batch) \subseteq accepted'
    BY <1>1, <1>3 DEF DeliveryInv, Settled
  <2>2. ASSUME NEW q \in wire, NEW g \in Threads, flushes[g].stage = "sending",
               flushes[g].batch = q.batch
        PROVE  InHand(q.batch)' \/ Range(q.batch) \subseteq accepted' \cup unanswered'
    <3>1. CASE g = f
      BY <1>1, <1>6, <2>2, <3>1
    <3>2. CASE g # f
      BY <1>3, <2>2, <3>2 DEF InHand
    <3> QED BY <3>1, <3>2
  <2>3. \A q \in wire' : InHand(q.batch)' \/ Range(q.batch) \subseteq accepted' \cup unanswered'
    BY <1>1, <2>2 DEF DeliveryInv, Settled, InHand
  <2> QED BY <2>1, <2>3 DEF Settled, InHand
<1>8. Bounded' /\ LateOnlyIfOvertaken'
  BY <1>1, <1>3, BoundedSame DEF DeliveryInv, Bounded, LateOnlyIfOvertaken
<1> QED BY <1>5, <1>7, <1>8 DEF DeliveryInv

(* The service accepts a request.                                          *)
LEMMA AcceptStep ==
  ASSUME DeliveryInv, Inv', NEW q \in wire, Accept(q)
  PROVE  DeliveryInv'
<1>1. /\ wire' = wire \ {q} /\ accepted' = accepted \cup Range(q.batch)
      /\ late' = late /\ pending' = pending /\ clock' = clock /\ unanswered' = unanswered
  BY DEF Accept
<1>2. /\ queue' = queue /\ offered' = offered /\ counts' = counts
      /\ \A g \in Threads : /\ flushes'[g].batch = flushes[g].batch
                            /\ flushes'[g].stage = flushes[g].stage
                            /\ flushes'[g].stored =>
                                 flushes[g].stored \/ flushes[g].batch = q.batch
  <2>1. CASE UNCHANGED vars
    BY <2>1 DEF vars, client, history
  <2>2. CASE ~UNCHANGED vars
    <3>1. PICK f \in Threads : Server(f) /\ flushes[f].batch = q.batch
      BY <2>2 DEF Accept
    <3>2. flushes \in [Threads -> FlushRecord]
      BY DEF DeliveryInv, Inv, TypeOK, FlushRecord
    <3>3. flushes' = [flushes EXCEPT ![f].stored = TRUE]
      BY <3>1 DEF Server
    <3>4. ASSUME NEW g \in Threads
          PROVE  /\ flushes'[g].batch = flushes[g].batch
                 /\ flushes'[g].stage = flushes[g].stage
                 /\ flushes'[g].stored => flushes[g].stored \/ flushes[g].batch = q.batch
      <4>1. CASE g = f
        BY <3>1, <3>2, <3>3, <4>1 DEF FlushRecord
      <4>2. CASE g # f
        BY <3>2, <3>3, <4>2
      <4> QED BY <4>1, <4>2
    <3> QED BY <3>1, <3>4 DEF Server, client, history
  <2> QED BY <2>1, <2>2
<1>3. Numbered' /\ Known'
  <2>1. KeptOrGone
    BY <1>2 DEF KeptOrGone
  <2>2. Sound(Range(q.batch)) /\ \A p \in wire' : Sound(Range(p.batch))
    BY <1>1 DEF DeliveryInv, Known
  <2> QED BY <1>1, <2>1, <2>2, NumbersKept, KnownKept DEF DeliveryInv
<1>4. Settled'
  <2>1. \A g \in Threads : flushes'[g].stored => Range(flushes'[g].batch) \subseteq accepted'
    BY <1>1, <1>2 DEF DeliveryInv, Settled
  <2>2. \A b : InHand(b) => InHand(b)'
    BY <1>2 DEF InHand
  <2>3. \A p \in wire' : InHand(p.batch)' \/ Range(p.batch) \subseteq accepted' \cup unanswered'
    BY <1>1, <2>2 DEF DeliveryInv, Settled
  <2> QED BY <2>1, <2>3 DEF Settled, InHand
<1>5. Bounded' /\ LateOnlyIfOvertaken'
  BY <1>1, <1>2, BoundedSame DEF DeliveryInv, Bounded, LateOnlyIfOvertaken
<1> QED BY <1>3, <1>4, <1>5 DEF DeliveryInv

(* The service refuses a request: if it is still waited for, nothing of it *)
(* has been accepted, and what has been accepted left the queue before it. *)
LEMMA RefuseLateStep ==
  ASSUME DeliveryInv, Inv', NEW q \in wire, RefuseLate(q)
  PROVE  DeliveryInv'
<1>1. /\ wire' = wire \ {q} /\ accepted' = accepted /\ unanswered' = unanswered
      /\ pending' = pending /\ clock' = clock /\ UNCHANGED vars
      /\ queue' = queue /\ counts' = counts /\ flushes' = flushes /\ offered' = offered
      /\ late' \subseteq late \cup (Unseen(q.batch) \X accepted)
  BY DEF RefuseLate, Late, vars, client, history
<1>2. ASSUME NEW e \in Unseen(q.batch), NEW a \in accepted
      PROVE  e \in unanswered \/ a < e
  <2>1. e \in Range(q.batch) /\ e \notin accepted
    BY DEF Unseen
  <2>2. CASE ~InHand(q.batch)
    BY <2>1, <2>2 DEF DeliveryInv, Settled
  <2>3. ASSUME NEW f \in Threads, flushes[f].batch = q.batch PROVE a < e
    <3>1. a \in 1..Behind(f)
      BY <2>1, <2>3 DEF DeliveryInv, Known
    <3>2. e \in 1..Handed /\ e > Behind(f) /\ Handed \in Nat /\ Behind(f) \in Nat
      BY <2>1, <2>3, InHandLies DEF DeliveryInv
    <3> QED BY <3>1, <3>2
  <2> QED BY <2>2, <2>3 DEF InHand
<1>3. LateOnlyIfOvertaken'
  <2> SUFFICES ASSUME NEW pair \in late'
               PROVE  pair[1] \in unanswered \/ pair[2] < pair[1]
    BY <1>1 DEF LateOnlyIfOvertaken
  <2>1. CASE pair \in late
    BY <2>1 DEF DeliveryInv, LateOnlyIfOvertaken
  <2>2. CASE pair \in Unseen(q.batch) \X accepted
    BY <1>2, <2>2
  <2> QED BY <1>1, <2>1, <2>2
<1>4. Numbered' /\ Known'
  <2>1. KeptOrGone
    BY <1>1 DEF KeptOrGone
  <2>2. Sound(Range(q.batch)) /\ \A p \in wire' : Sound(Range(p.batch))
    BY <1>1 DEF DeliveryInv, Known
  <2> QED BY <1>1, <2>1, <2>2, NumbersKept, KnownKept DEF DeliveryInv
<1>5. Settled'
  BY <1>1 DEF DeliveryInv, Settled, InHand
<1>6. Bounded'
  BY <1>1, BoundedSame DEF DeliveryInv, Bounded
<1> QED BY <1>3, <1>4, <1>5, <1>6 DEF DeliveryInv

LEMMA DeliveryInit_Inv == DeliveryInit => DeliveryInv
<1> SUFFICES ASSUME DeliveryInit PROVE DeliveryInv
  OBVIOUS
<1>1. Inv
  BY InvInit DEF DeliveryInit
<1>2. /\ queue = << >> /\ Len(queue) = 0 /\ counts.enqueued = 0 /\ offered = 0
      /\ \A f \in Threads : flushes[f].batch = << >> /\ ~flushes[f].stored
  BY RangeOf DEF DeliveryInit, Init, Resting
<1>3. Handed = 0 /\ \A f \in Threads : Behind(f) = 0
  <2>1. Handed = 0
    <3>1. Handed = 0 - 0
      BY <1>2 DEF Handed
    <3> QED BY <3>1
  <2>2. ASSUME NEW f \in Threads PROVE Behind(f) = 0
    <3>1. Len(flushes[f].batch) = 0
      BY <1>2, RangeOf
    <3>2. Behind(f) = 0 - 0
      BY <2>1, <3>1 DEF Behind
    <3> QED BY <3>2
  <2> QED BY <2>1, <2>2
<1>4. Busied = {} /\ pending \in [Writers -> Nat] /\ clock = 1
  BY DEF DeliveryInit, Busied
<1>5. Bounded
  BY <1>2, <1>4, FS_EmptySet, DeliveryAssumption DEF Bounded
<1>6. Numbered
  BY <1>2, <1>3, RangeOf DEF Numbered
<1>7. Known /\ Settled /\ LateOnlyIfOvertaken
  BY <1>2, RangeOf DEF DeliveryInit, Known, Settled, LateOnlyIfOvertaken
<1> QED BY <1>1, <1>5, <1>6, <1>7 DEF DeliveryInv

(* A step of the client together with wire and service.                    *)
LEMMA DeliveryNext_Inv == DeliveryInv /\ [DeliveryNext]_delivered => DeliveryInv'
<1> SUFFICES ASSUME DeliveryInv, [DeliveryNext]_delivered PROVE DeliveryInv'
  OBVIOUS
<1>1. Inv'
  BY ClientStep, InvNext DEF DeliveryInv
<1>2. CASE Tick \/ UNCHANGED delivered
  <2>1. /\ UNCHANGED <<vars, pending, stamp, service>> /\ clock' \in Nat
        /\ queue' = queue /\ counts' = counts /\ flushes' = flushes /\ offered' = offered
        /\ wire' = wire /\ accepted' = accepted /\ unanswered' = unanswered /\ late' = late
    BY <1>2 DEF Tick, delivered, vars, client, history, service, DeliveryInv, Bounded
  <2>2. KeptOrGone /\ Sound({})
    BY <2>1 DEF KeptOrGone, Sound, Apart
  <2>3. Numbered' /\ Known'
    BY <2>1, <2>2, NumbersKept, KnownKept DEF DeliveryInv, Known
  <2>4. Settled' /\ LateOnlyIfOvertaken'
    BY <2>1 DEF DeliveryInv, Settled, InHand, LateOnlyIfOvertaken
  <2>5. Bounded'
    BY <2>1, BoundedSame DEF DeliveryInv
  <2> QED BY <1>1, <2>3, <2>4, <2>5 DEF DeliveryInv
<1> QED BY <1>1, <1>2, WriterStep, PostStep, ThreadStep, AcceptStep, RefuseLateStep
        DEF DeliveryNext

(* The service refuses an event of a well-behaved client as late only when *)
(* another thread's overtook it before the queue, or its request was given *)
(* up on its way (flush under _flush_lock, process_events).                *)
THEOREM LateCorrect == DeliverySpec => []LateOnlyIfOvertaken
<1>1. DeliveryInv => LateOnlyIfOvertaken
  BY DEF DeliveryInv
<1> QED BY <1>1, DeliveryInit_Inv, DeliveryNext_Inv, PTL DEF DeliverySpec
-----------------------------------------------------------------------------
(***************************************************************************)
(* Conservation.  The sum over the threads has one summand that is not     *)
(* zero, and the counters are compared as they wrap.                       *)
(***************************************************************************)

(* A nonempty set of numbers has a smallest one.                           *)
LEMMA SmallestNumber ==
  ASSUME NEW T \in SUBSET Nat, T # {}
  PROVE  \E m \in T : \A n \in T : m <= n
<1> DEFINE less == OpToRel(<, Nat)
<1>1. \E m \in T : \A n \in T : ~ (<<n, m>> \in less)
  BY NatLessThanWellFounded, WFMin, Zenon
<1>2. \A m, n \in Nat : n < m => <<n, m>> \in less
  BY Zenon DEF OpToRel
<1> HIDE DEF less
<1>3. PICK m \in T : \A n \in T : ~ (<<n, m>> \in less)
  BY <1>1
<1>4. \A n \in T : ~ (n < m)
  BY <1>2, <1>3, Zenon
<1>5. \A n \in T : m <= n
  BY <1>4
<1> QED  BY <1>5

(* The equation of the fold's inner function, for a sum over S.            *)
Unfolds(h, S, fun) ==
  h = [s \in SUBSET S |->
         IF s = {} THEN 0
         ELSE fun[CHOOSE x \in s : TRUE] + h[s \ {CHOOSE x \in s : TRUE}]]

LEMMA FoldIs ==
  ASSUME NEW S, NEW fun, DOMAIN fun = S
  PROVE  SumFunction(fun) = (CHOOSE h : Unfolds(h, S, fun))[S]
BY DEF SumFunction, SumFunctionOnSet, FoldFunctionOnSet, MapThenFoldSet, Unfolds

(* A sum in which only one summand counts.                                 *)
LEMMA SumOfOne ==
  ASSUME NEW S, IsFiniteSet(S), NEW fun, DOMAIN fun = S, NEW only, NEW n \in Nat,
         \A x \in S : fun[x] = IF x = only THEN n ELSE 0
  PROVE  SumFunction(fun) = IF only \in S THEN n ELSE 0
<1> DEFINE g == [s \in SUBSET S |-> IF only \in s THEN n ELSE 0]
           pick(s) == CHOOSE x \in s : TRUE
<1>1. Unfolds(g, S, fun)
  <2>1. ASSUME NEW s \in SUBSET S
        PROVE  g[s] = IF s = {} THEN 0 ELSE fun[pick(s)] + g[s \ {pick(s)}]
    <3>1. CASE s = {}
      BY <3>1
    <3>2. CASE s # {}
      <4>1. pick(s) \in s
        BY <3>2
      <4> HIDE DEF pick
      <4>2. s \ {pick(s)} \in SUBSET S
        OBVIOUS
      <4>3. CASE pick(s) = only
        <5>1. g[s] = n /\ fun[pick(s)] = n /\ g[s \ {pick(s)}] = 0
          BY <4>1, <4>2, <4>3
        <5> QED BY <3>2, <5>1
      <4>4. CASE pick(s) # only
        <5>1. fun[pick(s)] = 0 /\ g[s \ {pick(s)}] = g[s] /\ g[s] \in Nat
          BY <4>1, <4>2, <4>4
        <5> QED BY <3>2, <5>1
      <4> QED BY <4>3, <4>4
    <3> QED BY <3>1, <3>2
  <2>2. g = [s \in SUBSET S |-> IF s = {} THEN 0 ELSE fun[pick(s)] + g[s \ {pick(s)}]]
    <3>1. g = [s \in SUBSET S |-> g[s]]
      OBVIOUS
    <3> HIDE DEF g, pick
    <3> QED BY <2>1, <3>1
  <2> QED BY <2>2 DEF Unfolds
<1> HIDE DEF g
<1>2. ASSUME NEW h, Unfolds(h, S, fun)
      PROVE  h[S] = g[S]
  <2> DEFINE wrong == {s \in SUBSET S : h[s] # g[s]}
             sizes == {Cardinality(s) : s \in wrong}
  <2>1. \A s \in SUBSET S : IsFiniteSet(s) /\ Cardinality(s) \in Nat
    BY FS_Subset, FS_CardinalityType
  <2>2. \A s \in SUBSET S : /\ h[s] = IF s = {} THEN 0 ELSE fun[pick(s)] + h[s \ {pick(s)}]
                            /\ g[s] = IF s = {} THEN 0 ELSE fun[pick(s)] + g[s \ {pick(s)}]
    BY <1>1, <1>2 DEF Unfolds
  <2>3. \A s \in SUBSET S : s # {} => pick(s) \in s
    OBVIOUS
  <2> HIDE DEF pick
  <2>4. ASSUME wrong # {} PROVE FALSE
    <3>1. sizes \in SUBSET Nat /\ sizes # {}
      BY <2>1, <2>4
    <3>2. PICK k \in sizes : \A m \in sizes : k <= m
      <4> HIDE DEF sizes
      <4> QED BY <3>1, SmallestNumber
    <3>3. PICK s \in wrong : k = Cardinality(s)
      BY <3>2
    <3>4. s # {}
      BY <2>2, <3>3
    <3>5. s \ {pick(s)} \in wrong
      BY <2>2, <2>3, <3>3, <3>4
    <3>6. Cardinality(s \ {pick(s)}) = Cardinality(s) - 1
      BY <2>1, <2>3, <3>3, <3>4, FS_RemoveElement
    <3>7. Cardinality(s) \in Nat
      BY <2>1, <3>3
    <3>8. k <= Cardinality(s \ {pick(s)})
      BY <3>2, <3>5
    <3> QED BY <3>3, <3>6, <3>7, <3>8
  <2> QED BY <2>4
<1>3. Unfolds(CHOOSE h : Unfolds(h, S, fun), S, fun)
  BY <1>1
<1>4. SumFunction(fun) = g[S]
  BY <1>2, <1>3, FoldIs
<1> QED BY <1>4 DEF g

LEMMA InFlightIs ==
  ASSUME NEW fl, NEW f \in Threads, fl[f].batch \in Seq(Numbers),
         \A g \in Threads \ {f} : fl[g].batch = << >>
  PROVE  SumFunction([g \in Threads |-> Len(fl[g].batch)]) = Len(fl[f].batch)
<1> DEFINE fun == [g \in Threads |-> Len(fl[g].batch)]
           n   == Len(fl[f].batch)
<1>1. n \in Nat
  BY LenProperties
<1>2. DOMAIN fun = Threads /\ \A g \in Threads : fun[g] = IF g = f THEN n ELSE 0
  BY RangeOf
<1>3. IsFiniteSet(Threads)
  BY SdkAssumption
<1> HIDE DEF fun, n
<1>4. SumFunction(fun) = IF f \in Threads THEN n ELSE 0
  BY <1>1, <1>2, <1>3, SumOfOne
<1> QED BY <1>4 DEF fun, n

(* Multiples of MODULUS lie that far apart, so a remainder is unique.      *)
LEMMA WrapDivides ==
  ASSUME NEW n \in Nat
  PROVE  \E k \in Nat : n = MODULUS * k + Wrap(n) /\ Wrap(n) \in 0..MODULUS - 1
<1>1. n = MODULUS * (n \div MODULUS) + (n % MODULUS) /\ n % MODULUS \in 0..MODULUS - 1
  BY SdkAssumption
<1>2. n \div MODULUS \in Nat
  BY SdkAssumption
<1> QED BY <1>1, <1>2 DEF Wrap

LEMMA WrapNat == \A n \in Nat : Wrap(n) \in Nat
BY SdkAssumption DEF Wrap

LEMMA MultiplesApart ==
  ASSUME NEW a \in Nat, NEW b \in Nat, a < b
  PROVE  MODULUS * a + MODULUS <= MODULUS * b
<1>1. PICK c \in Nat : b = a + 1 + c
  <2>1. b - a - 1 \in Nat /\ b = a + 1 + (b - a - 1)
    OBVIOUS
  <2> QED BY <2>1
<1>2. MODULUS * b = MODULUS * a + MODULUS + MODULUS * c
  BY <1>1, SdkAssumption
<1>3. MODULUS * c \in Nat /\ MODULUS * a \in Nat
  BY SdkAssumption
<1> QED BY <1>2, <1>3, SdkAssumption

LEMMA WrapUnique ==
  ASSUME NEW n \in Nat, NEW k \in Nat, NEW r \in 0..MODULUS - 1, n = MODULUS * k + r
  PROVE  Wrap(n) = r
<1>1. PICK j \in Nat : n = MODULUS * j + Wrap(n) /\ Wrap(n) \in 0..MODULUS - 1
  BY WrapDivides
<1>2. MODULUS * j \in Nat /\ MODULUS * k \in Nat
  BY SdkAssumption
<1>3. ASSUME j < k PROVE FALSE
  <2>1. MODULUS * j + MODULUS <= MODULUS * k
    BY <1>3, MultiplesApart
  <2> QED BY <1>1, <1>2, <2>1, SdkAssumption
<1>4. ASSUME k < j PROVE FALSE
  <2>1. MODULUS * k + MODULUS <= MODULUS * j
    BY <1>4, MultiplesApart
  <2> QED BY <1>1, <1>2, <2>1, SdkAssumption
<1>5. j = k
  BY <1>3, <1>4
<1> QED BY <1>1, <1>2, <1>5

(* Wrapping on the way makes no difference to what is wrapped in the end.  *)
LEMMA WrapOnce ==
  ASSUME NEW a \in Nat, NEW n \in Nat
  PROVE  Wrap(Wrap(a) + n) = Wrap(a + n)
<1>1. PICK k \in Nat : a = MODULUS * k + Wrap(a) /\ Wrap(a) \in 0..MODULUS - 1
  BY WrapDivides
<1>2. PICK r \in 0..MODULUS - 1 : r = Wrap(a)
  BY <1>1
<1>3. r + n \in Nat /\ a + n \in Nat
  BY SdkAssumption
<1>4. PICK j \in Nat : /\ r + n = MODULUS * j + Wrap(r + n)
                       /\ Wrap(r + n) \in 0..MODULUS - 1
  BY <1>3, WrapDivides
<1>5. PICK w \in 0..MODULUS - 1 : w = Wrap(r + n)
  BY <1>4
<1>6. PICK x \in Nat, y \in Nat : x = MODULUS * k /\ y = MODULUS * j
  BY SdkAssumption
<1>7. k + j \in Nat /\ MODULUS * (k + j) = x + y
  BY <1>6, SdkAssumption
<1>8. a + n = (x + y) + w
  <2>1. a = x + r /\ r + n = y + w
    BY <1>1, <1>2, <1>4, <1>5, <1>6
  <2> QED BY <2>1, SdkAssumption
<1>9. Wrap(a + n) = w
  BY <1>3, <1>7, <1>8, WrapUnique
<1> QED BY <1>2, <1>5, <1>9

Total == counts.sent + counts.dropped + abandoned + Len(queue) + InFlight

(* The summands are numbers.                                               *)
LEMMA TotalType ==
  ASSUME Inv
  PROVE  /\ counts.sent \in Nat /\ counts.dropped \in Nat /\ abandoned \in Nat
         /\ Len(queue) \in Nat /\ offered \in Nat /\ InFlight \in Nat
<1>1. /\ counts.sent \in Nat /\ counts.dropped \in Nat /\ abandoned \in Nat
      /\ offered \in Nat /\ Len(queue) \in Nat
  BY LenProperties, SdkAssumption DEF Inv, TypeOK, Numbers
<1>2. CASE \E f \in Threads : flushes[f].batch # << >>
  <2>1. PICK f \in Threads : flushes[f].batch # << >>
    BY <1>2
  <2>2. flushes[f].batch \in Seq(Numbers) /\ Len(flushes[f].batch) \in Nat
    BY FlushType DEF FlushRecord
  <2>3. \A g \in Threads \ {f} : flushes[g].batch = << >>
    BY <2>1, FlushType, RestingType
  <2>4. InFlight = Len(flushes[f].batch)
    BY <2>2, <2>3, InFlightIs DEF InFlight
  <2> QED BY <1>1, <2>2, <2>4
<1>3. CASE \A f \in Threads : flushes[f].batch = << >>
  <2> DEFINE fun == [g \in Threads |-> Len(flushes[g].batch)]
  <2>1. DOMAIN fun = Threads /\ \A g \in Threads : fun[g] = IF g = Threads THEN 0 ELSE 0
    BY <1>3, RangeOf
  <2>2. IsFiniteSet(Threads) /\ 0 \in Nat
    BY SdkAssumption
  <2> HIDE DEF fun
  <2>3. SumFunction(fun) = IF Threads \in Threads THEN 0 ELSE 0
    BY <2>1, <2>2, SumOfOne
  <2> QED BY <1>1, <2>3 DEF InFlight, fun
<1> QED BY <1>1, <1>2, <1>3

(* One event more, or the batch in hand counted: the sum keeps up.         *)
LEMMA SumGrows ==
  ASSUME NEW before \in Nat, NEW after \in Nat, NEW part \in Nat, NEW rest \in Nat,
         NEW more \in Nat, after = Wrap(part) + rest, part + rest = before + more
  PROVE  Wrap(after) = Wrap(Wrap(before) + more)
<1>1. Wrap(after) = Wrap(part + rest)
  BY WrapOnce
<1>2. Wrap(Wrap(before) + more) = Wrap(before + more)
  BY WrapOnce
<1> QED BY <1>1, <1>2

(* An application's step.                                                  *)
LEMMA OfferConserves ==
  ASSUME Inv, Conservation, NEW valid \in BOOLEAN, Refuse(valid) \/ Enqueue
  PROVE  Conservation'
<1>1. InFlight' = InFlight /\ offered' = Wrap(offered + 1) /\ abandoned' = abandoned
  BY DEF Refuse, Enqueue, InFlight
<1>2. /\ counts.sent \in Nat /\ counts.dropped \in Nat /\ abandoned \in Nat
      /\ Len(queue) \in Nat /\ InFlight \in Nat
  BY TotalType
<1>3. offered' = Wrap(Wrap(Total) + 1) /\ Total \in Nat
  BY <1>1, <1>2 DEF Conservation, Total
<1>4. CASE Refuse(valid)
  <2>1. /\ counts'.sent = counts.sent /\ counts'.dropped = Wrap(counts.dropped + 1)
        /\ queue' = queue
    BY <1>4, RaisedType DEF Refuse, Inv
  <2> DEFINE part == counts.dropped + 1
             rest == counts.sent + abandoned + Len(queue) + InFlight
  <2>2. /\ part \in Nat /\ rest \in Nat /\ Wrap(part) \in Nat /\ 1 \in Nat
        /\ part + rest = Total + 1
    <3>1. part \in Nat /\ rest \in Nat
      BY <1>2
    <3>2. part + rest = Total + 1
      <4>1. PICK s, d, a, q, b \in Nat : s = counts.sent /\ d = counts.dropped
                /\ a = abandoned /\ q = Len(queue) /\ b = InFlight
        BY <1>2
      <4>2. part = d + 1 /\ rest = s + a + q + b /\ Total = s + d + a + q + b
        BY <4>1 DEF Total
      <4> HIDE DEF part, rest
      <4> QED BY <4>2
    <3> HIDE DEF part, rest
    <3> QED BY <3>1, <3>2, WrapNat
  <2>3. Total' = Wrap(part) + rest
    BY <1>1, <1>2, <2>1, <2>2 DEF Total
  <2> HIDE DEF part, rest
  <2>4. Total' \in Nat
    BY <2>2, <2>3
  <2>5. Wrap(Total') = Wrap(Wrap(Total) + 1)
    BY <1>3, <2>2, <2>3, <2>4, SumGrows
  <2> QED BY <1>3, <2>5 DEF Conservation, Total, Wrap
<1>5. CASE Enqueue
  <2>1. /\ counts'.sent = counts.sent /\ counts'.dropped = counts.dropped
        /\ counts'.enqueued \in Numbers
    BY <1>5, RaisedType DEF Enqueue, Inv
  <2>2. Len(queue') = Len(queue) + 1
    BY <1>5, <2>1, AppendProperties DEF Enqueue, Inv, TypeOK
  <2>3. Total' = Total + 1
    BY <1>1, <1>2, <2>1, <2>2 DEF Total
  <2>4. Wrap(Wrap(Total) + 1) = Wrap(Total + 1)
    BY <1>3, WrapOnce
  <2> QED BY <1>3, <2>3, <2>4 DEF Conservation, Total, Wrap
<1> QED BY <1>4, <1>5

(* A step that counts nothing and keeps every batch.                       *)
LEMMA IdleConserves ==
  ASSUME Inv, Conservation,
         counts'.sent = counts.sent, counts'.dropped = counts.dropped,
         queue' = queue, offered' = offered, abandoned' = abandoned,
         \A f \in Threads : flushes'[f].batch = flushes[f].batch
  PROVE  Conservation'
<1>1. InFlight' = InFlight
  BY DEF InFlight
<1> QED BY <1>1 DEF Conservation, Wrap

LEMMA Regroup ==
  \A a, b, c, d, n \in Nat :
    /\ (a + n) + (b + c + d) = a + b + c + d + n
    /\ (b + n) + (a + c + d) = a + b + c + d + n
    /\ (c + n) + (a + b + d) = a + b + c + d + n
OBVIOUS

(* The batch in hand is counted, as sent or dropped or abandoned.          *)
LEMMA CountedConserves ==
  ASSUME Inv, Conservation, NEW f \in Threads, flushes[f].stage # "resting",
         \A g \in Threads \ {f} : flushes'[g] = flushes[g],
         flushes'[f].batch = << >>, queue' = queue, offered' = offered,
         NEW n \in Nat, n = Len(flushes[f].batch),
         \/ /\ counts'.sent = Wrap(counts.sent + n) /\ counts'.dropped = counts.dropped
            /\ abandoned' = abandoned
         \/ /\ counts'.sent = counts.sent /\ counts'.dropped = Wrap(counts.dropped + n)
            /\ abandoned' = abandoned
         \/ /\ counts'.sent = counts.sent /\ counts'.dropped = counts.dropped
            /\ abandoned' = Wrap(abandoned + n)
  PROVE  Conservation'
<1>1. /\ counts.sent \in Nat /\ counts.dropped \in Nat /\ abandoned \in Nat
      /\ Len(queue) \in Nat /\ InFlight \in Nat
  BY TotalType
<1>2. /\ \A g \in Threads \ {f} : flushes[g].batch = << >>
      /\ flushes[f].batch \in Seq(Numbers) /\ << >> \in Seq(Numbers)
  BY FlushType, RestingType, EmptySeq DEF FlushRecord
<1>3. InFlight = n
  BY <1>2, InFlightIs DEF InFlight
<1>4. InFlight' = 0
  <2>1. \A g \in Threads \ {f} : flushes'[g].batch = << >>
    BY <1>2
  <2>2. SumFunction([g \in Threads |-> Len(flushes'[g].batch)]) = Len(flushes'[f].batch)
    BY <1>2, <2>1, InFlightIs
  <2> QED BY <2>2, RangeOf DEF InFlight
<1>5. Total \in Nat /\ offered = Wrap(Total)
  BY <1>1 DEF Total, Conservation
<1>6. Wrap(Total') = Wrap(Total)
  <2>1. CASE /\ counts'.sent = Wrap(counts.sent + n) /\ counts'.dropped = counts.dropped
             /\ abandoned' = abandoned
    <3> DEFINE part == counts.sent + n
               rest == counts.dropped + abandoned + Len(queue)
    <3>1. part \in Nat /\ rest \in Nat /\ part + rest = Total
      <4>1. part \in Nat /\ rest \in Nat
        BY <1>1
      <4>2. Total = counts.sent + counts.dropped + abandoned + Len(queue) + n
        BY <1>3 DEF Total
      <4>3. part + rest = counts.sent + counts.dropped + abandoned + Len(queue) + n
        BY <1>1, Regroup
      <4> QED BY <4>1, <4>2, <4>3
    <3>2. Wrap(part) \in Nat
      BY <3>1, WrapNat
    <3>3. Total' = Wrap(part) + rest
      BY <1>1, <1>4, <2>1, <3>2 DEF Total
    <3> HIDE DEF part, rest
    <3> QED BY <3>1, <3>3, WrapOnce
  <2>2. CASE /\ counts'.sent = counts.sent /\ counts'.dropped = Wrap(counts.dropped + n)
             /\ abandoned' = abandoned
    <3> DEFINE part == counts.dropped + n
               rest == counts.sent + abandoned + Len(queue)
    <3>1. part \in Nat /\ rest \in Nat /\ part + rest = Total
      <4>1. part \in Nat /\ rest \in Nat
        BY <1>1
      <4>2. Total = counts.sent + counts.dropped + abandoned + Len(queue) + n
        BY <1>3 DEF Total
      <4>3. part + rest = counts.sent + counts.dropped + abandoned + Len(queue) + n
        BY <1>1, Regroup
      <4> QED BY <4>1, <4>2, <4>3
    <3>2. Wrap(part) \in Nat
      BY <3>1, WrapNat
    <3>3. Total' = Wrap(part) + rest
      BY <1>1, <1>4, <2>2, <3>2 DEF Total
    <3> HIDE DEF part, rest
    <3> QED BY <3>1, <3>3, WrapOnce
  <2>3. CASE /\ counts'.sent = counts.sent /\ counts'.dropped = counts.dropped
             /\ abandoned' = Wrap(abandoned + n)
    <3> DEFINE part == abandoned + n
               rest == counts.sent + counts.dropped + Len(queue)
    <3>1. part \in Nat /\ rest \in Nat /\ part + rest = Total
      <4>1. part \in Nat /\ rest \in Nat
        BY <1>1
      <4>2. Total = counts.sent + counts.dropped + abandoned + Len(queue) + n
        BY <1>3 DEF Total
      <4>3. part + rest = counts.sent + counts.dropped + abandoned + Len(queue) + n
        BY <1>1, Regroup
      <4> QED BY <4>1, <4>2, <4>3
    <3>2. Wrap(part) \in Nat
      BY <3>1, WrapNat
    <3>3. Total' = Wrap(part) + rest
      BY <1>1, <1>4, <2>3, <3>2 DEF Total
    <3> HIDE DEF part, rest
    <3> QED BY <3>1, <3>3, WrapOnce
  <2> QED BY <2>1, <2>2, <2>3
<1> QED BY <1>5, <1>6 DEF Conservation, Total, Wrap

LEMMA TakeConserves ==
  ASSUME Inv, Conservation, NEW f \in Threads, TakeBatch(f)
  PROVE  Conservation'
<1>1. PICK n \in Nat \ {0} :
        /\ counts' = counts /\ offered' = offered
        /\ Len(queue') = Len(queue) - n
        /\ flushes[f].batch = << >>
        /\ flushes'[f].batch \in Seq(Numbers) /\ Len(flushes'[f].batch) = n
        /\ \A g \in Threads \ {f} : flushes'[g] = flushes[g] /\ flushes[g].batch = << >>
  BY TakeEffect
<1>2. abandoned' = abandoned
  BY DEF TakeBatch, history
<1>3. /\ counts.sent \in Nat /\ counts.dropped \in Nat /\ abandoned \in Nat
      /\ Len(queue) \in Nat
  BY TotalType
<1>4. InFlight = 0
  <2>1. flushes[f].batch \in Seq(Numbers)
    BY FlushType DEF FlushRecord
  <2>2. SumFunction([g \in Threads |-> Len(flushes[g].batch)]) = Len(flushes[f].batch)
    BY <1>1, <2>1, InFlightIs
  <2> QED BY <1>1, <2>2, RangeOf DEF InFlight
<1>5. InFlight' = n
  <2>1. \A g \in Threads \ {f} : flushes'[g].batch = << >>
    BY <1>1
  <2>2. SumFunction([g \in Threads |-> Len(flushes'[g].batch)]) = Len(flushes'[f].batch)
    BY <1>1, <2>1, InFlightIs
  <2> QED BY <1>1, <2>2 DEF InFlight
<1>6. Total' = Total
  BY <1>1, <1>2, <1>3, <1>4, <1>5 DEF Total
<1> QED BY <1>1, <1>6 DEF Conservation, Total, Wrap

LEMMA ConservationNext == Inv /\ Conservation /\ [Next]_vars => Conservation'
<1> SUFFICES ASSUME Inv, Conservation, [Next]_vars PROVE Conservation'
  OBVIOUS
<1>1. CASE UNCHANGED vars
  BY <1>1, IdleConserves DEF vars, client, history
<1>2. ASSUME NEW valid \in BOOLEAN, Emit(valid) \/ Observe(valid) PROVE Conservation'
  BY <1>2, OfferConserves DEF Emit, Observe
<1>3. ASSUME NEW f \in Threads, Flush(f) \/ Server(f) \/ Work(f) \/ Interrupt(f)
      PROVE  Conservation'
  <2>1. /\ flushes \in [Threads -> FlushRecord] /\ flushes[f] \in FlushRecord
        /\ Len(flushes[f].batch) \in Nat
        /\ flushes[f].stage = "resting" => flushes[f] = Resting
    BY FlushType DEF Inv, OneFlush, TypeOK, FlushRecord
  <2>2. \A name \in {"failed_batches", "retries"}, n \in Nat :
          /\ Raised(name, n).sent = counts.sent
          /\ Raised(name, n).dropped = counts.dropped
    BY RaisedType DEF Inv
  <2>3. Resting.batch = << >> /\ Len(<< >>) = 0
    BY RestingType
  <2>4. CASE TakeBatch(f)
    BY <2>4, TakeConserves
  <2>5. CASE Flush(f) \/ Server(f) \/ Answer(f) \/ Busy(f) \/ Error(f) \/ Failed(f)
    <3>1. /\ counts'.sent = counts.sent /\ counts'.dropped = counts.dropped
          /\ queue' = queue /\ offered' = offered /\ abandoned' = abandoned
      BY <2>2, <2>5 DEF Flush, Server, Answer, Busy, Error, Failed, client, history
    <3>2. \A g \in Threads : flushes'[g].batch = flushes[g].batch
      <4>1. CASE Flush(f)
        BY <2>1, <4>1 DEF Flush, FlushRecord
      <4>2. CASE Server(f)
        BY <2>1, <4>2 DEF Server, FlushRecord
      <4>3. CASE Busy(f)
        BY <2>1, <4>3 DEF Busy, FlushRecord
      <4>4. CASE Answer(f) \/ Error(f) \/ Failed(f)
        <5>1. PICK stage : flushes' = [flushes EXCEPT ![f].stage = stage]
          BY <4>4 DEF Answer, Error, Failed, To
        <5> QED BY <2>1, <5>1 DEF FlushRecord
      <4> QED BY <2>5, <4>1, <4>2, <4>3, <4>4
    <3> QED BY <3>1, <3>2, IdleConserves
  <2>6. CASE Return(f)
    <3>1. flushes[f].batch = << >>
      BY <2>6 DEF Return, Inv, OneFlush
    <3>2. \A g \in Threads : flushes'[g].batch = flushes[g].batch
      BY <2>1, <2>3, <2>6, <3>1 DEF Return
    <3> QED BY <2>6, <3>2, IdleConserves DEF Return, client, history
  <2>7. CASE Sent(f) \/ Dropped(f)
    <3>1. flushes[f].stage # "resting"
      BY <2>7 DEF Sent, Dropped
    <3>2. /\ flushes'[f].batch = << >>
          /\ \A g \in Threads \ {f} : flushes'[g] = flushes[g]
      <4>1. PICK stage : Done(f, stage)
        BY <2>7 DEF Sent, Dropped
      <4>2. CASE stage = "resting"
        BY <2>1, <2>3, <4>1, <4>2 DEF Done
      <4>3. CASE stage # "resting"
        BY <2>1, <4>1, <4>3 DEF Done, FlushRecord
      <4> QED BY <4>2, <4>3
    <3>3. queue' = queue /\ offered' = offered /\ abandoned' = abandoned
      BY <2>7 DEF Sent, Dropped, history
    <3>4. CASE Sent(f)
      <4>1. /\ counts'.sent = Wrap(counts.sent + Len(flushes[f].batch))
            /\ counts'.dropped = counts.dropped
        BY <2>1, <3>4, RaisedType DEF Sent, Inv
      <4> QED BY <2>1, <3>1, <3>2, <3>3, <4>1, CountedConserves
    <3>5. CASE Dropped(f)
      <4>1. /\ counts'.sent = counts.sent
            /\ counts'.dropped = Wrap(counts.dropped + Len(flushes[f].batch))
        BY <2>1, <3>5, RaisedType DEF Dropped, Inv
      <4> QED BY <2>1, <3>1, <3>2, <3>3, <4>1, CountedConserves
    <3> QED BY <2>7, <3>4, <3>5
  <2>8. CASE Interrupt(f)
    <3>1. flushes[f].stage # "resting"
      BY <2>1, <2>8 DEF Interrupt
    <3>2. /\ flushes'[f].batch = << >>
          /\ \A g \in Threads \ {f} : flushes'[g] = flushes[g]
      BY <2>1, <2>3, <2>8 DEF Interrupt
    <3>3. /\ queue' = queue /\ offered' = offered /\ counts' = counts
          /\ abandoned' = Wrap(abandoned + Len(flushes[f].batch))
      BY <2>8 DEF Interrupt, client
    <3> QED BY <2>1, <3>1, <3>2, <3>3, CountedConserves
  <2> QED BY <1>3, <2>4, <2>5, <2>6, <2>7, <2>8 DEF Work
<1> QED BY <1>1, <1>2, <1>3 DEF Next

LEMMA ConservationInit == Init => Conservation
<1> SUFFICES ASSUME Init PROVE Conservation
  OBVIOUS
<1>1. /\ counts.sent = 0 /\ counts.dropped = 0 /\ abandoned = 0 /\ offered = 0
      /\ queue = << >> /\ Len(queue) = 0
      /\ \A f \in Threads : flushes[f].batch = << >>
  BY RangeOf DEF Init, Resting
<1>2. InFlight = 0
  <2> DEFINE fun == [g \in Threads |-> Len(flushes[g].batch)]
  <2>1. DOMAIN fun = Threads /\ \A g \in Threads : fun[g] = IF g = Threads THEN 0 ELSE 0
    BY <1>1, RangeOf
  <2>2. IsFiniteSet(Threads) /\ 0 \in Nat
    BY SdkAssumption
  <2> HIDE DEF fun
  <2>3. SumFunction(fun) = IF Threads \in Threads THEN 0 ELSE 0
    BY <2>1, <2>2, SumOfOne
  <2> QED BY <2>3 DEF InFlight, fun
<1>3. Wrap(0) = 0
  BY SdkAssumption DEF Wrap
<1>4. 0 + 0 + 0 + 0 + 0 = 0
  OBVIOUS
<1> QED BY <1>1, <1>2, <1>3, <1>4 DEF Conservation

(* No event is lost or counted twice: it is queued, in a batch, counted as *)
(* sent or dropped, or went with an interrupted flush (emit, flush and     *)
(* counters of ReliaMeshClient).                                           *)
THEOREM ConservationCorrect == Spec => []Conservation
BY InvInit, InvNext, ConservationInit, ConservationNext, PTL DEF Spec
=============================================================================
