----------------------------- MODULE SdkClient -----------------------------
(***************************************************************************)
(* The Python SDK's delivery client (sdk/python/src/reliamesh_sdk/         *)
(* client.py): application threads `emit` and `observe` into a bounded     *)
(* in-memory queue, other threads `flush` it to POST /v1/events.  _lock    *)
(* makes every access to queue and counters one step; _flush_lock lets one *)
(* flush run at a time, and the application goes on emitting meanwhile.    *)
(*                                                                         *)
(* An event is the number under which it was enqueued.  Applications emit  *)
(* for ever, so numbers and counters are kept modulo MODULUS; what the     *)
(* properties compare differs by less.                                     *)
(***************************************************************************)
EXTENDS Integers, Sequences, FiniteSets, Functions

CONSTANTS
  Threads,      \* threads that call flush
  CAPACITY,     \* queue_capacity
  BATCH,        \* events of one request (100)
  MAX_RETRIES,  \* max_retries
  MODULUS       \* bound: counters wrap here

ASSUME SdkAssumption ==
  /\ IsFiniteSet(Threads)
  /\ {CAPACITY, BATCH} \subseteq Nat \ {0}
  /\ MAX_RETRIES \in Nat /\ MODULUS \in Nat \ {0, 1}

VARIABLES
  failure_mode,  \* "drop" or "raise"
  queue,         \* _queue
  counts,        \* _counts
  flushes,       \* thread -> its flush
  offered,       \* history: events given to emit and observe
  abandoned      \* history: events of batches whose flush was interrupted

client  == <<failure_mode, queue, counts>>
history == <<offered, abandoned>>
vars    == <<client, flushes, history>>

(* stored: history, the server has committed the batch.                    *)
Resting == [stage |-> "resting", remaining |-> 0, batch |-> << >>,
            attempt |-> 0, stored |-> FALSE]

Init ==
  /\ failure_mode \in {"drop", "raise"}
  /\ queue = << >>
  /\ counts = [enqueued |-> 0, sent |-> 0, dropped |-> 0, failed_batches |-> 0, retries |-> 0]
  /\ flushes = [f \in Threads |-> Resting]
  /\ offered = 0 /\ abandoned = 0

Wrap(n) == n % MODULUS

(* _increment.                                                             *)
Raised(name, n) == [counts EXCEPT ![name] = Wrap(@ + n)]

-----------------------------------------------------------------------------
(***************************************************************************)
(* emit and observe.                                                       *)
(***************************************************************************)

(* Mutant of HasSpace: off by one.                                         *)
SpaceForOneMore == Len(queue) <= CAPACITY

HasSpace == Len(queue) < CAPACITY

(* Mutant of Refuse: a full queue refuses without counting.                *)
RefuseSilently(valid) ==
  /\ valid => ~HasSpace
  /\ counts' = IF valid THEN counts ELSE Raised("dropped", 1)
  /\ offered' = Wrap(offered + 1)
  /\ UNCHANGED <<failure_mode, queue, flushes, abandoned>>

(* Invalid (to event or to validate_event), or the queue is full: counted  *)
(* once, whether the caller sees False, SDKError or its own exception.     *)
Refuse(valid) ==
  /\ valid => ~HasSpace
  /\ counts' = Raised("dropped", 1)
  /\ offered' = Wrap(offered + 1)
  /\ UNCHANGED <<failure_mode, queue, flushes, abandoned>>

Enqueue ==
  /\ HasSpace
  /\ counts' = Raised("enqueued", 1)
  /\ queue' = Append(queue, counts'.enqueued)
  /\ offered' = Wrap(offered + 1)
  /\ UNCHANGED <<failure_mode, flushes, abandoned>>

(* The calling thread's part is the same for both: observe builds the event*)
(* when its block ends, however it ends, and emits it.                     *)
Emit(valid)    == Refuse(valid) \/ (valid /\ Enqueue)
Observe(valid) == Emit(valid)

-----------------------------------------------------------------------------
(***************************************************************************)
(* flush.                                                                  *)
(***************************************************************************)

(* Mutant of MayFlush: flushes are not kept apart.                         *)
AnyMayFlush(f) == flushes[f] = Resting

(* _flush_lock.                                                            *)
MayFlush(f) == \A g \in Threads : flushes[g] = Resting

(* The queue present at entry is what this flush sends.                    *)
Flush(f) ==
  /\ MayFlush(f)
  /\ flushes' = [flushes EXCEPT ![f].stage = "looping", ![f].remaining = Len(queue)]
  /\ UNCHANGED <<client, history>>

(* Mutant of Left: the queue is measured again after every batch.          *)
LeftInQueue(f, n) == Len(queue) - n

Left(f, n) == flushes[f].remaining - n

(* At most BATCH events, and as many as the byte limit leaves room for.    *)
TakeBatch(f) ==
  /\ flushes[f].stage = "looping"
  /\ \E n \in 1..BATCH :
       /\ n <= flushes[f].remaining /\ n <= Len(queue)
       /\ queue' = SubSeq(queue, n + 1, Len(queue))
       /\ flushes' = [flushes EXCEPT ![f] =
            [stage |-> "sending", remaining |-> Left(f, n), batch |-> SubSeq(queue, 1, n),
             attempt |-> 0, stored |-> FALSE]]
  /\ UNCHANGED <<failure_mode, counts, history>>

Return(f) ==
  /\ flushes[f].stage = "looping" /\ flushes[f].remaining = 0
  /\ flushes' = [flushes EXCEPT ![f] = Resting]
  /\ UNCHANGED <<client, history>>

(* The server commits the batch, or finds all of it among its duplicates;  *)
(* the answer may still be lost, late, or replaced by an error.            *)
Server(f) ==
  /\ flushes[f].stage = "sending"
  /\ flushes' = [flushes EXCEPT ![f].stored = TRUE]
  /\ UNCHANGED <<client, history>>

To(f, stage) == flushes' = [flushes EXCEPT ![f].stage = stage]

(* Mutant of Acknowledged: any 200 with numbers will do.                   *)
AnyAnswer(total, batch) == total >= 0

(* accepted + duplicates add up to the batch.                              *)
Acknowledged(total, batch) == total = Len(batch)

(* A 200.  The server answers for the whole batch once it has stored it;   *)
(* what answers without having stored it names another total.              *)
Answer(f) ==
  /\ flushes[f].stage = "sending"
  /\ \E total \in 0..BATCH :
       /\ total = Len(flushes[f].batch) => flushes[f].stored
       /\ To(f, IF Acknowledged(total, flushes[f].batch) THEN "sent" ELSE "failed")
  /\ UNCHANGED <<client, history>>

(* 429 or 503: the identical body again, while the retries last.           *)
Busy(f) ==
  /\ flushes[f].stage = "sending" /\ flushes[f].attempt < MAX_RETRIES
  /\ counts' = Raised("retries", 1)
  /\ flushes' = [flushes EXCEPT ![f].attempt = @ + 1]
  /\ UNCHANGED <<failure_mode, queue, history>>

(* Another status, a transport error, a timeout, an unreadable body, or    *)
(* the last attempt was answered 429 or 503.                               *)
Error(f) ==
  /\ flushes[f].stage = "sending"
  /\ To(f, "failed")
  /\ UNCHANGED <<client, history>>

(* The batch is done with; flush goes on, or DeliveryError ends it.        *)
Done(f, stage) ==
  flushes' = [flushes EXCEPT ![f] =
    IF stage = "resting" THEN Resting
    ELSE [@ EXCEPT !.stage = stage, !.batch = << >>, !.stored = FALSE, !.attempt = 0]]

Sent(f) ==
  /\ flushes[f].stage = "sent"
  /\ counts' = Raised("sent", Len(flushes[f].batch))
  /\ Done(f, "looping")
  /\ UNCHANGED <<failure_mode, queue, history>>

(* Two increments: others may look at the counters in between.             *)
Failed(f) ==
  /\ flushes[f].stage = "failed"
  /\ counts' = Raised("failed_batches", 1)
  /\ To(f, "dropping")
  /\ UNCHANGED <<failure_mode, queue, history>>

Dropped(f) ==
  /\ flushes[f].stage = "dropping"
  /\ counts' = Raised("dropped", Len(flushes[f].batch))
  /\ Done(f, IF failure_mode = "raise" THEN "resting" ELSE "looping")
  /\ UNCHANGED <<failure_mode, queue, history>>

(* An exception flush does not handle (KeyboardInterrupt, MemoryError):    *)
(* both locks are released, and the batch in hand is gone uncounted.       *)
Interrupt(f) ==
  /\ flushes[f] # Resting
  /\ abandoned' = Wrap(abandoned + Len(flushes[f].batch))
  /\ flushes' = [flushes EXCEPT ![f] = Resting]
  /\ UNCHANGED <<client, offered>>

-----------------------------------------------------------------------------
(* What the flushing thread does next; a request always has an outcome, at *)
(* the latest by the socket timeout.                                       *)
Work(f) ==
  \/ TakeBatch(f) \/ Return(f)
  \/ Answer(f) \/ Busy(f) \/ Error(f)
  \/ Sent(f) \/ Failed(f) \/ Dropped(f)

Next ==
  \/ \E valid \in BOOLEAN : Emit(valid) \/ Observe(valid)
  \/ \E f \in Threads : Flush(f) \/ Server(f) \/ Work(f) \/ Interrupt(f)

(* A thread inside flush keeps running; nobody has to call flush, and the  *)
(* application may emit for ever.                                          *)
Fairness == \A f \in Threads : WF_vars(Work(f))

Spec == Init /\ [][Next]_vars /\ Fairness

-----------------------------------------------------------------------------
Numbers == 0..MODULUS - 1

Stages == {"resting", "looping", "sending", "sent", "failed", "dropping"}

(* Queue, counters and flushes have their types: the queue is within its   *)
(* capacity and holds what the running flush still has to take.            *)
TypeOK ==
  /\ failure_mode \in {"drop", "raise"}
  /\ queue \in Seq(Numbers) /\ Len(queue) <= CAPACITY
  /\ counts \in [{"enqueued", "sent", "dropped", "failed_batches", "retries"} -> Numbers]
  /\ flushes \in [Threads -> [stage : Stages, remaining : 0..CAPACITY, batch : Seq(Numbers),
                              attempt : 0..MAX_RETRIES, stored : BOOLEAN]]
  /\ \A f \in Threads : flushes[f].remaining <= Len(queue) /\ Len(flushes[f].batch) <= BATCH
  /\ offered \in Numbers /\ abandoned \in Numbers

InFlight == SumFunction([f \in Threads |-> Len(flushes[f].batch)])

(* Every event an application has offered is queued, in the batch being    *)
(* sent, or counted exactly once as sent or dropped - invalid, overflowing *)
(* and failed ones alike - unless its flush was interrupted.               *)
Conservation ==
  offered = Wrap(counts.sent + counts.dropped + abandoned + Len(queue) + InFlight)

Consecutive(s) == \A i \in 1..Len(s) - 1 : s[i + 1] = Wrap(s[i] + 1)

(* What is being sent precedes what is queued, without a gap, however many *)
(* threads flush: requests reach the server in the order of emission, as   *)
(* its refusal of late events requires.                                    *)
InOrder ==
  \A f \in Threads :
    LET pending == flushes[f].batch \o queue
    IN /\ Consecutive(pending)
       /\ pending # << >> => pending[Len(pending)] = counts.enqueued

(* Only events the server has stored are counted as sent.                  *)
SentWasStored ==
  [][\A f \in Threads : flushes[f].batch # << >> /\ counts'.sent # counts.sent
                          => flushes[f].stored]_vars

(* A flush ends, however much the application emits meanwhile, and with    *)
(* it the wait of the next one.                                            *)
FlushEnds == \A f \in Threads : flushes[f] # Resting ~> flushes[f] = Resting
=============================================================================
