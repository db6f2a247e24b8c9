------------------------------ MODULE Delivery ------------------------------
(***************************************************************************)
(* The SDK and the service together, for one stream.  Application threads  *)
(* stamp an event (`event`, called by `observe`) before emit takes the     *)
(* lock; SdkClient flushes the queue in batches; process_events accepts a  *)
(* batch as a whole, and refuses it as a whole if an event it has not seen *)
(* is older than the stream's last accepted one.  A request is on its way  *)
(* until the service handles it, even when the client has stopped waiting. *)
(*                                                                         *)
(* Of the engine only deduplication and the order of a stream are kept     *)
(* (module Detection has the rest); no event grows old or is evicted here. *)
(***************************************************************************)
EXTENDS SdkClient, FiniteSetsExt

CONSTANTS
  Writers,     \* application threads
  MaxEvents,   \* bound: events offered
  MaxClock     \* bound: the run ends there

(* An event's number never wraps here.                                     *)
ASSUME DeliveryAssumption == MaxEvents \in Nat /\ MODULUS > MaxEvents /\ MaxClock \in Nat

VARIABLES
  clock,      \* the wall clock
  pending,    \* writer -> the stamp of the event it is about to enqueue, or 0
  stamp,      \* number of an enqueued event -> its timestamp
  wire,       \* requests the service has yet to handle: [batch, attempt]
  accepted,   \* the engine: the events in dedup
  last,       \* the engine: the stream's last_timestamp
  unanswered, \* history: events of requests given up while on their way
  late        \* history: <<refused event, accepted event with a later stamp>>

service   == <<wire, accepted, last, unanswered, late>>
delivered == <<vars, clock, pending, stamp, service>>

DeliveryInit ==
  /\ Init
  /\ clock = 1 /\ pending = [w \in Writers |-> 0] /\ stamp = << >>
  /\ wire = {} /\ accepted = {} /\ last = 0
  /\ unanswered = {} /\ late = {}

Tick ==
  /\ clock < MaxClock /\ clock' = clock + 1
  /\ UNCHANGED <<vars, pending, stamp, service>>

-----------------------------------------------------------------------------
(***************************************************************************)
(* The application.                                                        *)
(***************************************************************************)

(* observe ends its block: event() stamps the event with the time now.     *)
StampEvent(w) ==
  /\ pending[w] = 0
  /\ offered + Cardinality({v \in Writers : pending[v] # 0}) < MaxEvents
  /\ pending' = [pending EXCEPT ![w] = clock]
  /\ UNCHANGED <<vars, clock, stamp, service>>

(* emit.                                                                   *)
EmitStamped(w) ==
  /\ pending[w] # 0
  /\ \/ Enqueue /\ stamp' = Append(stamp, pending[w])
     \/ UNCHANGED stamp /\ \E valid \in BOOLEAN : Refuse(valid)
  /\ pending' = [pending EXCEPT ![w] = 0]
  /\ UNCHANGED <<clock, service>>

-----------------------------------------------------------------------------
(***************************************************************************)
(* The client's requests.                                                  *)
(***************************************************************************)

Request(f) == [batch |-> flushes[f].batch, attempt |-> flushes[f].attempt]

(* A batch is posted when it is taken, and posted again after 429 or 503,  *)
(* which something between client and service may have answered.           *)
Post(f) ==
  /\ TakeBatch(f) \/ Busy(f)
  /\ wire' = wire \cup {Request(f)'}
  /\ UNCHANGED <<clock, pending, stamp, accepted, last, unanswered, late>>

(* A timeout, a lost connection, an answer from something in between, or   *)
(* an interrupted flush leaves the request on its way.                     *)
GiveUp(f) ==
  /\ flushes[f].stage = "sending"
  /\ Error(f) \/ Answer(f) \/ Interrupt(f)
  /\ flushes'[f].stage # "sent"
  /\ unanswered' = IF \E q \in wire : q.batch = flushes[f].batch
                   THEN unanswered \cup Range(flushes[f].batch) ELSE unanswered
  /\ UNCHANGED <<clock, pending, stamp, wire, accepted, last, late>>

(* Acknowledged, or nothing that concerns the service.                     *)
Continue(f) ==
  /\ \/ Flush(f) \/ Return(f) \/ Sent(f) \/ Failed(f) \/ Dropped(f)
     \/ Answer(f) /\ flushes'[f].stage = "sent"
     \/ Interrupt(f) /\ flushes[f].stage # "sending"
  /\ UNCHANGED <<clock, pending, stamp, service>>

-----------------------------------------------------------------------------
(***************************************************************************)
(* The service: process_events on the batch, sorted by its stamps.         *)
(***************************************************************************)

(* Mutant of Unseen: order is checked before deduplication.                *)
AllOf(batch) == Range(batch)

Unseen(batch) == Range(batch) \ accepted

Late(batch) == {e \in Unseen(batch) : stamp[e] < last}

(* The client waiting for this answer, if there still is one, has its      *)
(* batch stored.                                                           *)
Accept(q) ==
  LET waiting == {f \in Threads : flushes[f].stage = "sending" /\ flushes[f].batch = q.batch}
  IN /\ q \in wire /\ Late(q.batch) = {}
     /\ accepted' = accepted \cup Range(q.batch)
     /\ last' = Max({last} \cup {stamp[e] : e \in Range(q.batch)})
     /\ IF waiting = {} THEN UNCHANGED vars ELSE \E f \in waiting : Server(f)
     /\ wire' = wire \ {q}
     /\ UNCHANGED <<clock, pending, stamp, unanswered, late>>

(* 409 late_event.                                                         *)
RefuseLate(q) ==
  /\ q \in wire /\ Late(q.batch) # {}
  /\ late' = late \cup {pair \in Late(q.batch) \X accepted : stamp[pair[1]] < stamp[pair[2]]}
  /\ wire' = wire \ {q}
  /\ UNCHANGED <<vars, clock, pending, stamp, accepted, last, unanswered>>

DeliveryNext ==
  \/ Tick
  \/ \E w \in Writers : StampEvent(w) \/ EmitStamped(w)
  \/ \E f \in Threads : Post(f) \/ GiveUp(f) \/ Continue(f)
  \/ \E q \in wire : Accept(q) \/ RefuseLate(q)

DeliverySpec == DeliveryInit /\ [][DeliveryNext]_delivered

-----------------------------------------------------------------------------
(* An application that shares one client loses events to late_event only   *)
(* where it cannot be helped: a refused event was overtaken by another     *)
(* thread's between its stamp and the queue, or its request was given up   *)
(* while still on its way.  Batching, the flush lock, retries of stored    *)
(* batches and capacity never make an event late.  (A late event has its   *)
(* whole batch refused; the others of the batch are not late themselves.)  *)
LateOnlyIfOvertaken ==
  \A pair \in late : pair[1] \in unanswered \/ pair[2] < pair[1]
=============================================================================
