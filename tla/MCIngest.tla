------------------------------ MODULE MCIngest ------------------------------
(***************************************************************************)
(* Instances of Ingest for TLC.  The clock ticks in units of the accepted  *)
(* clock skew; windows have two or three samples.  The Wilson bounds are   *)
(* replaced by a table with the same shape on so few samples: the lower    *)
(* bound passes one half only when every sample failed, the upper bound    *)
(* falls below one quarter only when none did.                             *)
(***************************************************************************)
EXTENDS Ingest, TLC

MCWilsonLow(failures, count)  == IF count > 0 /\ failures = count THEN 60 ELSE 0
MCWilsonHigh(failures, count) == IF count > 0 /\ failures = 0 THEN 20 ELSE 100

MCDelta == [m \in Metrics |-> 2]

Event(id, ts, x, failed, v) ==
  [id |-> id, ts |-> ts, stream |-> x, failed |-> failed, version |-> v,
   values |-> [m \in Metrics |-> 1]]

(* One stream: an outage at instant 1 and after it, healthy traffic, a     *)
(* second outage; two versions.                                            *)
OneStreamEvents ==
  {Event(1, 1, "a", FALSE, "v1"), Event(2, 1, "a", FALSE, "v1"),
   Event(3, 2, "a", TRUE, "v1"),  Event(4, 2, "a", TRUE, "v2"),
   Event(5, 3, "a", TRUE, "v2"),  Event(6, 3, "a", FALSE, "v2"),
   Event(7, 4, "a", FALSE, "v1"), Event(8, 5, "a", FALSE, "v2")}

(* Three streams where two may live: outages that end and come back.  "v2" *)
(* is one version too many while "v1" is in a window; the last event       *)
(* reuses the ID of the first for another payload.                         *)
ManyStreamEvents ==
  {Event(1, 1, "a", TRUE, "v1"),  Event(2, 2, "a", FALSE, "v1"),
   Event(3, 2, "b", TRUE, "v1"),  Event(4, 2, "a", TRUE, "v1"),
   Event(5, 3, "b", FALSE, "v2"), Event(6, 4, "c", FALSE, "v1"),
   Event(7, 4, "a", TRUE, "v2"),  Event(1, 1, "b", FALSE, "v1")}

(* One stream of successes whose latency rises and falls; the last event   *)
(* carries no measurement.                                                 *)
Measured(id, ts, latency) ==
  [id |-> id, ts |-> ts, stream |-> "a", failed |-> FALSE, version |-> "v1",
   values |-> [m \in Metrics |-> latency]]

LatencyEvents ==
  {Measured(1, 1, 1), Measured(2, 1, 1), Measured(3, 2, 9), Measured(4, 5, 9),
   Measured(5, 5, 1), Measured(6, 5, 1), Measured(7, 3, Unknown)}

(* A client that reuses event ID 1 with a later timestamp.                 *)
RestampedEvents ==
  {Event(1, 1, "a", TRUE, "v1"),  Event(2, 2, "a", FALSE, "v1"),
   Event(3, 3, "a", FALSE, "v1"), Event(1, 4, "a", TRUE, "v1"),
   Event(4, 4, "a", FALSE, "v1"), Event(5, 4, "a", TRUE, "v1")}

SlotSymmetry == Permutations(Slots)
=============================================================================
