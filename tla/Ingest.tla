------------------------------- MODULE Ingest -------------------------------
(***************************************************************************)
(* Event ingestion for one tenant: the handler of POST /v1/events          *)
(* (api.py `ingest`), the SQLite row transaction it runs in (storage.py    *)
(* `transact`, `read_state`, `purge_expired`) and the detection engine the *)
(* transaction calls (module Detection).                                   *)
(*                                                                         *)
(* A request captures `now` when its handler starts and waits for the      *)
(* tenant's row; other requests may commit in between.  BEGIN IMMEDIATE    *)
(* makes the transaction exclusive, so at most one is open; it loads the   *)
(* row (an expired row is {}), prunes it at the captured `now`, takes the  *)
(* events of its batch in (timestamp, event ID) order, and commits all of  *)
(* them or none.  The batch is not chosen in advance: any event that sorts *)
(* at or after the last one taken may come next, which covers every sorted *)
(* batch of up to MaxBatch events, repeats included.                       *)
(***************************************************************************)
EXTENDS Detection

CONSTANTS
  Slots,      \* request threads that may be in the handler at once
  NoSlot,     \* no transaction is open
  Events,     \* the events clients may send, and send again
  QUOTA,      \* settings.daily_events
  DAY,        \* clock ticks of a UTC day
  GRACE,      \* what storage.RETENTION adds to RETENTION (5 minutes)
  MaxWait,    \* bound: clock ticks a request may spend in the handler
  MaxBatch,   \* bound: events of one batch (100 in EventBatch)
  MaxClock    \* bound: last instant of the wall clock

EventRecord == [id : Nat, ts : Nat, stream : Streams, failed : BOOLEAN,
                version : Versions, values : [Metrics -> Int]]

ASSUME IngestAssumption ==
  /\ NoSlot \notin Slots
  /\ Events \subseteq EventRecord
  /\ QUOTA \in Nat /\ DAY \in Nat \ {0} /\ GRACE \in Nat
  /\ MaxWait \in Nat /\ MaxBatch \in Nat /\ MaxClock \in Nat

(* Clients never send an event ID again with another timestamp.  Another   *)
(* payload under the same ID and timestamp is allowed: an ID conflict.     *)
StampedOnce == \A d, e \in Events : d.id = e.id => d.ts = e.ts

VARIABLES
  clock,      \* the wall clock, read by handlers and storage
  request,    \* request[r]: the `now` of the request in slot r, or Idle
  store,      \* the tenant_states row
  txn,        \* the open transaction
  counted,    \* history: events some commit has accepted
  recounted,  \* history: events a second commit has accepted
  charged     \* history: events accepted under each day's quota

vars == <<clock, request, store, txn, counted, recounted, charged>>

Idle == -1

(* state.get("usage", {}) has no day yet.                                  *)
NoDay    == -1
DayOf(t) == t \div DAY

BlankRow(expires) == [state |-> Empty, day |-> NoDay, used |-> 0, expires |-> expires]

(* The state a transaction starts from: an expired row, or none, is {}.    *)
Loaded(row, at) == IF row.expires > at THEN row ELSE BlankRow(row.expires)

NoTxn == [slot |-> NoSlot, began |-> 0, work |-> Empty, fresh |-> {},
          size |-> 0, last |-> <<0, 0>>]

Init ==
  /\ clock = 0
  /\ request = [r \in Slots |-> Idle]
  /\ store = BlankRow(RETENTION + GRACE)
  /\ txn = NoTxn
  /\ counted = {} /\ recounted = {}
  /\ charged = [d \in 0..DayOf(MaxClock) |-> 0]

-----------------------------------------------------------------------------
history == <<counted, recounted, charged>>

(* A request that has spent MaxWait ticks is answered before the next one. *)
Tick ==
  /\ clock < MaxClock
  /\ \A r \in Slots : request[r] # Idle => clock - request[r] < MaxWait
  /\ clock' = clock + 1
  /\ UNCHANGED <<request, store, txn, history>>

(* The handler starts: now = datetime.now(UTC), before the transaction.    *)
Request(r) ==
  /\ request[r] = Idle
  /\ request' = [request EXCEPT ![r] = clock]
  /\ UNCHANGED <<clock, store, txn, history>>

(* BEGIN IMMEDIATE, the storage's own _now(), the row, and _prune.         *)
Begin(r) ==
  /\ request[r] # Idle
  /\ txn.slot = NoSlot
  /\ txn' = [NoTxn EXCEPT !.slot  = r,
                          !.began = clock,
                          !.work  = Prune(Loaded(store, clock).state, request[r])]
  /\ UNCHANGED <<clock, request, store, history>>

(* The next event of the sorted batch may be e.                            *)
Follows(e) ==
  /\ txn.slot # NoSlot
  /\ txn.size < MaxBatch
  /\ txn.last[1] < e.ts \/ (txn.last[1] = e.ts /\ txn.last[2] <= e.id)

Taken(t, e) == [t EXCEPT !.size = @ + 1, !.last = <<e.ts, e.id>>]

(* An identical retained event: metrics["duplicates"] += 1.                *)
Skip(e) ==
  /\ Follows(e)
  /\ Timely(e, request[txn.slot]) /\ Duplicate(txn.work, e)
  /\ txn' = Taken(txn, e)
  /\ UNCHANGED <<clock, request, store, history>>

Absorb(e) ==
  /\ Follows(e)
  /\ Timely(e, request[txn.slot]) /\ Admissible(txn.work, e)
  /\ txn' = [Taken(txn, e) EXCEPT !.work = Accept(@, e), !.fresh = @ \cup {e}]
  /\ UNCHANGED <<clock, request, store, history>>

(* Mutant of Abandon: the rollback does not release the row.               *)
AbandonKeepsLock ==
  /\ request' = [request EXCEPT ![txn.slot] = Idle]
  /\ UNCHANGED <<clock, store, txn, history>>

(* The callback raised, or the process died: nothing was written.          *)
Abandon ==
  /\ request' = [request EXCEPT ![txn.slot] = Idle]
  /\ txn' = NoTxn
  /\ UNCHANGED <<clock, store, history>>

(* DetectionError for one event rejects the whole batch.                   *)
Refuse(e) ==
  /\ Follows(e)
  /\ ~ (/\ Timely(e, request[txn.slot])
        /\ Duplicate(txn.work, e) \/ Admissible(txn.work, e))
  /\ Abandon

(* state_capacity_exceeded, StorageLimit, or a crash before COMMIT; which  *)
(* states are too large in bytes is left open.                             *)
Rollback ==
  /\ txn.slot # NoSlot
  /\ Abandon

Today == DayOf(request[txn.slot])

(* Mutant of UsedToday: the day starts over with every batch.              *)
UsedInBatch == 0

(* usage.get("events", 0) if usage.get("day") == today else 0              *)
UsedToday == LET row == Loaded(store, txn.began)
             IN IF row.day = Today THEN row.used ELSE 0

Accepted == Cardinality(txn.fresh)

OverQuota ==
  /\ txn.slot # NoSlot /\ txn.size > 0
  /\ UsedToday + Accepted > QUOTA
  /\ Abandon

Commit ==
  /\ txn.slot # NoSlot /\ txn.size > 0
  /\ UsedToday + Accepted <= QUOTA
  /\ store' = [state   |-> Finish(txn.work),
               day     |-> Today,
               used    |-> UsedToday + Accepted,
               expires |-> txn.began + RETENTION + GRACE]
  /\ request' = [request EXCEPT ![txn.slot] = Idle]
  /\ txn' = NoTxn
  /\ counted' = counted \cup txn.fresh
  /\ recounted' = recounted \cup (txn.fresh \cap counted)
  /\ charged' = [charged EXCEPT ![Today] = @ + Accepted]
  /\ UNCHANGED clock

(* read_state and purge_expired delete the row once it has expired; the    *)
(* transaction lock keeps them apart from an open transaction.             *)
DropExpired ==
  /\ txn.slot = NoSlot
  /\ store.expires <= clock
  /\ store' = BlankRow(store.expires)
  /\ UNCHANGED <<clock, request, txn, history>>

ReadState    == DropExpired
PurgeExpired == DropExpired

Next ==
  \/ Tick
  \/ \E r \in Slots : Request(r) \/ Begin(r)
  \/ \E e \in Events : Skip(e) \/ Absorb(e) \/ Refuse(e)
  \/ Rollback \/ OverQuota \/ Commit
  \/ ReadState \/ PurgeExpired

Spec == Init /\ [][Next]_vars
-----------------------------------------------------------------------------
(***************************************************************************)
(* Types.                                                                  *)
(***************************************************************************)

SampleRecord == [ts : Nat, failed : BOOLEAN, version : Versions, values : [Metrics -> Int]]

IncidentIds == Streams \X Nat

IncidentRecord == [id : IncidentIds, stream : Streams,
                   status : {"open", "resolved", "expired"}, opened : Nat,
                   resolved : Int, signals : SUBSET Kinds, nth : Nat]

StreamRecord == [baseline : Seq(SampleRecord), current : Seq(SampleRecord),
                 versions : SUBSET Versions, active : IncidentIds \cup {None}, last : Nat]

IsEngine(st) ==
  \E live \in SUBSET Streams :
    st \in [streams : [live -> StreamRecord], dedup : SUBSET Events,
           incidents : SUBSET IncidentRecord, floor : Nat, accepted : Nat]

(* Every variable has its type: the tenant row and the open transaction    *)
(* hold engine states whatever batches, crashes and expiries came before.  *)
TypeOK ==
  /\ clock \in Nat
  /\ request \in [Slots -> Nat \cup {Idle}]
  /\ IsEngine(store.state) /\ IsEngine(txn.work)
  /\ store \in [state : {store.state}, day : Int, used : Nat, expires : Nat]
  /\ txn \in [slot : Slots \cup {NoSlot}, began : Nat, work : {txn.work},
              fresh : SUBSET Events, size : Nat, last : Nat \X Nat]
  /\ txn.slot # NoSlot => request[txn.slot] # Idle
  /\ counted \subseteq Events /\ recounted \subseteq Events

(* The two engine states there are: the committed one and the working copy.*)
Engines == {store.state, txn.work}

-----------------------------------------------------------------------------
(***************************************************************************)
(* The incident list and the streams point at each other.                  *)
(***************************************************************************)

ActiveIsOpen(st) ==
  \A x \in DOMAIN st.streams : st.streams[x].active # None =>
    \E i \in st.incidents : /\ i.id = st.streams[x].active
                            /\ i.stream = x /\ i.status = "open"

OpenIsActive(st) ==
  \A i \in st.incidents : i.status = "open" =>
    i.stream \in DOMAIN st.streams /\ st.streams[i.stream].active = i.id

IdsUnique(st) == \A i, j \in st.incidents : i.id = j.id => i = j

(* A stream's active_incident names exactly one listed incident, which is  *)
(* open, and every open incident is the active one of a live stream: the   *)
(* lookup _incident never raises StopIteration, and no incident is left    *)
(* open that nothing can ever resolve (pruning of streams and incidents,   *)
(* eviction at MAX_INCIDENTS, recovery and expiry all have to agree).      *)
IncidentsLinked ==
  \A st \in Engines : ActiveIsOpen(st) /\ OpenIsActive(st) /\ IdsUnique(st)

(* The event that opened a listed incident is still in dedup or lies at or *)
(* below replay_floor: it cannot be accepted again and open a second       *)
(* incident of the same ID.                                                *)
OnsetsRemembered ==
  \A st \in Engines : \A i \in st.incidents :
    i.opened <= st.floor \/ \E d \in st.dedup : i.id = <<d.stream, d.id>> /\ i.opened = d.ts

(* Comparison signals in the evidence of an open incident still have the   *)
(* full baseline they are compared with (and the known values of a metric):*)
(* _recovered never computes with a missing rate or median, because the    *)
(* baseline is frozen while the incident is open and expiry closes it.     *)
EvidenceHasBaseline ==
  \A st \in Engines : \A i \in st.incidents : i.status = "open" =>
    LET s == st.streams[i.stream]
    IN /\ i.signals \ {"high_failure_rate"} # {} => Len(s.baseline) = WINDOW
       /\ \A m \in i.signals \cap Metrics : Cardinality(KnownAt(s.baseline, m)) >= KNOWN

(* At rest no incident waits with its recovery criteria met: an open one   *)
(* still fires or its window has not recovered.                            *)
NoStuckIncident ==
  \A i \in store.state.incidents : i.status = "open" =>
    LET s == store.state.streams[i.stream]
    IN ~ (Recovered(s, i) /\ Signals(s) = {})

(* A recovered incident is resolved no earlier than it opened; an expired  *)
(* one may be stamped earlier than its onset (the stamp is the instant its *)
(* baseline lapsed and onsets may lie in the future), but by less than the *)
(* accepted clock skew.                                                    *)
ResolutionAfterOnset ==
  \A st \in Engines : \A i \in st.incidents :
    /\ i.status = "resolved" => i.resolved >= i.opened
    /\ i.status = "expired"  => i.resolved + FUTURE > i.opened

-----------------------------------------------------------------------------
(***************************************************************************)
(* The windows.                                                            *)
(***************************************************************************)

InOrder(rows) == \A i, j \in DOMAIN rows : i < j => rows[i].ts <= rows[j].ts

(* The baseline is absent or full, it and the current window follow one    *)
(* another in time and end at last_timestamp, neither exceeds WINDOW, and  *)
(* the version labels kept are at most MAX_VERSIONS and include every      *)
(* label the summary looks up - through sliding, expiry and rebuilding.    *)
WindowsInOrder ==
  \A st \in Engines : \A x \in DOMAIN st.streams :
    LET s    == st.streams[x]
        rows == s.baseline \o s.current
    IN /\ Len(s.baseline) \in {0, WINDOW} /\ Len(s.current) <= WINDOW
       /\ rows # << >> /\ InOrder(rows) /\ rows[Len(rows)].ts = s.last
       /\ Labels(rows) \subseteq s.versions /\ Cardinality(s.versions) <= MAX_VERSIONS

(* A committed state stays within its limits, with incidents evicted only  *)
(* after they closed: open ones are bounded by the streams.                *)
WithinLimits ==
  LET st == store.state
  IN /\ Cardinality(DOMAIN st.streams) <= MAX_STREAMS
     /\ Cardinality(st.incidents) <= MAX_INCIDENTS
     /\ Cardinality(st.dedup) <= MAX_DEDUP
     /\ \A d \in st.dedup : d.ts >= st.floor

(* A reader is told the same whether or not a write pruned the state on    *)
(* the way: what a summary shows at t2 does not depend on a prune at t1.   *)
ReadersAgree ==
  \A t1 \in clock..MaxClock + RETENTION : \A t2 \in t1..MaxClock + RETENTION :
    Summary(Prune(store.state, t1), t2) = Summary(store.state, t2)

-----------------------------------------------------------------------------
(***************************************************************************)
(* Replay, expiry and quota.                                               *)
(***************************************************************************)

(* Nothing of the row is still within the engine's retention: no stream,   *)
(* no event of dedup, no onset; replay_floor bars nothing the cutoff does  *)
(* not bar.                                                                *)
NothingRetained ==
  LET cutoff == clock - RETENTION
  IN /\ \A x \in DOMAIN store.state.streams : store.state.streams[x].last <= cutoff
     /\ \A d \in store.state.dedup : d.ts <= cutoff
     /\ \A i \in store.state.incidents : i.opened <= cutoff
     /\ store.state.floor <= Greater(cutoff, 0)

(* Nobody can still be charged to the row's day: it is over for the next   *)
(* request and for every request that has taken its `now`.                 *)
UsageOver ==
  \A t \in {clock} \cup {request[r] : r \in Slots} : t # Idle => store.day < DayOf(t)

(* When storage treats the row as expired, nothing in it was still within  *)
(* the engine's retention, and the usage that goes with it is of a day no  *)
(* request counts on, however stale its `now`: the five minutes storage    *)
(* adds are what the accepted clock skew needs, and the row outlives its   *)
(* day by more than a request may wait.                                    *)
ExpiryLosesNothing == store.expires <= clock => NothingRetained /\ UsageOver

(* At most one incident per stream is open, so the streams bound them.     *)
OpenIncidentsBounded ==
  Cardinality({i \in store.state.incidents : i.status = "open"}) <= MAX_STREAMS

(* No event is ever accepted by two commits, however often it is sent      *)
(* again: what dedup, replay_floor and the retention cutoff are for.       *)
NoEventCountedTwice == recounted = {}

(* The events accepted under one UTC day never exceed the daily quota.     *)
DailyQuotaHolds == \A d \in DOMAIN charged : charged[d] <= QUOTA

IncidentsKept(st, next) ==
  \A i \in st.incidents :
    /\ \/ \E j \in next.incidents :
            i.id = j.id /\ i.opened = j.opened /\ i.signals \subseteq j.signals
       \/ i.status # "open"
       \/ i.opened <= clock - RETENTION
    /\ i.status # "open" => \A j \in next.incidents : j.id = i.id => j = i

(* No step of a transaction drops an open incident before it is older than *)
(* the retention period: until it closes it keeps its onset and gathers    *)
(* evidence, and only closed ones make room at MAX_INCIDENTS.  A closed    *)
(* incident is never changed or opened again.                              *)
IncidentsPersist ==
  [][txn'.slot # NoSlot =>
       IncidentsKept(IF txn.slot = NoSlot THEN store.state ELSE txn.work, txn'.work)]_txn

(* While a stream's incident stays open its baseline does not move: what   *)
(* recovery is judged against is what degradation was judged against.  A   *)
(* row that had expired when the transaction began does not count: nobody  *)
(* sees it, and a request that waited past its expiry may report the onset *)
(* of its incident anew.                                                   *)
BaselineFrozen ==
  [][LET row == Loaded(store, txn.began).state
     IN \A x \in DOMAIN row.streams \cap DOMAIN store'.state.streams :
          LET s == row.streams[x]
              t == store'.state.streams[x]
          IN s.active # None /\ t.active = s.active => t.baseline = s.baseline]_store
=============================================================================
