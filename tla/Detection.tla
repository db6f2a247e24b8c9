----------------------------- MODULE Detection -----------------------------
(***************************************************************************)
(* The detection engine of src/src/reliamesh/detection.py: pure operators  *)
(* on the JSON state of one tenant.  process_events is _prune, then one    *)
(* step per event of the sorted batch (Admissible / Accept), then Finish.  *)
(*                                                                         *)
(* An engine state is a record                                             *)
(*   streams   - live stream -> [baseline, current, versions, active, last]*)
(*   dedup     - the retained events: an entry [digest, timestamp] under   *)
(*               an event ID is the event itself, so equal digests are     *)
(*               equal events and a conflict is another event of that ID   *)
(*   incidents - incident records; "nth" is the place in the Python list   *)
(*   floor     - replay_floor                                              *)
(*   accepted  - totals["accepted"]                                        *)
(* Sizes and times are constants, so the same operators serve WINDOW = 50  *)
(* and the small instances TLC explores.                                   *)
(***************************************************************************)
EXTENDS Integers, Sequences, FiniteSets

CONSTANTS
  Streams,        \* stream IDs: hashes of deployment, agent, operation, synthetic
  Versions,       \* version IDs: hashes of version_metadata(event)
  Metrics,        \* optional measurements: latency, total tokens, retries
  WINDOW,         \* samples of a full window (50)
  ARMED,          \* samples before high_failure_rate may fire (25)
  KNOWN,          \* known measurements a metric comparison needs (40)
  MAX_STREAMS, MAX_VERSIONS, MAX_DEDUP, MAX_INCIDENTS,
  RETENTION,      \* RETENTION_SECONDS, in clock ticks
  FUTURE,         \* FUTURE_SECONDS, in clock ticks
  MinDelta,       \* metric -> smallest absolute degradation
  RecoverDelta,   \* metric -> largest absolute excess that counts as recovered
  WilsonLow(_, _), WilsonHigh(_, _)  \* 95% bounds of failures of count, in percent

ASSUME SizesAssumption ==
  /\ {WINDOW, ARMED, KNOWN, MAX_STREAMS, MAX_VERSIONS, MAX_DEDUP, MAX_INCIDENTS}
       \subseteq Nat \ {0}
  /\ RETENTION \in Nat /\ FUTURE \in Nat

None       == << >>    \* no active incident
Unresolved == -1       \* resolved_at of an open incident
Unknown    == -1       \* a measurement the event does not carry

Kinds == {"high_failure_rate", "failure_rate_regression"} \cup Metrics

Empty == [streams   |-> [x \in {} |-> 0],
          dedup     |-> {},
          incidents |-> {},
          floor     |-> 0,
          accepted  |-> 0]

(***************************************************************************)
(* Windows.                                                                *)
(***************************************************************************)

LastN(rows, n) == IF Len(rows) <= n THEN rows
                  ELSE SubSeq(rows, Len(rows) - n + 1, Len(rows))

(* [row for row in rows if row[TS] > cutoff].  The rows of a window are in *)
(* time order (invariant WindowsInOrder), so the rows dropped are a prefix.*)
Fresh(rows, cutoff) ==
  LET stale == {i \in DOMAIN rows : rows[i].ts <= cutoff}
  IN  SubSeq(rows, Cardinality(stale) + 1, Len(rows))

Labels(rows) == {rows[i].version : i \in DOMAIN rows}

(* Mutant of TrimVersions: the labels of the current window are forgotten.  *)
TrimToBaseline(s) == [s EXCEPT !.versions = @ \cap Labels(s.baseline)]

TrimVersions(s) ==
  [s EXCEPT !.versions = @ \cap Labels(s.baseline \o s.current)]

(* state["incidents"] is a list: the first of a set is the one appended    *)
(* before every other.                                                     *)
First(incidents) == CHOOSE i \in incidents : \A j \in incidents : i.nth <= j.nth

(* _incident: `next` over the list raises StopIteration when none matches. *)
IncidentOf(incidents, s) == First({i \in incidents : i.id = s.active})

(* Mutant of Resolve: resolved_at is not set.                              *)
ResolveUnstamped(i, status, at) == [i EXCEPT !.status = status]

Resolve(i, status, at) == [i EXCEPT !.status = status, !.resolved = at]

(***************************************************************************)
(* _prune: what `now` has made older than the retention period goes, and a *)
(* baseline that lost a sample is rebuilt.                                 *)
(***************************************************************************)

(* Mutant of Linked: the link outlives the incident.                       *)
StaysLinked(s, kept) == s.active

Linked(s, kept) == IF \E i \in kept : i.id = s.active THEN s.active ELSE None

Shrinks(s, cutoff) == Len(Fresh(s.baseline, cutoff)) < Len(s.baseline)

(* Mutant of Lapses: an incident survives the loss of its baseline.        *)
NeverLapses(s, kept, cutoff) == FALSE

(* An incident whose baseline loses a sample expires with it.              *)
Lapses(s, kept, cutoff) == Linked(s, kept) # None /\ Shrinks(s, cutoff)

PruneStream(s, kept, cutoff) ==
  LET base  == Fresh(s.baseline, cutoff)
      cur   == Fresh(s.current, cutoff)
      rows  == base \o cur
      whole == Len(rows) >= WINDOW
      next  == [s EXCEPT !.active = IF Lapses(s, kept, cutoff) THEN None
                                    ELSE Linked(s, kept)]
  IN TrimVersions(
       IF ~Shrinks(s, cutoff)
       THEN [next EXCEPT !.baseline = base, !.current = cur]
       ELSE [next EXCEPT
              !.baseline = IF whole THEN SubSeq(rows, 1, WINDOW) ELSE << >>,
              !.current  = IF whole THEN SubSeq(rows, WINDOW + 1, Len(rows)) ELSE rows])

Prune(st, now) ==
  LET cutoff == now - RETENTION
      kept   == {i \in st.incidents : i.opened > cutoff}
      live   == {x \in DOMAIN st.streams : st.streams[x].last > cutoff}
      Expirer(i) == {x \in live : /\ Lapses(st.streams[x], kept, cutoff)
                                  /\ IncidentOf(kept, st.streams[x]) = i}
      Aged(i) == IF Expirer(i) = {} THEN i
                 ELSE LET x == CHOOSE x \in Expirer(i) : TRUE
                      IN Resolve(i, "expired", st.streams[x].baseline[1].ts + RETENTION)
  IN [st EXCEPT
       !.streams   = [x \in live |-> PruneStream(st.streams[x], kept, cutoff)],
       !.dedup     = {d \in @ : d.ts > cutoff},
       !.incidents = {Aged(i) : i \in kept}]

(***************************************************************************)
(* _stats, _metric_signal, _signals: what the two windows show.  Rates are *)
(* compared by cross-multiplication and medians are kept doubled, so that  *)
(* everything stays an integer.                                            *)
(***************************************************************************)

Failures(rows) == Cardinality({i \in DOMAIN rows : rows[i].failed})
RateLow(rows)  == WilsonLow(Failures(rows), Len(rows))
RateHigh(rows) == WilsonHigh(Failures(rows), Len(rows))

KnownAt(rows, m) == {i \in DOMAIN rows : rows[i].values[m] # Unknown}

(* The k-th smallest known value: sorted(values)[k - 1].                   *)
Ranked(rows, m, k) ==
  LET known == KnownAt(rows, m)
      v(i)  == rows[i].values[m]
      pick  == CHOOSE i \in known :
                 /\ Cardinality({j \in known : v(j) < v(i)}) < k
                 /\ Cardinality({j \in known : v(j) <= v(i)}) >= k
  IN v(pick)

Median2(rows, m) ==
  LET n == Cardinality(KnownAt(rows, m))
  IN Ranked(rows, m, (n + 1) \div 2) + Ranked(rows, m, n \div 2 + 1)

Greater(a, b) == IF a >= b THEN a ELSE b

(* Four times max(95th percentile, 1.5 * median, median + minimum_delta).  *)
Threshold4(rows, m) ==
  LET n   == Cardinality(KnownAt(rows, m))
      p95 == Ranked(rows, m, (95 * n + 99) \div 100)
      mid == Median2(rows, m)
  IN Greater(4 * p95, Greater(3 * mid, 2 * mid + 4 * MinDelta[m]))

MetricDegraded(baseline, current, m) ==
  LET before == Cardinality(KnownAt(baseline, m))
      after  == Cardinality(KnownAt(current, m))
      limit  == Threshold4(baseline, m)
      Above(rows) == Cardinality({i \in KnownAt(rows, m) : 4 * rows[i].values[m] > limit})
  IN /\ before >= KNOWN /\ after >= KNOWN
     /\ 2 * Median2(current, m) > limit
     /\ WilsonLow(Above(current), after) > WilsonHigh(Above(baseline), before)

Full(s) == Len(s.baseline) >= WINDOW /\ Len(s.current) >= WINDOW

Fires(s, kind) ==
  \/ /\ kind = "high_failure_rate"
     /\ Len(s.current) >= ARMED
     /\ RateLow(s.current) > 50
  \/ /\ kind = "failure_rate_regression"
     /\ Full(s)
     /\ 100 * (Failures(s.current) - Failures(s.baseline)) >= 15 * WINDOW
     /\ RateLow(s.current) > RateHigh(s.baseline)
  \/ /\ kind \in Metrics
     /\ Full(s)
     /\ MetricDegraded(s.baseline, s.current, kind)

Signals(s) == {kind \in Kinds : Fires(s, kind)}

(***************************************************************************)
(* _recovered: every kind of evidence the incident has collected is gone   *)
(* from a full current window.                                             *)
(***************************************************************************)

MetricRecovered(baseline, current, m) ==
  LET mid == Median2(baseline, m)
  IN /\ Cardinality(KnownAt(current, m)) >= KNOWN
     /\ 4 * Median2(current, m) <= Greater(5 * mid, 4 * mid + 8 * RecoverDelta[m])

KindRecovered(s, kind) ==
  CASE kind = "high_failure_rate" -> RateHigh(s.current) < 25
    [] kind = "failure_rate_regression" ->
         100 * (Failures(s.current) - Failures(s.baseline)) <= 5 * WINDOW
    [] OTHER -> MetricRecovered(s.baseline, s.current, kind)

Recovered(s, i) == /\ Len(s.current) >= WINDOW
                   /\ \A kind \in i.signals : KindRecovered(s, kind)

(***************************************************************************)
(* _evaluate, on a stream whose current window has just taken the sample   *)
(* of event e.                                                             *)
(***************************************************************************)

(* Every accepted event raises "accepted", so it orders the incidents as   *)
(* the list they are appended to does.                                     *)
OpenIncident(st, e, signals) ==
  [id |-> <<e.stream, e.id>>, stream |-> e.stream, status |-> "open",
   opened |-> e.ts, resolved |-> Unresolved, signals |-> signals,
   nth |-> st.accepted]

(* Mutant of MakeRoom: the oldest incident goes, open or not.              *)
EvictsOldest(incidents) ==
  IF Cardinality(incidents) >= MAX_INCIDENTS
  THEN incidents \ {First(incidents)} ELSE incidents

(* Keep every open incident; make room with the oldest of the others.      *)
MakeRoom(incidents) ==
  LET closed == {i \in incidents : i.status # "open"}
  IN IF Cardinality(incidents) >= MAX_INCIDENTS /\ closed # {}
     THEN incidents \ {First(closed)} ELSE incidents

(* The stream has no active incident.                                      *)
Detect(st, e, s) ==
  LET found == OpenIncident(st, e, Signals(s))
  IN IF Signals(s) = {}
     THEN [incidents |-> st.incidents, stream |-> s]
     ELSE [incidents |-> MakeRoom(st.incidents) \cup {found},
           stream    |-> [s EXCEPT !.active = found.id]]

(* The stream has one: collect evidence, and let it go once recovered.     *)
Follow(st, e, s) ==
  LET before == IncidentOf(st.incidents, s)
      after  == [before EXCEPT !.signals = @ \cup Signals(s)]
      others == st.incidents \ {before}
  IN IF Recovered(s, after) /\ Signals(s) = {}
     THEN [incidents |-> others \cup {Resolve(after, "resolved", e.ts)},
           stream    |-> [s EXCEPT !.active   = None,
                                   !.baseline = LastN(s.current, WINDOW),
                                   !.current  = << >>]]
     ELSE [incidents |-> others \cup {after}, stream |-> s]

(* Mutant of Evaluate: a quiet window is not evaluated.                    *)
EvaluateFiringOnly(st, e, s) ==
  IF Signals(s) = {} THEN [incidents |-> st.incidents, stream |-> s]
  ELSE IF s.active # None THEN Follow(st, e, s) ELSE Detect(st, e, s)

Evaluate(st, e, s) == IF s.active # None THEN Follow(st, e, s) ELSE Detect(st, e, s)

(***************************************************************************)
(* One event of the sorted batch.                                          *)
(***************************************************************************)

(* Mutant of Timely: timestamps ahead of the clock are accepted.           *)
AnyFuture(e, now) == now - RETENTION < e.ts

Timely(e, now) == now - RETENTION < e.ts /\ e.ts <= now + FUTURE

Duplicate(st, e) == e \in st.dedup

NewStream(e) == [baseline |-> << >>, current |-> << >>, versions |-> {},
                 active |-> None, last |-> e.ts]

StreamFor(st, e) == TrimVersions(IF e.stream \in DOMAIN st.streams
                                 THEN st.streams[e.stream] ELSE NewStream(e))

(* Mutant of Admissible: late events are accepted.                         *)
AdmitsLate(st, e) ==
  LET s == StreamFor(st, e)
  IN /\ \A d \in st.dedup : d.id # e.id
     /\ e.ts > st.floor
     /\ e.stream \in DOMAIN st.streams \/ Cardinality(DOMAIN st.streams) < MAX_STREAMS
     /\ e.version \in s.versions \/ Cardinality(s.versions) < MAX_VERSIONS

(* Neither event_id_conflict, stale_replay, stream_limit_exceeded,         *)
(* late_event nor version_limit_exceeded.                                  *)
Admissible(st, e) ==
  LET s == StreamFor(st, e)
  IN /\ \A d \in st.dedup : d.id # e.id
     /\ e.ts > st.floor
     /\ e.stream \in DOMAIN st.streams \/ Cardinality(DOMAIN st.streams) < MAX_STREAMS
     /\ e.ts >= s.last
     /\ e.version \in s.versions \/ Cardinality(s.versions) < MAX_VERSIONS

Sample(e) == [ts |-> e.ts, failed |-> e.failed, version |-> e.version, values |-> e.values]

(* Mutant of Push: the window slides under an open incident.               *)
PushSlides(s, e) ==
  LET full == Len(s.current) = WINDOW
  IN [s EXCEPT
       !.versions = @ \cup {e.version},
       !.baseline = IF full /\ @ # << >> THEN LastN(Append(@, s.current[1]), WINDOW) ELSE @,
       !.current  = Append(IF full THEN Tail(@) ELSE @, Sample(e)),
       !.last     = e.ts]

(* A full current window gives its oldest sample to the baseline, unless   *)
(* an incident has frozen the baseline or none has formed yet.             *)
Push(s, e) ==
  LET full  == Len(s.current) = WINDOW
      slide == full /\ s.active = None /\ s.baseline # << >>
  IN [s EXCEPT
       !.versions = @ \cup {e.version},
       !.baseline = IF slide THEN LastN(Append(@, s.current[1]), WINDOW) ELSE @,
       !.current  = Append(IF full THEN Tail(@) ELSE @, Sample(e)),
       !.last     = e.ts]

(* The first full window of a stream in order becomes its baseline.        *)
Graduate(s) ==
  IF s.baseline = << >> /\ Len(s.current) = WINDOW /\ s.active = None
  THEN [s EXCEPT !.baseline = s.current, !.current = << >>] ELSE s

Accept(st, e) ==
  LET seen == Evaluate(st, e, Push(StreamFor(st, e), e))
      live == DOMAIN st.streams \cup {e.stream}
  IN [st EXCEPT
       !.streams   = [x \in live |-> IF x = e.stream THEN Graduate(seen.stream)
                                     ELSE st.streams[x]],
       !.dedup     = @ \cup {e},
       !.incidents = seen.incidents,
       !.accepted  = @ + 1]

(***************************************************************************)
(* After the batch: the oldest entries beyond MAX_DEDUP are forgotten and  *)
(* replay_floor rises to the last of them.                                 *)
(***************************************************************************)

Before(d, e) == d.ts < e.ts \/ (d.ts = e.ts /\ d.id < e.id)

(* Mutant of Evicted: off by one.                                          *)
EvictedLate(dedup) ==
  {d \in dedup : Cardinality({e \in dedup : Before(d, e)}) > MAX_DEDUP}

Evicted(dedup) ==
  {d \in dedup : Cardinality({e \in dedup : Before(d, e)}) >= MAX_DEDUP}

(* Mutant of HighestTime: the floor rises to the first entry forgotten.    *)
LowestTime(events) == CHOOSE t \in {e.ts : e \in events} : \A e \in events : e.ts >= t

HighestTime(events) == CHOOSE t \in {e.ts : e \in events} : \A e \in events : e.ts <= t

(* Mutant of Finish: replay_floor stays.                                   *)
FinishKeepsFloor(st) == [st EXCEPT !.dedup = @ \ Evicted(@)]

Finish(st) ==
  LET gone == Evicted(st.dedup)
  IN IF gone = {} THEN st
     ELSE [st EXCEPT !.dedup = @ \ gone,
                     !.floor = Greater(@, HighestTime(gone))]

(***************************************************************************)
(* summarize, _fingerprints: what GET /v1/summary and /v1/incidents show   *)
(* of the stored state, pruned for the occasion.                           *)
(***************************************************************************)

Status(s) == IF s.active # None THEN "degraded"
             ELSE IF Full(s) THEN "observed" ELSE "warming"

(* The failures of the current window, counted by their version labels.    *)
Fingerprints(s) ==
  LET failing == {i \in DOMAIN s.current : s.current[i].failed}
      label(i) == s.current[i].version
  IN [v \in {label(i) : i \in failing} |-> Cardinality({i \in failing : label(i) = v})]

Summary(st, now) ==
  LET view == Prune(st, now)
  IN [streams   |-> [x \in DOMAIN view.streams |->
                       [shown |-> view.streams[x], status |-> Status(view.streams[x]),
                        fingerprints |-> Fingerprints(view.streams[x])]],
      incidents |-> view.incidents, accepted |-> view.accepted]
=============================================================================
