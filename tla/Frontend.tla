------------------------------ MODULE Frontend ------------------------------
(***************************************************************************)
(* How a request enters and leaves the service (api.py): SafetyMiddleware  *)
(* admits it under the process's own limit, checks its headers, buffers    *)
(* its body and answers for an application that fails; `require`           *)
(* authenticates it and admits it under its tenant's limit.                *)
(*                                                                         *)
(* The middleware runs on the event loop, one step at a time.  `require`   *)
(* runs on worker threads (FastAPI's, external): Limiter.allow reads the   *)
(* monotonic clock before it takes its lock, so threads reach the buckets  *)
(* with instants out of order.                                             *)
(***************************************************************************)
EXTENDS Integers, Sequences, FiniteSets, Functions

CONSTANTS
  Slots,          \* requests in progress
  Tenants,        \* tenant IDs
  GLOBAL_LIMIT,   \* global_requests_per_second (10)
  LIMIT, SECONDS, CAPACITY,  \* requests_per_minute (120), 60, 4096
  MAX_BODY,       \* max_body_bytes
  NoTenant,       \* the credential is missing, invalid or lacks the scope
  MaxClock        \* bound: the run ends there

ASSUME FrontendAssumption ==
  /\ NoTenant \notin Tenants /\ IsFiniteSet(Slots)
  /\ {GLOBAL_LIMIT, LIMIT, SECONDS, CAPACITY, MAX_BODY, MaxClock} \subseteq Nat \ {0}

Global == INSTANCE Limiter WITH LIMIT <- GLOBAL_LIMIT, SECONDS <- 1, CAPACITY <- 4096
Tenant == INSTANCE Limiter

VARIABLES
  clock,          \* time.monotonic()
  all,            \* global_limit.buckets
  buckets,        \* tenant_limiter.buckets
  request,        \* slot -> the request in it
  passed,         \* history: tenant -> the instants it was admitted at
  since           \* history: tenant -> the others admitted since it was

vars == <<clock, all, buckets, request, passed, since>>

(* open: the path is exempt from limits and needs no credential.           *)
NoRequest == [stage |-> "none", open |-> FALSE, body |-> 0, tenant |-> NoTenant,
              now |-> 0, starts |-> 0]

Init ==
  /\ clock = 0 /\ all = << >> /\ buckets = << >>
  /\ request = [r \in Slots |-> NoRequest]
  /\ passed = [t \in Tenants |-> << >>]
  /\ since = [t \in Tenants |-> {}]

At(r, stage) == request[r].stage = stage
To(r, stage) == request' = [request EXCEPT ![r].stage = stage]

Stalled == {r \in Slots : At(r, "authenticated")}

(* The admissions from the instant `first` on.                             *)
Since(instants, first) == {i \in DOMAIN instants : first <= instants[i]}

Tick ==
  /\ clock < MaxClock
  /\ clock' = clock + 1
  /\ UNCHANGED <<all, buckets, request, passed, since>>

-----------------------------------------------------------------------------
(***************************************************************************)
(* SafetyMiddleware.                                                       *)
(***************************************************************************)

(* /health, the landing page and the public assets are exempt.  A 429 is   *)
(* the reply of a request that goes no further.                            *)
Arrive(r, open) ==
  /\ At(r, "none")
  /\ IF open \/ Global!Allows(all, "all", clock)
     THEN /\ request' = [request EXCEPT ![r].stage = "admitted", ![r].open = open]
          /\ all' = IF open THEN all ELSE Global!Admit(all, "all", clock)
     ELSE /\ request' = [request EXCEPT ![r].stage = "ended", ![r].starts = 1]
          /\ UNCHANGED all
  /\ UNCHANGED <<clock, buckets, passed, since>>

(* safe_send of http.response.start: noted before it is sent.              *)
Start(r, stage) ==
  request' = [request EXCEPT ![r] =
    [NoRequest EXCEPT !.stage = stage, !.starts = request[r].starts + 1]]

(* reject: 415 for the headers, 413 for the body, 422 for its nesting.     *)
Reject(r) ==
  /\ At(r, "admitted") \/ At(r, "buffered")
  /\ Start(r, "ended")
  /\ UNCHANGED <<clock, all, buckets, passed, since>>

(* Mutant of Fits: the limit is applied to each chunk.                     *)
ChunkFits(r, chunk) == chunk <= MAX_BODY

Fits(r, chunk) == request[r].body + chunk <= MAX_BODY

(* A chunk of the body, and after the last one the application's turn.     *)
Receive(r, chunk, more) ==
  /\ At(r, "admitted")
  /\ IF ~Fits(r, chunk) THEN Start(r, "ended")
     ELSE request' = [request EXCEPT
            ![r].body = IF more THEN @ + chunk ELSE 0,
            ![r].stage = IF more THEN "admitted" ELSE "buffered"]
  /\ UNCHANGED <<clock, all, buckets, passed, since>>

Leave(r) == request' = [request EXCEPT ![r] = NoRequest]

(* http.disconnect while the body is awaited: no response.                 *)
Disconnect(r) ==
  /\ At(r, "admitted") /\ Leave(r)
  /\ UNCHANGED <<clock, all, buckets, passed, since>>

(* Mutant of Fail: whatever has been sent, a 503 follows.                  *)
FailAndReject(r) ==
  /\ At(r, "authenticated") \/ At(r, "working") \/ At(r, "responding")
  /\ Start(r, "ended")
  /\ UNCHANGED <<clock, all, buckets, passed, since>>

(* The application raises: 503, or an abort once a response has started.   *)
Fail(r) ==
  /\ At(r, "authenticated") \/ At(r, "working") \/ At(r, "responding")
  /\ IF request[r].starts = 0 THEN Start(r, "ended") ELSE To(r, "ended")
  /\ UNCHANGED <<clock, all, buckets, passed, since>>

-----------------------------------------------------------------------------
(***************************************************************************)
(* require.                                                                *)
(***************************************************************************)

(* bearer and store.authenticate; with no tenant to charge, 401 or 403 is  *)
(* all the application has left to say.  Limiter.allow: now =              *)
(* time.monotonic(), outside its lock.                                     *)
Authenticate(r, t) ==
  /\ At(r, "buffered") /\ request[r].open => t = NoTenant
  /\ request' = [request EXCEPT ![r] =
       IF t = NoTenant THEN [NoRequest EXCEPT !.stage = "working"]
       ELSE [NoRequest EXCEPT !.stage = "authenticated", !.tenant = t, !.now = clock]]
  /\ UNCHANGED <<clock, all, buckets, passed, since>>

(* A tenant is forgotten when CAPACITY others have been admitted since.    *)
Remembered(t, by) == Cardinality(since[t] \cup ({by} \ {t})) < CAPACITY

(* The rest of allow, under the lock.                                      *)
Allowed(r) ==
  LET t == request[r].tenant
  IN /\ At(r, "authenticated")
     /\ Tenant!Allows(buckets, t, request[r].now)
     /\ buckets' = Tenant!Admit(buckets, t, request[r].now)
     /\ request' = [request EXCEPT ![r] = [NoRequest EXCEPT !.stage = "working"]]
     /\ passed' = [u \in Tenants |->
          IF u = t THEN Append(passed[t], clock)
          ELSE IF Remembered(u, t) THEN passed[u] ELSE << >>]
     /\ since' = [u \in Tenants |-> IF u = t THEN {} ELSE since[u] \cup {t}]
     /\ UNCHANGED <<clock, all>>

(* 429, sent by the application.                                           *)
RateLimited(r) ==
  /\ At(r, "authenticated")
  /\ ~Tenant!Allows(buckets, request[r].tenant, request[r].now)
  /\ Start(r, "responding")
  /\ UNCHANGED <<clock, all, buckets, passed, since>>

(* The handler's response, or an exception handler's.                      *)
Respond(r) ==
  /\ At(r, "working") /\ Start(r, "responding")
  /\ UNCHANGED <<clock, all, buckets, passed, since>>

(* The last of a response has been sent, or it was aborted.                *)
Sent(r) ==
  /\ At(r, "responding") \/ At(r, "ended")
  /\ Leave(r)
  /\ UNCHANGED <<clock, all, buckets, passed, since>>

Next ==
  \/ Tick
  \/ \E r \in Slots, open \in BOOLEAN : Arrive(r, open)
  \/ \E r \in Slots, chunk \in 0..MAX_BODY, more \in BOOLEAN : Receive(r, chunk, more)
  \/ \E r \in Slots, t \in Tenants \cup {NoTenant} : Authenticate(r, t)
  \/ \E r \in Slots :
       \/ Reject(r) \/ Disconnect(r) \/ Fail(r)
       \/ Allowed(r) \/ RateLimited(r) \/ Respond(r) \/ Sent(r)

Spec == Init /\ [][Next]_vars

-----------------------------------------------------------------------------
Stages == {"none", "admitted", "buffered", "authenticated", "working", "responding", "ended"}

(* Requests, buckets and histories have their types; a buffered body is    *)
(* within its limit, however it is cut into chunks.                        *)
TypeOK ==
  /\ clock \in 0..MaxClock
  /\ \A b \in Range(buckets) : b.id \in Tenants /\ b.start \in 0..clock /\ b.count \in 1..LIMIT
  /\ Len(buckets) <= CAPACITY /\ Len(all) <= 1
  /\ request \in [Slots -> [stage : Stages, open : BOOLEAN, tenant : Tenants \cup {NoTenant},
                            body : 0..MAX_BODY, now : 0..clock, starts : 0..2]]

(* Whatever the application or the connection does, and at whatever point  *)
(* it fails, a client is sent at most one response.                        *)
OneResponse == \A r \in Slots : request[r].starts <= 1

(* In any SECONDS a tenant is admitted at most twice its limit - a window's*)
(* worth at the end of one window and at the start of the next - and the   *)
(* calls whose instant was overtaken on the way to the lock; it is not     *)
(* forgotten before CAPACITY other tenants have been admitted.             *)
BudgetHolds ==
  \A t \in Tenants :
    Cardinality(Since(passed[t], clock - SECONDS + 1)) <= 2 * LIMIT + Cardinality(Slots) - 1

(* The tenant's limiter (the allow of `require`) refuses a call only if    *)
(* its own tenant has been admitted LIMIT times within the SECONDS up to   *)
(* the call's instant, however late it reaches the lock and whoever was    *)
(* evicted meanwhile.  Only this refusal is meant: the process's limit in  *)
(* Arrive, which all tenants share, and the daily quota (module Ingest)    *)
(* answer 429 too.                                                         *)
RefusedOverBudget ==
  \A r \in Stalled :
    ~Tenant!Allows(buckets, request[r].tenant, request[r].now)
      => Cardinality(Since(passed[request[r].tenant], request[r].now - SECONDS + 1)) >= LIMIT
=============================================================================
