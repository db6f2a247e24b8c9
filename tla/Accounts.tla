------------------------------ MODULE Accounts ------------------------------
(***************************************************************************)
(* Tenants, their API keys and the requests the keys authorise: the        *)
(* handlers of api.py over the Store contract of storage.py, as SQLiteStore*)
(* implements it.  A request authenticates its key in one transaction and  *)
(* does its work in a second one; keys are revoked, tenants deleted and    *)
(* their IDs taken again in between, so the second transaction checks      *)
(* expected_key_hash again.  BEGIN IMMEDIATE makes every operation one     *)
(* atomic step.                                                            *)
(*                                                                         *)
(* What a tenant has stored is abstracted to the keys that wrote it (the   *)
(* writes themselves are module Ingest).                                   *)
(***************************************************************************)
EXTENDS Integers, FiniteSets

CONSTANTS
  Tenants,    \* tenant IDs; a deleted one may be created again
  Keys,       \* key digests; new_key never draws one twice
  KeyId,      \* digest -> its public 12-character prefix
  Slots,      \* requests in progress
  SCOPES,     \* {"ingest", "read", "manage"}
  MAX_KEYS,   \* MAX_ACTIVE_KEYS (16)
  NoKey       \* the operator's calls carry no expected_key_hash

ASSUME AccountsAssumption ==
  /\ NoKey \notin Keys
  /\ KeyId \in [Keys -> {KeyId[k] : k \in Keys}]
  /\ MAX_KEYS \in Nat \ {0}

VARIABLES
  tenants,    \* table tenants
  keys,       \* table api_keys: digest -> [tenant, scopes]
  state,      \* tenant -> the keys whose writes its state holds ({}: no row)
  principal,  \* what `require` returned to the request in each slot, or Idle
  era,        \* history: how often a tenant ID has been created
  lineage     \* history: issued digest -> <<tenant, era>> it was issued in

accounts == <<tenants, keys, state>>
history  == <<era, lineage>>
vars     == <<accounts, principal, history>>

Idle == [tenant |-> "", key |-> NoKey, scopes |-> {}]

KeysOf(t) == {k \in DOMAIN keys : keys[k].tenant = t}

With(f, x, v)   == [y \in DOMAIN f \cup {x} |-> IF y = x THEN v ELSE f[y]]
Without(f, gone) == [y \in DOMAIN f \ gone |-> f[y]]

Init ==
  /\ tenants = {} /\ keys = [k \in {} |-> Idle]
  /\ state = [t \in Tenants |-> {}]
  /\ principal = [r \in Slots |-> Idle]
  /\ era = [t \in Tenants |-> 0] /\ lineage = [k \in {} |-> <<>>]

-----------------------------------------------------------------------------
(***************************************************************************)
(* Who is asking.                                                          *)
(***************************************************************************)

(* authenticate: the key is listed; its scopes never change afterwards.    *)
Authenticate(r, k) ==
  /\ principal[r] = Idle /\ k \in DOMAIN keys
  /\ principal' = [principal EXCEPT ![r] =
       [tenant |-> keys[k].tenant, key |-> k, scopes |-> keys[k].scopes]]
  /\ UNCHANGED <<accounts, history>>

(* An administrator's POST or the CLI: any tenant ID, no key to recheck.   *)
Operator(r, t) ==
  /\ principal[r] = Idle
  /\ principal' = [principal EXCEPT ![r] = [tenant |-> t, key |-> NoKey, scopes |-> {}]]
  /\ UNCHANGED <<accounts, history>>

(* Mutant of Allowed: the scope is not looked at.                          *)
AnyScope(r, scope) == principal[r].scopes # {}

Allowed(r, scope) == scope \in principal[r].scopes

ByOperator(r) == principal[r] # Idle /\ principal[r].key = NoKey

(* Mutant of RequireKey: authentication is trusted until the request ends. *)
TrustKey(r) == principal[r] # Idle

(* _require_tenant and _require_key, inside the transaction.               *)
RequireTenant(r) == principal[r].tenant \in tenants
RequireKey(r)    == principal[r].key # NoKey => principal[r].key \in KeysOf(principal[r].tenant)

Reply(r) == principal' = [principal EXCEPT ![r] = Idle]

(* The operation was refused, rolled back, or cut short by a crash: 401,   *)
(* 403, 404, 409, 429 or 503.                                              *)
Refuse(r) ==
  /\ principal[r] # Idle
  /\ Reply(r) /\ UNCHANGED <<accounts, history>>

-----------------------------------------------------------------------------
(***************************************************************************)
(* The operations.                                                         *)
(***************************************************************************)

Issue(t, k, scopes) ==
  /\ k \notin DOMAIN lineage
  /\ keys' = With(keys, k, [tenant |-> t, scopes |-> scopes])

(* Mutant of CreateTenant: an existing tenant is adopted.                  *)
AdoptTenant(r, k) ==
  LET t == principal[r].tenant
  IN /\ ByOperator(r)
     /\ Issue(t, k, SCOPES)
     /\ tenants' = tenants \cup {t}
     /\ era' = IF t \in tenants THEN era ELSE [era EXCEPT ![t] = @ + 1]
     /\ lineage' = With(lineage, k, <<t, era'[t]>>)
     /\ Reply(r) /\ UNCHANGED state

CreateTenant(r, k) ==
  LET t == principal[r].tenant
  IN /\ ByOperator(r) /\ t \notin tenants
     /\ Issue(t, k, SCOPES)
     /\ tenants' = tenants \cup {t}
     /\ state' = [state EXCEPT ![t] = {}]
     /\ era' = [era EXCEPT ![t] = @ + 1]
     /\ lineage' = With(lineage, k, <<t, era[t] + 1>>)
     /\ Reply(r)

(* Mutant of HasRoom: off by one.                                          *)
RoomForOneMore(active) == Cardinality(active) <= MAX_KEYS

HasRoom(active) == Cardinality(active) < MAX_KEYS

AddKey(r, k, scopes) ==
  LET t == principal[r].tenant
  IN /\ Allowed(r, "manage") /\ scopes # {} /\ scopes \subseteq principal[r].scopes
     /\ RequireTenant(r) /\ RequireKey(r)
     /\ HasRoom(KeysOf(t)) /\ \A other \in KeysOf(t) : KeyId[other] # KeyId[k]
     /\ Issue(t, k, scopes)
     /\ lineage' = With(lineage, k, <<t, era[t]>>)
     /\ Reply(r) /\ UNCHANGED <<tenants, state, era>>

(* DELETE ... WHERE tenant_id=? AND (key_hash=? OR key_id=?)               *)
RevokeKey(r, id) ==
  /\ Allowed(r, "manage") /\ RequireKey(r)
  /\ keys' = Without(keys, {k \in KeysOf(principal[r].tenant) : KeyId[k] = id})
  /\ Reply(r) /\ UNCHANGED <<tenants, state, history>>

(* transact: the state now also holds what this key sent.                  *)
Transact(r) ==
  /\ Allowed(r, "ingest") /\ RequireTenant(r) /\ RequireKey(r)
  /\ state' = [state EXCEPT ![principal[r].tenant] = @ \cup {principal[r].key}]
  /\ Reply(r) /\ UNCHANGED <<tenants, keys, history>>

(* Mutant of Expire: the row goes without leaving an empty state.          *)
ExpireAway(t) ==
  /\ state[t] # {}
  /\ state' = Without(state, {t})
  /\ UNCHANGED <<tenants, keys, principal, history>>

(* read_state deletes a row that has expired (when that is, is module      *)
(* Ingest's concern).                                                      *)
Read(r) ==
  /\ Allowed(r, "read") /\ RequireKey(r)
  /\ state' \in {state, [state EXCEPT ![principal[r].tenant] = {}]}
  /\ Reply(r) /\ UNCHANGED <<tenants, keys, history>>

ListKeys(r) ==
  /\ Allowed(r, "manage") /\ RequireKey(r)
  /\ Reply(r) /\ UNCHANGED <<accounts, history>>

(* An expired row is {} to a transaction, and purge_expired deletes it.    *)
Expire(t) ==
  /\ state[t] # {}
  /\ state' = [state EXCEPT ![t] = {}]
  /\ UNCHANGED <<tenants, keys, principal, history>>

(* Mutant of DeleteTenant: the key is not looked at again.                 *)
DeleteUnchecked(r) ==
  /\ ByOperator(r) \/ Allowed(r, "manage")
  /\ tenants' = tenants \ {principal[r].tenant}
  /\ keys' = Without(keys, KeysOf(principal[r].tenant))
  /\ state' = [state EXCEPT ![principal[r].tenant] = {}]
  /\ Reply(r) /\ UNCHANGED history

(* A manage key, or the CLI; ON DELETE CASCADE takes keys and state along. *)
DeleteTenant(r) ==
  LET t == principal[r].tenant
  IN /\ ByOperator(r) \/ Allowed(r, "manage")
     /\ RequireKey(r)
     /\ tenants' = tenants \ {t}
     /\ keys' = Without(keys, KeysOf(t))
     /\ state' = [state EXCEPT ![t] = {}]
     /\ Reply(r) /\ UNCHANGED history

(* What a request does in slot r.                                          *)
Step(r) ==
  \/ \E k \in Keys : Authenticate(r, k) \/ CreateTenant(r, k) \/ RevokeKey(r, KeyId[k])
  \/ \E k \in Keys, scopes \in SUBSET SCOPES : AddKey(r, k, scopes)
  \/ \E t \in Tenants : Operator(r, t)
  \/ Refuse(r) \/ Transact(r) \/ Read(r) \/ ListKeys(r) \/ DeleteTenant(r)

Next == (\E r \in Slots : Step(r)) \/ (\E t \in Tenants : Expire(t))

Spec == Init /\ [][Next]_vars

-----------------------------------------------------------------------------
KeyRecord == [tenant : Tenants, scopes : SUBSET SCOPES]

Principals == {Idle} \cup
  [tenant : Tenants, key : Keys \cup {NoKey}, scopes : SUBSET SCOPES]

(* The tables hold tenants, keys and writers; a principal is what some key *)
(* or the operator may present.                                            *)
TypeOK ==
  /\ tenants \subseteq Tenants
  /\ \E live \in SUBSET Keys : keys \in [live -> KeyRecord]
  /\ state \in [Tenants -> SUBSET Keys]
  /\ principal \in [Slots -> Principals]
  /\ era \in [Tenants -> Nat]
  /\ \E spent \in SUBSET Keys : lineage \in [spent -> Tenants \X Nat]

(* A tenant's keys, and everything its state holds, were issued in its     *)
(* present incarnation, and a deleted tenant has neither: a request that   *)
(* authenticated before a deletion reaches nothing of a tenant that has    *)
(* taken the ID since, and none of its writes survives or comes back.      *)
OneIncarnation ==
  \A t \in Tenants :
    /\ t \notin tenants => KeysOf(t) = {} /\ state[t] = {}
    /\ \A k \in KeysOf(t) \cup state[t] :
         k \in DOMAIN lineage /\ lineage[k] = <<t, era[t]>>

(* However many requests add keys at once, a tenant has at most MAX_KEYS,  *)
(* and a key_id names at most one of them: revoking by key_id never takes  *)
(* another key along.                                                      *)
KeyLimit ==
  \A t \in Tenants :
    /\ Cardinality(KeysOf(t)) <= MAX_KEYS
    /\ \A j, k \in KeysOf(t) : KeyId[j] = KeyId[k] => j = k

(* This step answers request r, which was for tenant t.                    *)
Acts(r, t) == principal[r] # Idle /\ principal[r].tenant = t /\ principal'[r] = Idle

(* The request's key is active now, in its own tenant and with the scope.  *)
Holds(r, scope) ==
  principal[r].key \in KeysOf(principal[r].tenant) /\ scope \in keys[principal[r].key].scopes

(* What a step adds to tenant t.  The tenant comes into being by the       *)
(* operator, with its first key; another key is issued by an active manage *)
(* key that has all its scopes; data is added by an active ingest key,     *)
(* under its own name.                                                     *)
AddedByRight(t) ==
  /\ t \in tenants' \ tenants => \E r \in Slots : Acts(r, t) /\ ByOperator(r)
  /\ \A k \in KeysOf(t)' \ KeysOf(t) : \E r \in Slots :
       /\ Acts(r, t)
       /\ \/ ByOperator(r) /\ t \notin tenants
          \/ Holds(r, "manage") /\ keys'[k].scopes \subseteq keys[principal[r].key].scopes
  /\ \A w \in state'[t] \ state[t] : \E r \in Slots :
       Acts(r, t) /\ Holds(r, "ingest") /\ principal[r].key = w

(* What a step takes from tenant t.  The tenant is deleted by the operator *)
(* or an active manage key; a key is revoked with its tenant or by an      *)
(* active manage key; the row goes with the tenant, by an active read key  *)
(* whose request finds it expired, or by expiry with nobody asking.        *)
RemovedByRight(t) ==
  /\ t \in tenants \ tenants' => \E r \in Slots :
       Acts(r, t) /\ (ByOperator(r) \/ Holds(r, "manage"))
  /\ \A k \in KeysOf(t) \ KeysOf(t)' : \E r \in Slots :
       Acts(r, t) /\ (Holds(r, "manage") \/ (ByOperator(r) /\ t \notin tenants'))
  /\ ~ (state[t] \subseteq state'[t]) =>
       /\ state'[t] = {}
       /\ \/ UNCHANGED principal
          \/ \E r \in Slots : /\ Acts(r, t)
                               /\ \/ ByOperator(r) /\ t \notin tenants'
                                  \/ Holds(r, "read") \/ Holds(r, "manage")

Authorised == \A t \in Tenants : AddedByRight(t) /\ RemovedByRight(t)

(* Whatever changes in a tenant's tables - created, deleted, issued,       *)
(* revoked, written, dropped - is changed by the operator or by a key of   *)
(* that tenant that is active with the right scope in that very moment,    *)
(* whatever was revoked or deleted since the request authenticated.  What  *)
(* a request only reads changes no table and is not covered.               *)
EffectsAuthorised == [][Authorised]_vars
=============================================================================
