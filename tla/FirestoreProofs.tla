--------------------------- MODULE FirestoreProofs ---------------------------
(***************************************************************************)
(* FirestoreStore implements Accounts, for every number of tenants, keys,  *)
(* requests and attempts: whatever the other requests commit, a callback   *)
(* that is allowed to commit has seen what its documents still hold, so    *)
(* its commit is the one atomic step Accounts takes.                       *)
(***************************************************************************)
EXTENDS FirestoreStore, TLAPS

(* Collections and histories.                                              *)
Collections ==
  /\ tenantDocs \in [DOMAIN tenantDocs -> SUBSET Keys] /\ DOMAIN tenantDocs \subseteq Tenants
  /\ keyDocs \in [DOMAIN keyDocs -> Store!KeyRecord] /\ DOMAIN keyDocs \subseteq DOMAIN lineage
  /\ stateDocs \in [DOMAIN stateDocs -> SUBSET Keys]
  /\ lineage \in [DOMAIN lineage -> Tenants \X Nat] /\ DOMAIN lineage \subseteq Keys
  /\ era \in [Tenants -> Nat]

(* add_key has looked for the key_id it adds.                              *)
UniqueIds ==
  \A t \in DOMAIN tenantDocs : \A j, k \in tenantDocs[t] : KeyId[j] = KeyId[k] => j = k

Txns == [call : CallRecords, seen : Sights, valid : BOOLEAN, attempt : 0..MAX_ATTEMPTS]

(* A call its principal may make (CallsOf, read off the request).          *)
Entitled(p, call) ==
  /\ call.op = "create" => p.key = NoKey /\ call.key \in Keys
  /\ call.op = "add" => /\ "manage" \in p.scopes /\ call.key \in Keys
                        /\ call.scopes \subseteq p.scopes /\ call.scopes # {}
  /\ call.op = "revoke" => "manage" \in p.scopes /\ call.id \in {KeyId[k] : k \in Keys}
  /\ call.op = "transact" => "ingest" \in p.scopes
  /\ call.op = "read" => "read" \in p.scopes
  /\ call.op = "list" => "manage" \in p.scopes
  /\ call.op = "delete" => p.key = NoKey \/ "manage" \in p.scopes

(* An attempt that may commit has seen what is there.                      *)
Sighted(r) ==
  /\ principal[r] # Store!Idle /\ Entitled(principal[r], txn[r].call)
  /\ txn[r].valid => txn[r].seen = Sight(principal[r].tenant, txn[r].call.op)

(* Digests about to be issued are new, and drawn once.                     *)
NewKeys ==
  \A r \in Slots : /\ txn[r].call.key \notin DOMAIN lineage
                   /\ \A q \in Slots \ {r} : txn[r].call.key = txn[q].call.key => txn[r].call.key = NoKey

(* The operator's calls have no scopes.                                    *)
Keyless == \A r \in Slots : principal[r].key = NoKey => principal[r].scopes = {}

Inv ==
  /\ Collections /\ DocumentsAgree /\ UniqueIds
  /\ principal \in [Slots -> Store!Principals] /\ txn \in [Slots -> Txns] /\ Keyless
  /\ \A r \in Slots : txn[r] # NoTxn => Sighted(r)
  /\ NewKeys

-----------------------------------------------------------------------------
(* What Accounts sees of the documents.                                    *)
LEMMA KeysListed ==
  ASSUME Collections, DocumentsAgree, NEW t
  PROVE  /\ t \in DOMAIN tenantDocs => Store!KeysOf(t) = tenantDocs[t]
         /\ t \notin DOMAIN tenantDocs => Store!KeysOf(t) = {}
  BY DEF Collections, DocumentsAgree, Store!KeysOf

(* Only the parts of a tenant's documents that an attempt reads matter to  *)
(* what it sees.                                                           *)
LEMMA SightKept ==
  ASSUME NEW t \in Tenants, NEW op,
         t \in DOMAIN tenantDocs <=> t \in DOMAIN tenantDocs',
         t \in DOMAIN tenantDocs => tenantDocs'[t] = tenantDocs[t],
         "state" \in Reads(op) => StateOf(t)' = StateOf(t)
  PROVE  Sight(t, op)' = Sight(t, op)
  BY DEF Sight, Reads, StateOf

LEMMA SightType ==
  ASSUME Collections, NEW t, NEW op
  PROVE  Sight(t, op) \in Sights
<1>1. StateOf(t) \in SUBSET Keys
  BY DEF Collections, StateOf
<1> QED BY <1>1 DEF Collections, Sight, Sights

LEMMA SightFields ==
  ASSUME NEW t, NEW op
  PROVE  /\ Sight(t, op).exists <=> t \in DOMAIN tenantDocs
         /\ Sight(t, op).hashes = IF t \in DOMAIN tenantDocs THEN tenantDocs[t] ELSE {}
         /\ "state" \in Reads(op) => Sight(t, op).written = StateOf(t)
<1>1. Sight(t, op).exists <=> t \in DOMAIN tenantDocs
  BY Zenon DEF Sight
<1>2. Sight(t, op).hashes = IF t \in DOMAIN tenantDocs THEN tenantDocs[t] ELSE {}
  BY DEF Sight
<1>3. "state" \in Reads(op) => Sight(t, op).written = StateOf(t)
  BY DEF Sight
<1> QED BY <1>1, <1>2, <1>3

(* A principal that is not idle has a tenant.                              *)
LEMMA PrincipalTenant ==
  ASSUME principal \in [Slots -> Store!Principals], NEW r \in Slots, principal[r] # Store!Idle
  PROVE  principal[r] \in [tenant : Tenants, key : Keys \cup {NoKey}, scopes : SUBSET SCOPES]
  BY DEF Store!Principals

LEMMA NoTxnType == NoTxn \in Txns /\ NoTxn.call.key = NoKey
<1>1. NoCall \in CallRecords
  BY DEF NoCall, CallRecords
<1>2. NoSight \in Sights
  BY DEF NoSight, Sights
<1>3. 0 \in 0..MAX_ATTEMPTS
  BY FirestoreAssumption
<1> QED BY <1>1, <1>2, <1>3 DEF NoTxn, Txns, NoCall

(* Nothing is there yet.                                                   *)
LEMMA InvInit == Init => Inv /\ Store!Init
<1> SUFFICES ASSUME Init PROVE Inv /\ Store!Init
  OBVIOUS
<1>1. /\ DOMAIN tenantDocs = {} /\ DOMAIN keyDocs = {} /\ DOMAIN stateDocs = {}
      /\ DOMAIN lineage = {} /\ era \in [Tenants -> Nat]
  BY DEF Init
<1>2. Collections
  <2>1. /\ tenantDocs \in [{} -> SUBSET Keys] /\ keyDocs \in [{} -> Store!KeyRecord]
        /\ stateDocs \in [{} -> SUBSET Keys] /\ lineage \in [{} -> Tenants \X Nat]
    BY DEF Init
  <2> QED BY <1>1, <2>1 DEF Collections
<1>3. DocumentsAgree /\ UniqueIds
  BY <1>1 DEF DocumentsAgree, UniqueIds
<1>4. principal \in [Slots -> Store!Principals] /\ Keyless
  BY DEF Init, Store!Principals, Keyless, Store!Idle
<1>5. txn \in [Slots -> Txns] /\ (\A r \in Slots : txn[r] = NoTxn) /\ NewKeys
  BY <1>1, NoTxnType DEF Init, NewKeys
<1>6. Store!Init
  <2>1. [t \in Tenants |-> StateOf(t)] = [t \in Tenants |-> {}]
    BY <1>1 DEF StateOf
  <2>2. DOMAIN tenantDocs = {}
    BY <1>1
  <2> QED BY <2>1, <2>2 DEF Init, Store!Init
<1> QED BY <1>2, <1>3, <1>4, <1>5, <1>6 DEF Inv

-----------------------------------------------------------------------------
(***************************************************************************)
(* Conflicts.                                                              *)
(***************************************************************************)

(* Only these kinds of t's documents are written.                          *)
OnlyWrites(t, kinds) ==
  /\ \A u \in Tenants : u # t \/ "tenant" \notin kinds =>
       /\ u \in DOMAIN tenantDocs <=> u \in DOMAIN tenantDocs'
       /\ u \in DOMAIN tenantDocs => tenantDocs'[u] = tenantDocs[u]
  /\ \A u \in Tenants : u # t \/ "state" \notin kinds => StateOf(u)' = StateOf(u)

(* An attempt that is not spoilt still sees what is there.                 *)
LEMMA Unspoilt ==
  ASSUME Inv, NEW t, NEW kinds, OnlyWrites(t, kinds), NEW q \in Slots, txn[q] # NoTxn,
         principal'[q] = principal[q],
         txn'[q] = IF Spoils(t, kinds, q) THEN [txn[q] EXCEPT !.valid = FALSE] ELSE txn[q]
  PROVE  Sighted(q)' /\ txn'[q] \in Txns /\ txn'[q].call = txn[q].call
<1>1. txn[q] \in Txns /\ Sighted(q)
  BY DEF Inv
<1>2. txn'[q] \in Txns /\ txn'[q].call = txn[q].call /\ txn'[q].seen = txn[q].seen
  BY <1>1 DEF Txns
<1>3. CASE Spoils(t, kinds, q)
  <2>1. txn'[q].valid = FALSE
    BY <1>1, <1>3 DEF Txns
  <2> QED BY <1>1, <1>2, <2>1 DEF Sighted
<1>4. CASE ~Spoils(t, kinds, q)
  <2> PICK u \in Tenants : u = principal[q].tenant
    BY <1>1, PrincipalTenant DEF Inv, Sighted
  <2> PICK op : op = txn[q].call.op
    OBVIOUS
  <2>1. u # t \/ (Reads(op) \cap kinds = {})
    BY <1>4 DEF Spoils
  <2>2. "tenant" \in Reads(op)
    BY DEF Reads
  <2>3. u # t \/ "tenant" \notin kinds
    BY <2>1, <2>2
  <2>4. "state" \in Reads(op) => u # t \/ "state" \notin kinds
    BY <2>1
  <2>5. Sight(u, op)' = Sight(u, op)
    BY <2>3, <2>4, SightKept DEF OnlyWrites
  <2>6. txn'[q] = txn[q] /\ txn'[q].call.op = op /\ principal'[q].tenant = u
    BY <1>4
  <2>7. txn'[q].valid => txn'[q].seen = Sight(u, op)'
    BY <1>1, <2>5, <2>6 DEF Sighted
  <2> QED BY <1>1, <1>2, <2>6, <2>7 DEF Sighted
<1> QED BY <1>2, <1>3, <1>4

(* A call ends in slot r.                                                  *)
LEMMA AfterReply ==
  ASSUME Inv, NEW r \in Slots, Store!Reply(r)
  PROVE  /\ principal' \in [Slots -> Store!Principals] /\ Keyless'
         /\ \A q \in Slots \ {r} : principal'[q] = principal[q]
<1>1. /\ principal' \in [Slots -> Store!Principals] /\ principal'[r] = Store!Idle
      /\ \A q \in Slots \ {r} : principal'[q] = principal[q]
  BY DEF Inv, Store!Reply, Store!Principals
<1>2. Store!Idle.scopes = {}
  BY DEF Store!Idle
<1>3. Keyless'
  BY <1>1, <1>2 DEF Inv, Keyless
<1> QED BY <1>1, <1>3

(* The other calls after a commit.                                         *)
LEMMA AfterDone ==
  ASSUME Inv, NEW r \in Slots, NEW kinds, Done(r, kinds), OnlyWrites(principal[r].tenant, kinds),
         DOMAIN lineage' \subseteq DOMAIN lineage \cup {txn[r].call.key}, NoKey \notin DOMAIN lineage'
  PROVE  /\ principal' \in [Slots -> Store!Principals] /\ txn' \in [Slots -> Txns] /\ Keyless'
         /\ \A q \in Slots : txn'[q] # NoTxn => Sighted(q)'
         /\ NewKeys'
<1>1. /\ principal' \in [Slots -> Store!Principals] /\ Keyless'
      /\ \A q \in Slots \ {r} : principal'[q] = principal[q]
  BY AfterReply DEF Done
<1>2. /\ DOMAIN txn' = Slots /\ txn'[r] = NoTxn
      /\ \A q \in Slots \ {r} : txn[q] = NoTxn => txn'[q] = NoTxn
      /\ \A q \in Slots \ {r} : txn[q] # NoTxn =>
           txn'[q] = IF Spoils(principal[r].tenant, kinds, q)
                     THEN [txn[q] EXCEPT !.valid = FALSE] ELSE txn[q]
      /\ txn' = [q \in Slots |-> txn'[q]]
  BY DEF Done
<1>3. ASSUME NEW q \in Slots \ {r}, txn[q] # NoTxn
      PROVE  Sighted(q)' /\ txn'[q] \in Txns /\ txn'[q].call = txn[q].call
  BY <1>1, <1>2, <1>3, Unspoilt
<1>4. \A q \in Slots : txn'[q] \in Txns /\ txn'[q].call.key \in {NoKey, txn[q].call.key}
  BY <1>2, <1>3, NoTxnType
<1>5. NewKeys'
  <2> SUFFICES ASSUME NEW q \in Slots
               PROVE  /\ txn'[q].call.key \notin DOMAIN lineage'
                      /\ \A p \in Slots \ {q} :
                           txn'[q].call.key = txn'[p].call.key => txn'[q].call.key = NoKey
    BY DEF NewKeys
  <2>1. CASE q = r
    BY <1>2, <2>1, NoTxnType
  <2>2. CASE q # r
    BY <1>4, <2>2 DEF Inv, NewKeys
  <2> QED BY <2>1, <2>2
<1>6. \A q \in Slots : txn'[q] # NoTxn => Sighted(q)'
  BY <1>2, <1>3
<1>7. txn' \in [Slots -> Txns]
  BY <1>2, <1>4
<1> QED BY <1>1, <1>5, <1>6, <1>7

(* A callback that commits.                                                *)
LEMMA Committing ==
  ASSUME Inv, NEW r \in Slots, NEW op, op # "none", Commits(r, op)
  PROVE  /\ principal[r] # Store!Idle
         /\ principal[r].tenant \in Tenants
         /\ principal[r] \in [tenant : Tenants, key : Keys \cup {NoKey}, scopes : SUBSET SCOPES]
         /\ Entitled(principal[r], txn[r].call)
         /\ txn[r].seen = Sight(principal[r].tenant, op)
         /\ txn[r].call.op = op
<1>1. txn[r] # NoTxn
  BY DEF Commits, NoTxn, NoCall
<1>2. Sighted(r)
  BY <1>1 DEF Inv
<1>3. principal[r] \in [tenant : Tenants, key : Keys \cup {NoKey}, scopes : SUBSET SCOPES]
  BY <1>2, PrincipalTenant DEF Inv, Sighted
<1> QED BY <1>2, <1>3 DEF Sighted, Commits

-----------------------------------------------------------------------------
(***************************************************************************)
(* The operations.                                                         *)
(***************************************************************************)

(* A tenant's state document is written, or deleted.                       *)
LEMMA StateWritten ==
  ASSUME NEW t \in Tenants, NEW x, stateDocs' = Store!With(stateDocs, t, x)
  PROVE  /\ StateOf(t)' = x /\ \A u \in Tenants \ {t} : StateOf(u)' = StateOf(u)
         /\ [u \in Tenants |-> StateOf(u)]' = [[u \in Tenants |-> StateOf(u)] EXCEPT ![t] = x]
<1>1. StateOf(t)' = x /\ \A u \in Tenants \ {t} : StateOf(u)' = StateOf(u)
  BY DEF StateOf, Store!With
<1> QED BY <1>1

LEMMA StateDeleted ==
  ASSUME NEW t \in Tenants, stateDocs' = Store!Without(stateDocs, {t})
  PROVE  /\ StateOf(t)' = {} /\ \A u \in Tenants \ {t} : StateOf(u)' = StateOf(u)
         /\ [u \in Tenants |-> StateOf(u)]' = [[u \in Tenants |-> StateOf(u)] EXCEPT ![t] = {}]
<1>1. StateOf(t)' = {} /\ \A u \in Tenants \ {t} : StateOf(u)' = StateOf(u)
  BY DEF StateOf, Store!Without
<1> QED BY <1>1

LEMMA StateStays ==
  ASSUME stateDocs' = stateDocs
  PROVE  /\ \A u \in Tenants : StateOf(u)' = StateOf(u)
         /\ [u \in Tenants |-> StateOf(u)]' = [u \in Tenants |-> StateOf(u)]
  BY DEF StateOf

(* A callback that found its credential listed: it still is.               *)
LEMMA Credentials ==
  ASSUME Inv, NEW r \in Slots, NEW op \in {"add", "revoke", "transact", "read", "list", "delete"},
         Commits(r, op)
  PROVE  /\ op # "delete" => principal[r].tenant \in DOMAIN tenantDocs
         /\ Store!RequireKey(r)
         /\ txn[r].seen.exists <=> principal[r].tenant \in DOMAIN tenantDocs
         /\ txn[r].seen.hashes = Store!KeysOf(principal[r].tenant)
         /\ principal[r].tenant \in DOMAIN tenantDocs =>
              txn[r].seen.hashes = tenantDocs[principal[r].tenant]
<1>1. /\ principal[r].tenant \in Tenants /\ Entitled(principal[r], txn[r].call)
      /\ txn[r].seen = Sight(principal[r].tenant, op) /\ txn[r].call.op = op
  BY Committing
<1>2. /\ (Metadata(r) \/ principal[r].key = NoKey) /\ RequireKey(r)
      /\ op = "add" => Metadata(r)
  BY <1>1 DEF Commits, Passes
<1> PICK t \in Tenants : t = principal[r].tenant
  BY <1>1
<1>3. /\ txn[r].seen.exists <=> t \in DOMAIN tenantDocs
      /\ t \in DOMAIN tenantDocs => txn[r].seen.hashes = tenantDocs[t]
      /\ t \notin DOMAIN tenantDocs => txn[r].seen.hashes = {}
  <2>1. txn[r].seen.exists <=> t \in DOMAIN tenantDocs
    <3>1. txn[r].seen = Sight(t, op)
      BY <1>1
    <3>2. Sight(t, op).exists <=> t \in DOMAIN tenantDocs
      BY SightFields
    <3> QED BY <3>1, <3>2, Zenon
  <2>2. txn[r].seen.hashes = IF t \in DOMAIN tenantDocs THEN tenantDocs[t] ELSE {}
    BY <1>1, SightFields
  <2> QED BY <2>1, <2>2
<1>4. txn[r].seen.hashes = Store!KeysOf(t)
  BY <1>3, KeysListed DEF Inv
<1>5. op # "delete" => Metadata(r)
  <2>1. op \in {"revoke", "transact", "read", "list"} => principal[r].scopes # {}
    BY <1>1 DEF Entitled
  <2> QED BY <1>2, <2>1 DEF Inv, Keyless
<1>6. Store!RequireKey(r)
  BY <1>2, <1>4 DEF RequireKey, Store!RequireKey
<1> QED BY <1>3, <1>4, <1>5, <1>6 DEF Metadata

(* create_tenant.                                                          *)
LEMMA CreateTenantStep ==
  ASSUME Inv, NEW r \in Slots, CreateTenant(r)
  PROVE  Inv' /\ Store!Step(r)
<1>0. /\ principal[r] # Store!Idle /\ principal[r].tenant \in Tenants /\ principal[r].key = NoKey
      /\ txn[r].call.key \in Keys /\ principal[r].tenant \notin DOMAIN tenantDocs
  <2>1. Commits(r, "create") /\ "create" # "none"
    BY DEF CreateTenant
  <2>2. Passes(r) /\ txn[r].call.op = "create"
    BY <2>1 DEF Commits
  <2>3. ~txn[r].seen.exists
    BY <2>2 DEF Passes, Metadata
  <2>4. /\ principal[r] # Store!Idle /\ principal[r].tenant \in Tenants
        /\ Entitled(principal[r], txn[r].call)
        /\ txn[r].seen = Sight(principal[r].tenant, "create")
    BY <2>1, Committing
  <2>5. principal[r].tenant \notin DOMAIN tenantDocs
    BY <2>3, <2>4, SightFields, Zenon
  <2> QED BY <2>2, <2>4, <2>5 DEF Entitled
<1> PICK t \in Tenants, k \in Keys : t = principal[r].tenant /\ k = txn[r].call.key
  BY <1>0
<1> PICK n \in Nat : n = era[t] + 1
  BY DEF Inv, Collections
<1>1. /\ tenantDocs' = Store!With(tenantDocs, t, {k})
      /\ keyDocs' = Store!With(keyDocs, k, [tenant |-> t, scopes |-> SCOPES])
      /\ stateDocs' = Store!With(stateDocs, t, {})
      /\ era' = [era EXCEPT ![t] = n] /\ lineage' = Store!With(lineage, k, <<t, n>>)
      /\ Done(r, {"tenant", "state"})
  BY DEF CreateTenant
<1>2. k \notin DOMAIN lineage /\ k \notin DOMAIN keyDocs /\ k # NoKey /\ t \notin DOMAIN tenantDocs
  BY <1>0, FirestoreAssumption DEF Inv, NewKeys, Collections
<1>3. /\ DOMAIN tenantDocs' = DOMAIN tenantDocs \cup {t} /\ tenantDocs'[t] = {k}
      /\ \A u \in DOMAIN tenantDocs : tenantDocs'[u] = tenantDocs[u]
  BY <1>1, <1>2 DEF Store!With
<1>4. /\ DOMAIN keyDocs' = DOMAIN keyDocs \cup {k}
      /\ keyDocs'[k] = [tenant |-> t, scopes |-> SCOPES]
      /\ \A j \in DOMAIN keyDocs : keyDocs'[j] = keyDocs[j]
  BY <1>1, <1>2 DEF Store!With
<1>5. /\ StateOf(t)' = {} /\ \A u \in Tenants \ {t} : StateOf(u)' = StateOf(u)
      /\ [u \in Tenants |-> StateOf(u)]' = [[u \in Tenants |-> StateOf(u)] EXCEPT ![t] = {}]
  BY <1>1, StateWritten
<1>6. DOMAIN lineage' = DOMAIN lineage \cup {k}
  BY <1>1 DEF Store!With
<1>7. Collections'
  <2>1. tenantDocs' \in [DOMAIN tenantDocs' -> SUBSET Keys] /\ DOMAIN tenantDocs' \subseteq Tenants
    BY <1>1 DEF Inv, Collections, Store!With
  <2>2. [tenant |-> t, scopes |-> SCOPES] \in Store!KeyRecord
    BY DEF Store!KeyRecord
  <2>3. keyDocs' \in [DOMAIN keyDocs' -> Store!KeyRecord]
    BY <1>1, <2>2 DEF Inv, Collections, Store!With
  <2>4. DOMAIN keyDocs' \subseteq DOMAIN lineage'
    BY <1>4, <1>6 DEF Inv, Collections
  <2>5. stateDocs' \in [DOMAIN stateDocs' -> SUBSET Keys]
    BY <1>1 DEF Inv, Collections, Store!With
  <2>6. <<t, n>> \in Tenants \X Nat
    OBVIOUS
  <2>7. lineage' \in [DOMAIN lineage' -> Tenants \X Nat] /\ DOMAIN lineage' \subseteq Keys
    BY <1>1, <2>6 DEF Inv, Collections, Store!With
  <2>8. era' \in [Tenants -> Nat]
    BY <1>1 DEF Inv, Collections
  <2> QED BY <2>1, <2>3, <2>4, <2>5, <2>7, <2>8 DEF Collections
<1>8. DocumentsAgree'
  <2>1. DOMAIN stateDocs' \subseteq DOMAIN tenantDocs'
    BY <1>1, <1>3 DEF Inv, DocumentsAgree, Store!With
  <2>2. ASSUME NEW u \in DOMAIN tenantDocs', NEW j \in tenantDocs'[u]
        PROVE  j \in DOMAIN keyDocs' /\ keyDocs'[j].tenant = u
    BY <1>3, <1>4, <2>2 DEF Inv, DocumentsAgree
  <2>3. ASSUME NEW j \in DOMAIN keyDocs'
        PROVE  keyDocs'[j].tenant \in DOMAIN tenantDocs' /\ j \in tenantDocs'[keyDocs'[j].tenant]
    BY <1>3, <1>4 DEF Inv, DocumentsAgree
  <2> QED BY <2>1, <2>2, <2>3 DEF DocumentsAgree
<1>9. UniqueIds'
  BY <1>3 DEF Inv, UniqueIds
<1>10. OnlyWrites(t, {"tenant", "state"})
  BY <1>3, <1>5 DEF OnlyWrites
<1>11. NoKey \notin DOMAIN lineage'
  BY <1>7, FirestoreAssumption DEF Collections
<1>12. Inv'
  BY <1>1, <1>6, <1>7, <1>8, <1>9, <1>10, <1>11, AfterDone DEF Inv
<1>13. Store!CreateTenant(r, k)
  <2>1. Store!ByOperator(r) /\ Store!Reply(r)
    BY <1>0, <1>1 DEF Store!ByOperator, Done
  <2>2. Store!Issue(t, k, SCOPES)
    BY <1>1, <1>2 DEF Store!Issue
  <2>3. lineage' = Store!With(lineage, k, <<t, era[t] + 1>>) /\ era' = [era EXCEPT ![t] = era[t] + 1]
    BY <1>1
  <2> QED BY <1>2, <1>3, <1>5, <2>1, <2>2, <2>3 DEF Store!CreateTenant
<1> QED BY <1>12, <1>13 DEF Store!Step

(* add_key.                                                                *)
LEMMA AddKeyStep ==
  ASSUME Inv, NEW r \in Slots, AddKey(r)
  PROVE  Inv' /\ Store!Step(r)
<1>0. Commits(r, "add") /\ "add" # "none"
  BY DEF AddKey
<1>1. /\ principal[r].tenant \in Tenants /\ Entitled(principal[r], txn[r].call)
      /\ txn[r].call.op = "add" /\ principal[r].scopes \in SUBSET SCOPES
  BY <1>0, Committing
<1>2. /\ principal[r].tenant \in DOMAIN tenantDocs /\ Store!RequireKey(r)
      /\ txn[r].seen.hashes = Store!KeysOf(principal[r].tenant)
      /\ txn[r].seen.hashes = tenantDocs[principal[r].tenant]
  BY <1>0, Credentials
<1>3. txn[r].call.key \in Keys /\ txn[r].call.scopes \in SUBSET SCOPES
  BY <1>1 DEF Entitled
<1> PICK t \in Tenants, k \in Keys, scopes \in SUBSET SCOPES :
      t = principal[r].tenant /\ k = txn[r].call.key /\ scopes = txn[r].call.scopes
  BY <1>1, <1>3
<1> PICK n \in Nat : n = era[t]
  BY DEF Inv, Collections
<1>4. /\ tenantDocs' = Store!With(tenantDocs, t, tenantDocs[t] \cup {k})
      /\ keyDocs' = Store!With(keyDocs, k, [tenant |-> t, scopes |-> scopes])
      /\ lineage' = Store!With(lineage, k, <<t, n>>)
      /\ Done(r, {"tenant"}) /\ stateDocs' = stateDocs /\ era' = era
  BY <1>2 DEF AddKey
<1>5. k \notin DOMAIN lineage /\ k \notin DOMAIN keyDocs /\ k # NoKey /\ t \in DOMAIN tenantDocs
  BY <1>2, FirestoreAssumption DEF Inv, NewKeys, Collections
<1>6. /\ Store!HasRoom(tenantDocs[t])
      /\ \A j \in tenantDocs[t] : KeyId[j] # KeyId[k]
  BY <1>0, <1>1, <1>2 DEF Commits, Passes, SameId
<1>7. /\ DOMAIN tenantDocs' = DOMAIN tenantDocs /\ tenantDocs'[t] = tenantDocs[t] \cup {k}
      /\ \A u \in DOMAIN tenantDocs \ {t} : tenantDocs'[u] = tenantDocs[u]
  BY <1>4, <1>5 DEF Store!With
<1>8. /\ DOMAIN keyDocs' = DOMAIN keyDocs \cup {k}
      /\ keyDocs'[k] = [tenant |-> t, scopes |-> scopes]
      /\ \A j \in DOMAIN keyDocs : keyDocs'[j] = keyDocs[j]
  BY <1>4, <1>5 DEF Store!With
<1>9. DOMAIN lineage' = DOMAIN lineage \cup {k}
  BY <1>4 DEF Store!With
<1>10. Collections'
  <2>1. tenantDocs' \in [DOMAIN tenantDocs' -> SUBSET Keys] /\ DOMAIN tenantDocs' \subseteq Tenants
    BY <1>4, <1>5 DEF Inv, Collections, Store!With
  <2>2. [tenant |-> t, scopes |-> scopes] \in Store!KeyRecord
    BY DEF Store!KeyRecord
  <2>3. keyDocs' \in [DOMAIN keyDocs' -> Store!KeyRecord]
    BY <1>4, <2>2 DEF Inv, Collections, Store!With
  <2>4. DOMAIN keyDocs' \subseteq DOMAIN lineage'
    BY <1>8, <1>9 DEF Inv, Collections
  <2>5. <<t, n>> \in Tenants \X Nat
    OBVIOUS
  <2>6. lineage' \in [DOMAIN lineage' -> Tenants \X Nat] /\ DOMAIN lineage' \subseteq Keys
    BY <1>4, <2>5 DEF Inv, Collections, Store!With
  <2>7. stateDocs' \in [DOMAIN stateDocs' -> SUBSET Keys] /\ era' \in [Tenants -> Nat]
    BY <1>4 DEF Inv, Collections
  <2> QED BY <2>1, <2>3, <2>4, <2>6, <2>7 DEF Collections
<1>11. DocumentsAgree'
  <2>1. DOMAIN stateDocs' \subseteq DOMAIN tenantDocs'
    BY <1>4, <1>7 DEF Inv, DocumentsAgree
  <2>2. ASSUME NEW u \in DOMAIN tenantDocs', NEW j \in tenantDocs'[u]
        PROVE  j \in DOMAIN keyDocs' /\ keyDocs'[j].tenant = u
    BY <1>7, <1>8, <2>2 DEF Inv, DocumentsAgree
  <2>3. ASSUME NEW j \in DOMAIN keyDocs'
        PROVE  keyDocs'[j].tenant \in DOMAIN tenantDocs' /\ j \in tenantDocs'[keyDocs'[j].tenant]
    BY <1>5, <1>7, <1>8 DEF Inv, DocumentsAgree
  <2> QED BY <2>1, <2>2, <2>3 DEF DocumentsAgree
<1>12. UniqueIds'
  BY <1>6, <1>7 DEF Inv, UniqueIds
<1>13. OnlyWrites(t, {"tenant"})
  BY <1>4, <1>7, StateStays DEF OnlyWrites
<1>14. NoKey \notin DOMAIN lineage'
  BY <1>10, FirestoreAssumption DEF Collections
<1>15. Inv'
  BY <1>4, <1>9, <1>10, <1>11, <1>12, <1>13, <1>14, AfterDone DEF Inv
<1>16. Store!AddKey(r, k, scopes)
  <2>1. Store!Allowed(r, "manage") /\ scopes # {} /\ scopes \subseteq principal[r].scopes
    BY <1>1 DEF Entitled, Store!Allowed
  <2>2. Store!RequireTenant(r) /\ Store!RequireKey(r) /\ Store!Reply(r)
    BY <1>2, <1>4 DEF Store!RequireTenant, Done
  <2>3. Store!HasRoom(Store!KeysOf(t)) /\ \A j \in Store!KeysOf(t) : KeyId[j] # KeyId[k]
    <3>1. Store!KeysOf(t) = tenantDocs[t]
      BY <1>2
    <3>2. Store!HasRoom(Store!KeysOf(t))
      BY <1>6, <3>1
    <3>3. \A j \in Store!KeysOf(t) : KeyId[j] # KeyId[k]
      BY <1>6, <3>1
    <3> QED BY <3>2, <3>3
  <2>4. Store!Issue(t, k, scopes)
    BY <1>4, <1>5 DEF Store!Issue
  <2>5. lineage' = Store!With(lineage, k, <<t, era[t]>>)
    BY <1>4
  <2> QED BY <1>4, <1>7, <2>1, <2>2, <2>3, <2>4, <2>5, StateStays DEF Store!AddKey
<1> QED BY <1>15, <1>16 DEF Store!Step

(* Writing the state only.                                                 *)
LEMMA StateOnly ==
  ASSUME Inv, NEW r \in Slots, NEW t \in Tenants, t = principal[r].tenant,
         UNCHANGED <<tenantDocs, keyDocs, era, lineage>>,
         \A u \in Tenants \ {t} : StateOf(u)' = StateOf(u),
         stateDocs' \in [DOMAIN stateDocs' -> SUBSET Keys],
         DOMAIN stateDocs' \subseteq DOMAIN tenantDocs, Done(r, {"state"})
  PROVE  Inv'
<1>1. Collections' /\ DocumentsAgree' /\ UniqueIds'
  BY DEF Inv, Collections, DocumentsAgree, UniqueIds
<1>2. OnlyWrites(t, {"state"})
  BY DEF OnlyWrites
<1>3. NoKey \notin DOMAIN lineage'
  BY FirestoreAssumption DEF Inv, Collections
<1> QED BY <1>1, <1>2, <1>3, AfterDone DEF Inv

(* Writing nothing.                                                        *)
LEMMA NothingWritten ==
  ASSUME Inv, NEW r \in Slots, NEW kinds, Done(r, kinds), UNCHANGED <<documents, history>>
  PROVE  Inv'
<1>1. /\ tenantDocs' = tenantDocs /\ keyDocs' = keyDocs /\ stateDocs' = stateDocs
      /\ era' = era /\ lineage' = lineage
  BY DEF documents, history
<1>2. Collections' /\ DocumentsAgree' /\ UniqueIds'
  BY <1>1 DEF Inv, Collections, DocumentsAgree, UniqueIds
<1>3. OnlyWrites(principal[r].tenant, kinds)
  BY <1>1, StateStays DEF OnlyWrites
<1>4. NoKey \notin DOMAIN lineage'
  BY <1>1, FirestoreAssumption DEF Inv, Collections
<1> QED BY <1>1, <1>2, <1>3, <1>4, AfterDone DEF Inv

(* transact.                                                               *)
LEMMA TransactStep ==
  ASSUME Inv, NEW r \in Slots, Transact(r)
  PROVE  Inv' /\ Store!Step(r)
<1>0. Commits(r, "transact") /\ "transact" # "none"
  BY DEF Transact
<1>1. /\ principal[r].tenant \in Tenants /\ Entitled(principal[r], txn[r].call)
      /\ txn[r].call.op = "transact" /\ txn[r].seen = Sight(principal[r].tenant, "transact")
      /\ principal[r].key \in Keys \cup {NoKey}
  BY <1>0, Committing
<1>2. principal[r].tenant \in DOMAIN tenantDocs /\ Store!RequireKey(r)
  BY <1>0, Credentials
<1>3. "ingest" \in principal[r].scopes /\ principal[r].key # NoKey
  BY <1>1 DEF Entitled, Inv, Keyless
<1> PICK t \in Tenants, w \in Keys : t = principal[r].tenant /\ w = principal[r].key
  BY <1>1, <1>3
<1>4. txn[r].seen.written = StateOf(t)
  BY <1>1, SightFields DEF Reads
<1>5. /\ stateDocs' = Store!With(stateDocs, t, StateOf(t) \cup {w})
      /\ Done(r, {"state"}) /\ UNCHANGED <<tenantDocs, keyDocs, era, lineage>>
  BY <1>4 DEF Transact, history
<1>6. StateOf(t) \cup {w} \in SUBSET Keys
  BY DEF StateOf, Inv, Collections
<1>7. stateDocs' \in [DOMAIN stateDocs' -> SUBSET Keys] /\ DOMAIN stateDocs' \subseteq DOMAIN tenantDocs
  BY <1>2, <1>5, <1>6 DEF Inv, Collections, DocumentsAgree, Store!With
<1>8. Inv'
  BY <1>5, <1>7, StateOnly, StateWritten
<1>9. Store!Transact(r)
  <2>1. /\ Store!Allowed(r, "ingest") /\ Store!RequireTenant(r) /\ Store!RequireKey(r)
        /\ Store!Reply(r)
    BY <1>2, <1>3, <1>5 DEF Store!Allowed, Store!RequireTenant, Done
  <2>2. [u \in Tenants |-> StateOf(u)]' =
          [[u \in Tenants |-> StateOf(u)] EXCEPT ![t] = StateOf(t) \cup {w}]
    BY <1>5, StateWritten
  <2>3. [u \in Tenants |-> StateOf(u)]' =
          [[u \in Tenants |-> StateOf(u)] EXCEPT ![t] = @ \cup {w}]
    BY <2>2
  <2> QED BY <1>5, <2>1, <2>3 DEF Store!Transact, Store!history
<1> QED BY <1>8, <1>9 DEF Store!Step

(* read_state: an expired document goes.                                   *)
LEMMA ReadStep ==
  ASSUME Inv, NEW r \in Slots, Read(r)
  PROVE  Inv' /\ Store!Step(r)
<1>0. Commits(r, "read") /\ "read" # "none"
  BY DEF Read
<1>1. /\ principal[r].tenant \in Tenants /\ Entitled(principal[r], txn[r].call)
      /\ txn[r].call.op = "read" /\ Store!RequireKey(r)
      /\ UNCHANGED <<tenantDocs, keyDocs, era, lineage>>
  BY <1>0, Committing, Credentials DEF Read, history
<1> PICK t \in Tenants : t = principal[r].tenant
  BY <1>1
<1>2. Store!Allowed(r, "read")
  BY <1>1 DEF Entitled, Store!Allowed
<1>3. CASE Done(r, {}) /\ UNCHANGED stateDocs
  <2>1. UNCHANGED <<documents, history>>
    BY <1>1, <1>3 DEF documents, history
  <2>2. Inv'
    BY <1>3, <2>1, NothingWritten
  <2>3. Store!Read(r)
    BY <1>1, <1>2, <1>3, StateStays DEF Store!Read, Done, Store!history
  <2> QED BY <2>2, <2>3 DEF Store!Step
<1>4. CASE stateDocs' = Store!Without(stateDocs, {t}) /\ Done(r, {"state"})
  <2>1. /\ stateDocs' \in [DOMAIN stateDocs' -> SUBSET Keys]
        /\ DOMAIN stateDocs' \subseteq DOMAIN tenantDocs
    BY <1>4 DEF Inv, Collections, DocumentsAgree, Store!Without
  <2>2. Inv'
    BY <1>1, <1>4, <2>1, StateOnly, StateDeleted
  <2>3. Store!Read(r)
    BY <1>1, <1>2, <1>4, StateDeleted DEF Store!Read, Done, Store!history
  <2> QED BY <2>2, <2>3 DEF Store!Step
<1> QED BY <1>3, <1>4 DEF Read

(* list_keys.                                                              *)
LEMMA ListKeysStep ==
  ASSUME Inv, NEW r \in Slots, ListKeys(r)
  PROVE  Inv' /\ Store!Step(r)
<1>0. Commits(r, "list") /\ "list" # "none"
  BY DEF ListKeys
<1>1. /\ Entitled(principal[r], txn[r].call) /\ txn[r].call.op = "list" /\ Store!RequireKey(r)
  BY <1>0, Committing, Credentials
<1>2. Store!Allowed(r, "manage") /\ Store!Reply(r)
  BY <1>1 DEF Entitled, Store!Allowed, ListKeys, Done
<1>3. Inv'
  BY NothingWritten DEF ListKeys
<1>4. Store!ListKeys(r)
  BY <1>1, <1>2, StateStays
     DEF Store!ListKeys, ListKeys, documents, history, Store!accounts, Store!history
<1> QED BY <1>3, <1>4 DEF Store!Step

(* revoke_key: at most one listed key has the key_id.                      *)
LEMMA RevokeKeyStep ==
  ASSUME Inv, NEW r \in Slots, RevokeKey(r)
  PROVE  Inv' /\ Store!Step(r)
<1>0. Commits(r, "revoke") /\ "revoke" # "none"
  BY DEF RevokeKey
<1>1. /\ principal[r].tenant \in Tenants /\ Entitled(principal[r], txn[r].call)
      /\ txn[r].call.op = "revoke"
  BY <1>0, Committing
<1>2. /\ principal[r].tenant \in DOMAIN tenantDocs /\ Store!RequireKey(r)
      /\ txn[r].seen.hashes = Store!KeysOf(principal[r].tenant)
      /\ txn[r].seen.hashes = tenantDocs[principal[r].tenant]
  BY <1>0, Credentials
<1>3. Store!Allowed(r, "manage") /\ txn[r].call.id \in {KeyId[k] : k \in Keys}
  BY <1>1 DEF Entitled, Store!Allowed
<1> PICK t \in DOMAIN tenantDocs, drawn \in Keys : t = principal[r].tenant /\ KeyId[drawn] = txn[r].call.id
  BY <1>2, <1>3
<1> PICK matches : matches = {k \in tenantDocs[t] : KeyId[k] = KeyId[drawn]}
  OBVIOUS
<1>4. matches = {k \in Store!KeysOf(t) : KeyId[k] = KeyId[drawn]}
  BY <1>2
<1>5. ASSUME keyDocs' = Store!Without(keyDocs, matches), DOMAIN tenantDocs' = DOMAIN tenantDocs,
             stateDocs' = stateDocs, UNCHANGED history, Store!Reply(r)
      PROVE  Store!Step(r)
  <2>1. Store!RevokeKey(r, KeyId[drawn])
    BY <1>2, <1>3, <1>4, <1>5, StateStays DEF Store!RevokeKey, Store!history, history
  <2> QED BY <2>1 DEF Store!Step
<1>6. CASE matches = {} /\ Done(r, {}) /\ UNCHANGED <<documents, history>>
  <2>1. keyDocs' = Store!Without(keyDocs, matches)
    BY <1>6 DEF Inv, Collections, documents, Store!Without
  <2>2. Store!Step(r)
    BY <1>5, <1>6, <2>1 DEF Done, documents
  <2> QED BY <1>6, <2>2, NothingWritten
<1>7. ASSUME NEW k \in matches, tenantDocs' = Store!With(tenantDocs, t, tenantDocs[t] \ {k}),
             keyDocs' = Store!Without(keyDocs, {k}), Done(r, {"tenant"}),
             UNCHANGED <<stateDocs, history>>
      PROVE  Inv' /\ Store!Step(r)
  <2>1. matches = {k}
    BY <1>7 DEF Inv, UniqueIds
  <2>2. /\ DOMAIN tenantDocs' = DOMAIN tenantDocs /\ tenantDocs'[t] = tenantDocs[t] \ {k}
        /\ \A u \in DOMAIN tenantDocs \ {t} : tenantDocs'[u] = tenantDocs[u]
    BY <1>7 DEF Store!With
  <2>3. /\ DOMAIN keyDocs' = DOMAIN keyDocs \ {k}
        /\ \A j \in DOMAIN keyDocs \ {k} : keyDocs'[j] = keyDocs[j]
    BY <1>7 DEF Store!Without
  <2>4. Store!Step(r)
    BY <1>5, <1>7, <2>1, <2>2 DEF Done
  <2>5. Collections'
    <3>1. tenantDocs' \in [DOMAIN tenantDocs' -> SUBSET Keys] /\ DOMAIN tenantDocs' \subseteq Tenants
      BY <1>7 DEF Inv, Collections, Store!With
    <3>2. keyDocs' \in [DOMAIN keyDocs' -> Store!KeyRecord] /\ DOMAIN keyDocs' \subseteq DOMAIN lineage
      BY <1>7 DEF Inv, Collections, Store!Without
    <3> QED BY <1>7, <3>1, <3>2 DEF Inv, Collections, history
  <2>6. k \in tenantDocs[t] /\ keyDocs[k].tenant = t
    BY <1>7 DEF Inv, DocumentsAgree
  <2>7. DocumentsAgree'
    <3>1. ASSUME NEW u \in DOMAIN tenantDocs', NEW j \in tenantDocs'[u]
          PROVE  j \in DOMAIN keyDocs' /\ keyDocs'[j].tenant = u
      BY <2>2, <2>3, <2>6, <3>1 DEF Inv, DocumentsAgree
    <3>2. ASSUME NEW j \in DOMAIN keyDocs'
          PROVE  keyDocs'[j].tenant \in DOMAIN tenantDocs' /\ j \in tenantDocs'[keyDocs'[j].tenant]
      BY <2>2, <2>3 DEF Inv, DocumentsAgree
    <3>3. DOMAIN stateDocs' \subseteq DOMAIN tenantDocs'
      BY <1>7, <2>2 DEF Inv, DocumentsAgree
    <3> QED BY <3>1, <3>2, <3>3 DEF DocumentsAgree
  <2>8. UniqueIds'
    BY <2>2 DEF Inv, UniqueIds
  <2>9. OnlyWrites(t, {"tenant"})
    BY <1>7, <2>2, StateStays DEF OnlyWrites
  <2>10. NoKey \notin DOMAIN lineage' /\ lineage' = lineage
    BY <1>7, FirestoreAssumption DEF Inv, Collections, history
  <2>11. Inv'
    BY <1>7, <2>5, <2>7, <2>8, <2>9, <2>10, AfterDone DEF Inv
  <2> QED BY <2>4, <2>11
<1>8. matches = {k \in txn[r].seen.hashes : KeyId[k] = txn[r].call.id}
  BY <1>2
<1> QED BY <1>2, <1>6, <1>7, <1>8 DEF RevokeKey

(* delete_tenant.                                                          *)
LEMMA DeleteTenantStep ==
  ASSUME Inv, NEW r \in Slots, DeleteTenant(r)
  PROVE  Inv' /\ Store!Step(r)
<1>0. Commits(r, "delete") /\ "delete" # "none"
  BY DEF DeleteTenant
<1>1. /\ principal[r].tenant \in Tenants /\ Entitled(principal[r], txn[r].call)
      /\ txn[r].call.op = "delete" /\ principal[r] # Store!Idle
  BY <1>0, Committing
<1>2. /\ Store!RequireKey(r) /\ txn[r].seen.hashes = Store!KeysOf(principal[r].tenant)
      /\ txn[r].seen.exists <=> principal[r].tenant \in DOMAIN tenantDocs
  BY <1>0, Credentials
<1> PICK t \in Tenants : t = principal[r].tenant
  BY <1>1
<1> PICK gone : gone = Store!KeysOf(t)
  OBVIOUS
<1> PICK kinds : kinds = IF t \in DOMAIN tenantDocs THEN {"tenant", "state"} ELSE {}
  OBVIOUS
<1>3. /\ keyDocs' = Store!Without(keyDocs, gone) /\ stateDocs' = Store!Without(stateDocs, {t})
      /\ tenantDocs' = Store!Without(tenantDocs, {t}) /\ UNCHANGED history
      /\ Done(r, kinds)
  BY <1>2 DEF DeleteTenant
<1>4. gone = {j \in DOMAIN keyDocs : keyDocs[j].tenant = t}
  BY DEF Store!KeysOf
<1>5. /\ DOMAIN tenantDocs' = DOMAIN tenantDocs \ {t}
      /\ \A u \in DOMAIN tenantDocs \ {t} : tenantDocs'[u] = tenantDocs[u]
      /\ DOMAIN stateDocs' = DOMAIN stateDocs \ {t}
  BY <1>3 DEF Store!Without
<1>6. /\ DOMAIN keyDocs' = DOMAIN keyDocs \ gone
      /\ \A j \in DOMAIN keyDocs \ gone : keyDocs'[j] = keyDocs[j]
  BY <1>3 DEF Store!Without
<1>7. /\ StateOf(t)' = {} /\ \A u \in Tenants \ {t} : StateOf(u)' = StateOf(u)
      /\ [u \in Tenants |-> StateOf(u)]' = [[u \in Tenants |-> StateOf(u)] EXCEPT ![t] = {}]
  BY <1>3, StateDeleted
<1>8. Collections'
  <2>1. tenantDocs' \in [DOMAIN tenantDocs' -> SUBSET Keys] /\ DOMAIN tenantDocs' \subseteq Tenants
    BY <1>3 DEF Inv, Collections, Store!Without
  <2>2. keyDocs' \in [DOMAIN keyDocs' -> Store!KeyRecord] /\ DOMAIN keyDocs' \subseteq DOMAIN lineage
    BY <1>3 DEF Inv, Collections, Store!Without
  <2>3. stateDocs' \in [DOMAIN stateDocs' -> SUBSET Keys]
    BY <1>3 DEF Inv, Collections, Store!Without
  <2> QED BY <1>3, <2>1, <2>2, <2>3 DEF Inv, Collections, history
<1>9. DocumentsAgree'
  <2>1. ASSUME NEW u \in DOMAIN tenantDocs', NEW j \in tenantDocs'[u]
        PROVE  j \in DOMAIN keyDocs' /\ keyDocs'[j].tenant = u
    BY <1>4, <1>5, <1>6, <2>1 DEF Inv, DocumentsAgree
  <2>2. ASSUME NEW j \in DOMAIN keyDocs'
        PROVE  keyDocs'[j].tenant \in DOMAIN tenantDocs' /\ j \in tenantDocs'[keyDocs'[j].tenant]
    BY <1>4, <1>5, <1>6 DEF Inv, DocumentsAgree
  <2>3. DOMAIN stateDocs' \subseteq DOMAIN tenantDocs'
    BY <1>5 DEF Inv, DocumentsAgree
  <2> QED BY <2>1, <2>2, <2>3 DEF DocumentsAgree
<1>10. UniqueIds'
  BY <1>5 DEF Inv, UniqueIds
<1>11. OnlyWrites(t, kinds)
  <2>1. CASE t \in DOMAIN tenantDocs
    BY <1>5, <1>7, <2>1 DEF OnlyWrites
  <2>2. CASE t \notin DOMAIN tenantDocs
    <3>1. StateOf(t) = {}
      BY <2>2 DEF StateOf, Inv, DocumentsAgree
    <3> QED BY <1>5, <1>7, <2>2, <3>1 DEF OnlyWrites
  <2> QED BY <2>1, <2>2
<1>12. NoKey \notin DOMAIN lineage' /\ lineage' = lineage
  BY <1>3, FirestoreAssumption DEF Inv, Collections, history
<1>13. Inv'
  BY <1>3, <1>8, <1>9, <1>10, <1>11, <1>12, AfterDone DEF Inv
<1>14. Store!DeleteTenant(r)
  <2>1. Store!ByOperator(r) \/ Store!Allowed(r, "manage")
    BY <1>1 DEF Entitled, Store!ByOperator, Store!Allowed
  <2>2. Store!Reply(r)
    BY <1>3 DEF Done
  <2> QED BY <1>2, <1>3, <1>5, <1>7, <2>1, <2>2 DEF Store!DeleteTenant, Store!history, history
<1> QED BY <1>13, <1>14 DEF Store!Step

-----------------------------------------------------------------------------
(***************************************************************************)
(* Requests, attempts and what happens by itself.                          *)
(***************************************************************************)

(* Nothing is written.                                                     *)
LEMMA DocumentsStay ==
  ASSUME Inv, UNCHANGED <<documents, history>>
  PROVE  /\ Collections' /\ DocumentsAgree' /\ UniqueIds' /\ lineage' = lineage
         /\ UNCHANGED <<Store!accounts, Store!history>>
         /\ \A t, op : Sight(t, op)' = Sight(t, op)
<1>1. /\ tenantDocs' = tenantDocs /\ keyDocs' = keyDocs /\ stateDocs' = stateDocs
      /\ era' = era /\ lineage' = lineage
  BY DEF documents, history
<1>2. Collections' /\ DocumentsAgree' /\ UniqueIds'
  BY <1>1 DEF Inv, Collections, DocumentsAgree, UniqueIds
<1>3. \A t : StateOf(t)' = StateOf(t)
  BY <1>1 DEF StateOf
<1>4. \A t, op : Sight(t, op)' = Sight(t, op)
  BY <1>1, <1>3 DEF Sight
<1>5. [t \in Tenants |-> StateOf(t)]' = [t \in Tenants |-> StateOf(t)]
  BY <1>3
<1> QED BY <1>1, <1>2, <1>4, <1>5 DEF Store!accounts, Store!history

(* A principal changes, of a slot that has no call.                        *)
LEMMA PrincipalStep ==
  ASSUME Inv, NEW r \in Slots, principal[r] = Store!Idle, NEW p,
         p \in [tenant : Tenants, key : Keys \cup {NoKey}, scopes : SUBSET SCOPES],
         p.key = NoKey => p.scopes = {},
         principal' = [principal EXCEPT ![r] = p], UNCHANGED <<documents, txn, history>>
  PROVE  Inv'
<1>1. /\ Collections' /\ DocumentsAgree' /\ UniqueIds' /\ lineage' = lineage
      /\ \A t, op : Sight(t, op)' = Sight(t, op)
  BY DocumentsStay
<1>2. p \in Store!Principals
  BY DEF Store!Principals
<1>3. /\ principal' \in [Slots -> Store!Principals] /\ principal'[r] = p
      /\ \A q \in Slots \ {r} : principal'[q] = principal[q]
  BY <1>2 DEF Inv
<1>4. Keyless'
  BY <1>3 DEF Inv, Keyless
<1>5. ASSUME NEW q \in Slots, txn'[q] # NoTxn PROVE Sighted(q)'
  <2>1. Sighted(q) /\ q # r
    BY <1>5 DEF Inv, Sighted
  <2> QED BY <1>1, <1>3, <2>1 DEF Sighted
<1>6. NewKeys'
  BY <1>1 DEF Inv, NewKeys
<1> QED BY <1>1, <1>3, <1>4, <1>5, <1>6 DEF Inv

LEMMA AuthenticateStep ==
  ASSUME Inv, NEW r \in Slots, NEW k \in Keys, Authenticate(r, k)
  PROVE  Inv' /\ Store!Step(r)
<1> DEFINE p == [tenant |-> keyDocs[k].tenant, key |-> k, scopes |-> keyDocs[k].scopes]
<1>1. /\ principal[r] = Store!Idle /\ k \in DOMAIN keyDocs
      /\ principal' = [principal EXCEPT ![r] = p] /\ UNCHANGED <<documents, txn, history>>
  BY DEF Authenticate
<1>2. /\ p \in [tenant : Tenants, key : Keys \cup {NoKey}, scopes : SUBSET SCOPES]
      /\ p.key # NoKey
  BY <1>1, FirestoreAssumption DEF Inv, Collections, Store!KeyRecord
<1>3. Inv'
  BY <1>1, <1>2, PrincipalStep
<1>4. UNCHANGED <<Store!accounts, Store!history>>
  BY <1>1, DocumentsStay
<1>5. Store!Authenticate(r, k)
  BY <1>1, <1>4 DEF Store!Authenticate
<1> QED BY <1>3, <1>5 DEF Store!Step

LEMMA OperatorStep ==
  ASSUME Inv, NEW r \in Slots, NEW t \in Tenants, Operator(r, t)
  PROVE  Inv' /\ Store!Step(r)
<1> DEFINE p == [tenant |-> t, key |-> NoKey, scopes |-> {}]
<1>1. /\ principal[r] = Store!Idle
      /\ principal' = [principal EXCEPT ![r] = p] /\ UNCHANGED <<documents, txn, history>>
  BY DEF Operator
<1>2. /\ p \in [tenant : Tenants, key : Keys \cup {NoKey}, scopes : SUBSET SCOPES]
      /\ p.scopes = {}
  OBVIOUS
<1>3. Inv'
  BY <1>1, <1>2, PrincipalStep
<1>4. UNCHANGED <<Store!accounts, Store!history>>
  BY <1>1, DocumentsStay
<1>5. Store!Operator(r, t)
  BY <1>1, <1>4 DEF Store!Operator
<1> QED BY <1>3, <1>5 DEF Store!Step

(* A callback begins on what is there: the first attempt or another.       *)
LEMMA AttemptStep ==
  ASSUME Inv, NEW r \in Slots, principal[r] # Store!Idle, NEW call \in CallRecords,
         Entitled(principal[r], call), NEW n \in 0..MAX_ATTEMPTS,
         txn' = [txn EXCEPT ![r] = [call |-> call, seen |-> Sight(principal[r].tenant, call.op),
                                    valid |-> TRUE, attempt |-> n]],
         call.key \in Fresh \cup {NoKey} \/ call = txn[r].call,
         UNCHANGED <<documents, principal, history>>
  PROVE  Inv'
<1>1. /\ Collections' /\ DocumentsAgree' /\ UniqueIds' /\ lineage' = lineage
      /\ \A t, op : Sight(t, op)' = Sight(t, op)
  BY DocumentsStay
<1> PICK x : x = [call |-> call, seen |-> Sight(principal[r].tenant, call.op),
                  valid |-> TRUE, attempt |-> n]
  OBVIOUS
<1>2. x \in Txns /\ x.call = call /\ x.seen = Sight(principal[r].tenant, call.op)
  <2>1. Sight(principal[r].tenant, call.op) \in Sights
    BY SightType DEF Inv
  <2> QED BY <2>1 DEF Txns
<1>3. /\ txn' \in [Slots -> Txns] /\ txn'[r] = x
      /\ \A q \in Slots \ {r} : txn'[q] = txn[q]
  BY <1>2 DEF Inv
<1>4. ASSUME NEW q \in Slots, txn'[q] # NoTxn PROVE Sighted(q)'
  <2>1. CASE q = r
    BY <1>1, <1>2, <1>3, <2>1 DEF Sighted
  <2>2. CASE q # r
    <3>1. Sighted(q)
      BY <1>3, <1>4, <2>2 DEF Inv
    <3> QED BY <1>1, <1>3, <2>2, <3>1 DEF Sighted
  <2> QED BY <2>1, <2>2
<1>5. NewKeys'
  <2>1. CASE call.key \in Fresh
    <3>1. /\ call.key \notin DOMAIN lineage /\ \A q \in Slots : txn[q].call.key # call.key
      BY <2>1 DEF Fresh
    <3> QED BY <1>1, <1>2, <1>3, <3>1 DEF Inv, NewKeys
  <2>2. CASE call.key = NoKey
    <3>1. NoKey \notin DOMAIN lineage
      BY FirestoreAssumption DEF Inv, Collections
    <3> QED BY <1>1, <1>2, <1>3, <2>2, <3>1 DEF Inv, NewKeys
  <2>3. CASE call = txn[r].call
    <3>1. \A q \in Slots : txn'[q].call = txn[q].call
      BY <1>2, <1>3, <2>3
    <3> QED BY <1>1, <3>1 DEF Inv, NewKeys
  <2> QED BY <2>1, <2>2, <2>3
<1>6. Keyless'
  BY DEF Inv, Keyless
<1> QED BY <1>1, <1>3, <1>4, <1>5, <1>6 DEF Inv

(* CallsOf offers what the request's handler may call.                     *)
LEMMA CallsOfType ==
  ASSUME Inv, NEW r \in Slots, principal[r] # Store!Idle, NEW call \in CallsOf(r)
  PROVE  call \in CallRecords /\ Entitled(principal[r], call) /\ call.key \in Fresh \cup {NoKey}
<1>1. principal[r].scopes \in SUBSET SCOPES /\ Fresh \subseteq Keys
  BY PrincipalTenant DEF Inv, Fresh
<1>2. CASE Store!ByOperator(r)
  <2>1. principal[r].key = NoKey
    BY <1>2 DEF Store!ByOperator
  <2>2. call = Call("delete") \/ call \in [op : {"create"}, key : Fresh, id : {NoKey}, scopes : {{}}]
    BY <1>2 DEF CallsOf, OperatorCalls
  <2> QED BY <1>1, <2>1, <2>2 DEF Call, NoCall, CallRecords, Entitled
<1>3. CASE ~Store!ByOperator(r)
  <2>1. \/ "ingest" \in principal[r].scopes /\ call = Call("transact")
        \/ "read" \in principal[r].scopes /\ call = Call("read")
        \/ "manage" \in principal[r].scopes /\ call \in ManagerCalls(r)
    BY <1>3 DEF CallsOf
  <2>2. CASE "ingest" \in principal[r].scopes /\ call = Call("transact")
    BY <2>2 DEF Call, NoCall, CallRecords, Entitled
  <2>3. CASE "read" \in principal[r].scopes /\ call = Call("read")
    BY <2>3 DEF Call, NoCall, CallRecords, Entitled
  <2>4. CASE "manage" \in principal[r].scopes /\ call \in ManagerCalls(r)
    <3>1. CASE call = Call("list") \/ call = Call("delete")
      BY <2>4, <3>1 DEF Call, NoCall, CallRecords, Entitled
    <3>2. CASE call \in [op : {"revoke"}, key : {NoKey}, id : {KeyId[k] : k \in Keys}, scopes : {{}}]
      BY <2>4, <3>2 DEF CallRecords, Entitled
    <3>3. CASE call \in [op : {"add"}, key : Fresh, id : {NoKey},
                         scopes : (SUBSET principal[r].scopes) \ {{}}]
      BY <1>1, <2>4, <3>3 DEF CallRecords, Entitled
    <3> QED BY <2>4, <3>1, <3>2, <3>3 DEF ManagerCalls
  <2> QED BY <2>1, <2>2, <2>3, <2>4
<1> QED BY <1>2, <1>3

LEMMA BeginStep ==
  ASSUME Inv, NEW r \in Slots, Begin(r)
  PROVE  Inv'
<1> PICK call \in CallsOf(r) :
      txn' = [txn EXCEPT ![r] = [call |-> call, seen |-> Sight(principal[r].tenant, call.op),
                                 valid |-> TRUE, attempt |-> 1]]
  BY DEF Begin
<1>1. principal[r] # Store!Idle /\ UNCHANGED <<documents, principal, history>>
  BY DEF Begin
<1>2. 1 \in 0..MAX_ATTEMPTS
  BY FirestoreAssumption
<1> QED BY <1>1, <1>2, CallsOfType, AttemptStep

LEMMA RetryStep ==
  ASSUME Inv, NEW r \in Slots, Retry(r)
  PROVE  Inv'
<1>1. /\ txn[r] # NoTxn /\ txn[r] \in Txns /\ Sighted(r) /\ txn[r].attempt < MAX_ATTEMPTS
      /\ UNCHANGED <<documents, principal, history>>
  BY DEF Retry, Inv
<1>2. txn' = [txn EXCEPT ![r] = [call |-> txn[r].call,
                                 seen |-> Sight(principal[r].tenant, txn[r].call.op),
                                 valid |-> TRUE, attempt |-> txn[r].attempt + 1]]
  BY <1>1 DEF Retry, Txns, Inv
<1>3. txn[r].attempt + 1 \in 0..MAX_ATTEMPTS /\ txn[r].call \in CallRecords
  BY <1>1, FirestoreAssumption DEF Txns
<1> QED BY <1>1, <1>2, <1>3, AttemptStep DEF Sighted

(* A call that fails, or is cut short, is a refused request to Accounts.   *)
LEMMA FailStep ==
  ASSUME Inv, NEW r \in Slots, principal[r] # Store!Idle, Fail(r)
  PROVE  Inv' /\ Store!Step(r)
<1>1. /\ Collections' /\ DocumentsAgree' /\ UniqueIds' /\ lineage' = lineage
      /\ UNCHANGED <<Store!accounts, Store!history>>
      /\ \A t, op : Sight(t, op)' = Sight(t, op)
  BY DocumentsStay DEF Fail
<1>2. /\ principal' \in [Slots -> Store!Principals] /\ Keyless'
      /\ \A q \in Slots \ {r} : principal'[q] = principal[q]
  BY AfterReply DEF Fail
<1>3. /\ txn' \in [Slots -> Txns] /\ txn'[r] = NoTxn
      /\ \A q \in Slots \ {r} : txn'[q] = txn[q]
  BY NoTxnType DEF Fail, Inv
<1>4. ASSUME NEW q \in Slots, txn'[q] # NoTxn PROVE Sighted(q)'
  <2>1. q # r /\ Sighted(q)
    BY <1>3, <1>4 DEF Inv
  <2> QED BY <1>1, <1>2, <1>3, <2>1 DEF Sighted
<1>5. NewKeys'
  <2>1. NoKey \notin DOMAIN lineage
    BY FirestoreAssumption DEF Inv, Collections
  <2> QED BY <1>1, <1>3, <2>1, NoTxnType DEF Inv, NewKeys
<1>6. Inv'
  BY <1>1, <1>2, <1>3, <1>4, <1>5 DEF Inv
<1>7. Store!Refuse(r)
  BY <1>1 DEF Fail, Store!Refuse
<1> QED BY <1>6, <1>7 DEF Store!Step

(* Firestore deletes an expired state document.                            *)
LEMMA TimeToLiveStep ==
  ASSUME Inv, NEW t \in Tenants, TimeToLive(t)
  PROVE  Inv' /\ (Store!Expire(t) \/ UNCHANGED Store!vars)
<1>1. /\ stateDocs' = Store!Without(stateDocs, {t}) /\ principal' = principal
      /\ tenantDocs' = tenantDocs /\ keyDocs' = keyDocs /\ era' = era /\ lineage' = lineage
      /\ txn' = [q \in Slots |-> IF txn[q] # NoTxn /\ Spoils(t, {"state"}, q)
                                 THEN [txn[q] EXCEPT !.valid = FALSE] ELSE txn[q]]
  BY DEF TimeToLive, history
<1>2. /\ StateOf(t)' = {} /\ \A u \in Tenants \ {t} : StateOf(u)' = StateOf(u)
      /\ [u \in Tenants |-> StateOf(u)]' = [[u \in Tenants |-> StateOf(u)] EXCEPT ![t] = {}]
  BY <1>1, StateDeleted
<1>3. Collections' /\ DocumentsAgree' /\ UniqueIds'
  <2>1. /\ stateDocs' \in [DOMAIN stateDocs' -> SUBSET Keys]
        /\ DOMAIN stateDocs' \subseteq DOMAIN stateDocs
    BY <1>1 DEF Inv, Collections, Store!Without
  <2> QED BY <1>1, <2>1 DEF Inv, Collections, DocumentsAgree, UniqueIds
<1>4. OnlyWrites(t, {"state"})
  BY <1>1, <1>2 DEF OnlyWrites
<1>5. ASSUME NEW q \in Slots
      PROVE  /\ txn'[q] \in Txns /\ txn'[q].call = txn[q].call
             /\ txn'[q] # NoTxn => Sighted(q)'
  <2>1. CASE txn[q] = NoTxn
    BY <1>1, <2>1, NoTxnType
  <2>2. CASE txn[q] # NoTxn
    <3>1. txn'[q] = IF Spoils(t, {"state"}, q) THEN [txn[q] EXCEPT !.valid = FALSE] ELSE txn[q]
      BY <1>1, <2>2
    <3> QED BY <1>1, <1>4, <2>2, <3>1, Unspoilt
  <2> QED BY <2>1, <2>2
<1>6. NewKeys'
  BY <1>1, <1>5 DEF Inv, NewKeys
<1>7. txn' \in [Slots -> Txns]
  <2>1. txn' = [q \in Slots |-> txn'[q]]
    BY <1>1
  <2> QED BY <1>5, <2>1
<1>8. Inv'
  BY <1>1, <1>3, <1>5, <1>6, <1>7 DEF Inv, Keyless
<1>9. CASE StateOf(t) = {}
  <2>1. [u \in Tenants |-> StateOf(u)]' = [u \in Tenants |-> StateOf(u)]
    BY <1>2, <1>9
  <2> QED BY <1>1, <1>8, <2>1 DEF Store!vars, Store!accounts, Store!history
<1>10. CASE StateOf(t) # {}
  <2>1. Store!Expire(t)
    BY <1>1, <1>2, <1>10 DEF Store!Expire, Store!history
  <2> QED BY <1>8, <2>1
<1> QED BY <1>9, <1>10

-----------------------------------------------------------------------------
(***************************************************************************)
(* The theorems.                                                           *)
(***************************************************************************)

(* Every step keeps the invariant, and is one Accounts takes, or none.     *)
LEMMA InvNext == Inv /\ [Next]_vars => Inv' /\ [Store!Next]_(Store!vars)
<1> SUFFICES ASSUME Inv, [Next]_vars PROVE Inv' /\ [Store!Next]_(Store!vars)
  OBVIOUS
<1>1. ASSUME UNCHANGED <<documents, principal, history>> PROVE UNCHANGED Store!vars
  BY <1>1, DocumentsStay DEF Store!vars
<1>2. ASSUME NEW r \in Slots, NEW k \in Keys, Authenticate(r, k) PROVE Inv' /\ Store!Step(r)
  BY <1>2, AuthenticateStep
<1>3. ASSUME NEW r \in Slots, NEW t \in Tenants, Operator(r, t) PROVE Inv' /\ Store!Step(r)
  BY <1>3, OperatorStep
<1>4. ASSUME NEW r \in Slots, Begin(r) \/ Retry(r) PROVE Inv' /\ UNCHANGED Store!vars
  <2>1. UNCHANGED <<documents, principal, history>>
    BY <1>4 DEF Begin, Retry
  <2> QED BY <1>1, <1>4, <2>1, BeginStep, RetryStep
<1>5. ASSUME NEW r \in Slots, GiveUp(r) \/ Raise(r) \/ Crash(r) PROVE Inv' /\ Store!Step(r)
  <2>1. principal[r] # Store!Idle /\ Fail(r)
    BY <1>5 DEF GiveUp, Raise, Crash, Inv, Sighted
  <2> QED BY <2>1, FailStep
<1>6. ASSUME NEW r \in Slots, \/ CreateTenant(r) \/ AddKey(r) \/ RevokeKey(r)
                              \/ Transact(r) \/ Read(r) \/ ListKeys(r) \/ DeleteTenant(r)
      PROVE  Inv' /\ Store!Step(r)
  BY <1>6, CreateTenantStep, AddKeyStep, RevokeKeyStep, TransactStep, ReadStep, ListKeysStep,
     DeleteTenantStep
<1>7. ASSUME NEW t \in Tenants, TimeToLive(t) PROVE Inv' /\ [Store!Next]_(Store!vars)
  BY <1>7, TimeToLiveStep DEF Store!Next
<1>8. CASE UNCHANGED vars
  <2>1. /\ UNCHANGED <<documents, principal, history>> /\ txn' = txn /\ principal' = principal
        /\ UNCHANGED <<documents, history>>
    BY <1>8 DEF vars
  <2>2. /\ Collections' /\ DocumentsAgree' /\ UniqueIds' /\ lineage' = lineage
        /\ \A t, op : Sight(t, op)' = Sight(t, op)
    BY <2>1, DocumentsStay
  <2>3. Inv'
    BY <2>1, <2>2 DEF Inv, Keyless, Sighted, NewKeys
  <2> QED BY <1>1, <2>1, <2>3
<1>9. ASSUME NEW r \in Slots, Store!Step(r) PROVE Store!Next
  BY <1>9 DEF Store!Next
<1>10. CASE \E r \in Slots, k \in Keys : Authenticate(r, k)
  BY <1>2, <1>9, <1>10
<1>11. CASE \E r \in Slots, t \in Tenants : Operator(r, t)
  BY <1>3, <1>9, <1>11
<1>12. ASSUME NEW r \in Slots, Begin(r) \/ Work(r) \/ Crash(r)
       PROVE  Inv' /\ [Store!Next]_(Store!vars)
  BY <1>4, <1>5, <1>6, <1>9, <1>12 DEF Work
<1> QED BY <1>7, <1>8, <1>10, <1>11, <1>12 DEF Next

LEMMA Invariance == Spec => []Inv
<1>1. Init => Inv
  BY InvInit
<1>2. Inv /\ [Next]_vars => Inv'
  BY InvNext
<1> QED BY <1>1, <1>2, PTL DEF Spec

(* The three collections agree after every commit of every interleaving    *)
(* (FirestoreStore's multi-document transactions).                         *)
THEOREM DocumentsAlwaysAgree == Spec => []DocumentsAgree
<1>1. Inv => DocumentsAgree
  BY DEF Inv
<1> QED BY <1>1, Invariance, PTL

(* Documents and storage calls have their types.                           *)
THEOREM TypeCorrect == Spec => []TypeOK
<1>1. Inv => TypeOK
  <2> SUFFICES ASSUME Inv PROVE TypeOK
    OBVIOUS
  <2>1. [t \in Tenants |-> StateOf(t)] \in [Tenants -> SUBSET Keys]
    BY DEF Inv, Collections, StateOf
  <2>2. Store!TypeOK
    BY <2>1 DEF Store!TypeOK, Inv, Collections
  <2>3. /\ \E live \in SUBSET Tenants : tenantDocs \in [live -> SUBSET Keys]
        /\ \E live \in SUBSET Tenants : stateDocs \in [live -> SUBSET Keys]
    BY DEF Inv, Collections, DocumentsAgree
  <2>4. txn \in [Slots -> Txns] /\ \A r \in Slots : txn[r] # NoTxn => principal[r] # Store!Idle
    BY DEF Inv, Sighted
  <2> QED BY <2>2, <2>3, <2>4 DEF TypeOK, Txns
<1> QED BY <1>1, Invariance, PTL

(* Both stores make the promises of Accounts: optimistic transactions that *)
(* retry look like its atomic operations, whatever the requests.           *)
THEOREM FirestoreImplementsAccounts == Spec => Implements
<1>1. Init => Store!Init
  BY InvInit
<1>2. Inv /\ [Next]_vars => [Store!Next]_(Store!vars)
  BY InvNext
<1> QED BY <1>1, <1>2, Invariance, PTL DEF Spec, Implements, Store!Spec
=============================================================================
