--------------------------- MODULE FirestoreStore ---------------------------
(***************************************************************************)
(* FirestoreStore of storage.py: the same operations as Accounts on three  *)
(* collections of documents.  _run calls the operation's callback on what  *)
(* the documents hold when the attempt begins; the commit takes effect     *)
(* only if no document the callback read has been written since, otherwise *)
(* the attempt is repeated, at most MAX_ATTEMPTS times.  (That is what     *)
(* Firestore does: an external service.)                                   *)
(*                                                                         *)
(* A tenant's documents are its metadata ("tenant": the list key_hashes)   *)
(* and its state ("state"); a key's document is written only together with *)
(* the metadata that lists it, so it never conflicts by itself.            *)
(***************************************************************************)
EXTENDS Integers, FiniteSets

CONSTANTS Tenants, Keys, KeyId, Slots, SCOPES, MAX_KEYS, NoKey,  \* as in Accounts
  MAX_ATTEMPTS   \* max_attempts of client.transaction (5)

ASSUME FirestoreAssumption == NoKey \notin Keys /\ MAX_ATTEMPTS \in Nat \ {0}

VARIABLES
  tenantDocs,  \* rm_tenants: tenant -> key_hashes
  keyDocs,     \* rm_keys: digest -> [tenant, scopes]
  stateDocs,   \* rm_states: tenant -> the keys whose writes the state holds
  principal,   \* as in Accounts
  txn,         \* the storage call in progress in each slot
  era, lineage \* histories, as in Accounts

documents == <<tenantDocs, keyDocs, stateDocs>>
history   == <<era, lineage>>
vars      == <<documents, principal, txn, history>>

StateOf(t) == IF t \in DOMAIN stateDocs THEN stateDocs[t] ELSE {}

Store == INSTANCE Accounts WITH
  tenants <- DOMAIN tenantDocs,
  keys    <- keyDocs,
  state   <- [t \in Tenants |-> StateOf(t)]

NoCall == [op |-> "none", key |-> NoKey, id |-> NoKey, scopes |-> {}]

NoSight == [exists |-> FALSE, hashes |-> {}, written |-> {}]

NoTxn == [call |-> NoCall, seen |-> NoSight, valid |-> TRUE, attempt |-> 0]

Init ==
  /\ tenantDocs = [t \in {} |-> {}]
  /\ keyDocs = [k \in {} |-> Store!Idle]
  /\ stateDocs = [t \in {} |-> {}]
  /\ principal = [r \in Slots |-> Store!Idle]
  /\ txn = [r \in Slots |-> NoTxn]
  /\ era = [t \in Tenants |-> 0] /\ lineage = [k \in {} |-> <<>>]

-----------------------------------------------------------------------------
(***************************************************************************)
(* Requests and the calls they make.                                       *)
(***************************************************************************)

(* A read-only transaction on the key and its tenant, shown at the instant *)
(* it reads: nothing relies on its answer without reading again.           *)
Authenticate(r, k) ==
  /\ principal[r] = Store!Idle
  /\ k \in DOMAIN keyDocs /\ keyDocs[k].tenant \in DOMAIN tenantDocs
  /\ k \in tenantDocs[keyDocs[k].tenant]
  /\ principal' = [principal EXCEPT ![r] =
       [tenant |-> keyDocs[k].tenant, key |-> k, scopes |-> keyDocs[k].scopes]]
  /\ UNCHANGED <<documents, txn, history>>

Operator(r, t) ==
  /\ principal[r] = Store!Idle
  /\ principal' = [principal EXCEPT ![r] = [tenant |-> t, key |-> NoKey, scopes |-> {}]]
  /\ UNCHANGED <<documents, txn, history>>

(* new_key draws a digest nobody has or is about to have.                  *)
Fresh == Keys \ (DOMAIN lineage \cup {txn[r].call.key : r \in Slots})

Call(op) == [NoCall EXCEPT !.op = op]

OperatorCalls ==
  {Call("delete")} \cup [op : {"create"}, key : Fresh, id : {NoKey}, scopes : {{}}]

ManagerCalls(r) ==
  {Call("list"), Call("delete")}
    \cup [op : {"revoke"}, key : {NoKey}, id : {KeyId[k] : k \in Keys}, scopes : {{}}]
    \cup [op : {"add"}, key : Fresh, id : {NoKey},
          scopes : (SUBSET principal[r].scopes) \ {{}}]

CallsOf(r) ==
  LET may(scope, calls) == IF scope \in principal[r].scopes THEN calls ELSE {}
  IN IF Store!ByOperator(r) THEN OperatorCalls
     ELSE may("ingest", {Call("transact")}) \cup may("read", {Call("read")})
            \cup may("manage", ManagerCalls(r))

(* Mutant of Reads: the state is read in the transaction, the credential   *)
(* before it.                                                              *)
ReadsStateOnly(op) == IF op \in {"transact", "read"} THEN {"state"} ELSE {"tenant"}

Reads(op) == IF op \in {"transact", "read"} THEN {"tenant", "state"} ELSE {"tenant"}

(* What an attempt reads.                                                  *)
Sight(t, op) ==
  [exists  |-> t \in DOMAIN tenantDocs,
   hashes  |-> IF t \in DOMAIN tenantDocs THEN tenantDocs[t] ELSE {},
   written |-> IF "state" \in Reads(op) THEN StateOf(t) ELSE {}]

Begin(r) ==
  /\ principal[r] # Store!Idle /\ txn[r] = NoTxn
  /\ \E call \in CallsOf(r) :
       txn' = [txn EXCEPT ![r] =
         [call |-> call, seen |-> Sight(principal[r].tenant, call.op),
          valid |-> TRUE, attempt |-> 1]]
  /\ UNCHANGED <<documents, principal, history>>

(* Mutant of Retry: the attempts are not counted.                          *)
RetryForever(r) ==
  /\ txn[r] # NoTxn /\ ~txn[r].valid
  /\ txn' = [txn EXCEPT ![r].seen = Sight(principal[r].tenant, txn[r].call.op),
                        ![r].valid = TRUE]
  /\ UNCHANGED <<documents, principal, history>>

(* The commit was aborted: run the callback again on what is there now.    *)
Retry(r) ==
  /\ txn[r] # NoTxn /\ ~txn[r].valid /\ txn[r].attempt < MAX_ATTEMPTS
  /\ txn' = [txn EXCEPT ![r].seen = Sight(principal[r].tenant, txn[r].call.op),
                        ![r].valid = TRUE, ![r].attempt = @ + 1]
  /\ UNCHANGED <<documents, principal, history>>

(* Mutant of Fail: the call stays open.                                    *)
FailHalfway(r) == Store!Reply(r) /\ UNCHANGED <<documents, txn, history>>

Fail(r) ==
  /\ txn' = [txn EXCEPT ![r] = NoTxn]
  /\ Store!Reply(r)
  /\ UNCHANGED <<documents, history>>

GiveUp(r) ==
  /\ txn[r] # NoTxn /\ ~txn[r].valid /\ txn[r].attempt = MAX_ATTEMPTS
  /\ Fail(r)

(* The process dies, or the request ends before it reaches the store.      *)
Crash(r) == principal[r] # Store!Idle /\ Fail(r)

-----------------------------------------------------------------------------
(***************************************************************************)
(* The callbacks and their commits.  An attempt may commit while `valid`;  *)
(* the documents it writes spoil the attempts that have read them.         *)
(***************************************************************************)

(* _metadata and _require_key, on what the attempt has read.               *)
Metadata(r) == txn[r].seen.exists
RequireKey(r) == principal[r].key # NoKey => principal[r].key \in txn[r].seen.hashes

SameId(r) == {k \in txn[r].seen.hashes : KeyId[k] = KeyId[txn[r].call.key]}

(* The callback returns; otherwise it raises.                              *)
Passes(r) ==
  LET op == txn[r].call.op
  IN CASE op = "create" -> ~Metadata(r)
       [] op = "add" -> /\ Metadata(r) /\ RequireKey(r)
                        /\ Store!HasRoom(txn[r].seen.hashes)
                        /\ SameId(r) = {}
       [] OTHER -> (Metadata(r) \/ principal[r].key = NoKey) /\ RequireKey(r)

Raise(r) == txn[r] # NoTxn /\ ~Passes(r) /\ Fail(r)

(* Mutant of Commits: the last writer wins.                                *)
LastWriterWins(r, op) == txn[r].call.op = op /\ Passes(r)

Commits(r, op) == txn[r].call.op = op /\ txn[r].valid /\ Passes(r)

(* r is answered; attempts that read what it wrote can no longer commit.   *)
Spoils(t, kinds, q) == principal[q].tenant = t /\ Reads(txn[q].call.op) \cap kinds # {}

Done(r, kinds) ==
  /\ txn' = [q \in Slots |->
       IF q = r THEN NoTxn
       ELSE IF txn[q] # NoTxn /\ Spoils(principal[r].tenant, kinds, q)
       THEN [txn[q] EXCEPT !.valid = FALSE] ELSE txn[q]]
  /\ Store!Reply(r)

CreateTenant(r) ==
  LET t == principal[r].tenant
      k == txn[r].call.key
  IN /\ Commits(r, "create")
     /\ tenantDocs' = Store!With(tenantDocs, t, {k})
     /\ keyDocs' = Store!With(keyDocs, k, [tenant |-> t, scopes |-> SCOPES])
     /\ stateDocs' = Store!With(stateDocs, t, {})
     /\ era' = [era EXCEPT ![t] = @ + 1]
     /\ lineage' = Store!With(lineage, k, <<t, era[t] + 1>>)
     /\ Done(r, {"tenant", "state"})

AddKey(r) ==
  LET t == principal[r].tenant
      k == txn[r].call.key
  IN /\ Commits(r, "add")
     /\ tenantDocs' = Store!With(tenantDocs, t, txn[r].seen.hashes \cup {k})
     /\ keyDocs' = Store!With(keyDocs, k, [tenant |-> t, scopes |-> txn[r].call.scopes])
     /\ lineage' = Store!With(lineage, k, <<t, era[t]>>)
     /\ Done(r, {"tenant"}) /\ UNCHANGED <<stateDocs, era>>

(* The first match is removed; no match returns False and writes nothing.  *)
RevokeKey(r) ==
  LET t       == principal[r].tenant
      matches == {k \in txn[r].seen.hashes : KeyId[k] = txn[r].call.id}
  IN /\ Commits(r, "revoke")
     /\ \/ /\ matches = {}
           /\ Done(r, {}) /\ UNCHANGED <<documents, history>>
        \/ \E k \in matches :
             /\ tenantDocs' = Store!With(tenantDocs, t, txn[r].seen.hashes \ {k})
             /\ keyDocs' = Store!Without(keyDocs, {k})
             /\ Done(r, {"tenant"}) /\ UNCHANGED <<stateDocs, history>>

Transact(r) ==
  LET t == principal[r].tenant
  IN /\ Commits(r, "transact")
     /\ stateDocs' = Store!With(stateDocs, t, txn[r].seen.written \cup {principal[r].key})
     /\ Done(r, {"state"}) /\ UNCHANGED <<tenantDocs, keyDocs, history>>

(* An expired state document is deleted on the way.                        *)
Read(r) ==
  /\ Commits(r, "read")
  /\ \/ Done(r, {}) /\ UNCHANGED stateDocs
     \/ /\ stateDocs' = Store!Without(stateDocs, {principal[r].tenant})
        /\ Done(r, {"state"})
  /\ UNCHANGED <<tenantDocs, keyDocs, history>>

ListKeys(r) ==
  /\ Commits(r, "list")
  /\ Done(r, {}) /\ UNCHANGED <<documents, history>>

(* A missing tenant and no expected key return False.                      *)
DeleteTenant(r) ==
  LET t == principal[r].tenant
  IN /\ Commits(r, "delete")
     /\ keyDocs' = Store!Without(keyDocs, txn[r].seen.hashes)
     /\ stateDocs' = Store!Without(stateDocs, {t})
     /\ tenantDocs' = Store!Without(tenantDocs, {t})
     /\ Done(r, IF txn[r].seen.exists THEN {"tenant", "state"} ELSE {})
     /\ UNCHANGED history

(* Firestore's TTL policy deletes an expired state document (external).    *)
TimeToLive(t) ==
  /\ t \in DOMAIN stateDocs
  /\ stateDocs' = Store!Without(stateDocs, {t})
  /\ txn' = [q \in Slots |-> IF txn[q] # NoTxn /\ Spoils(t, {"state"}, q)
                             THEN [txn[q] EXCEPT !.valid = FALSE] ELSE txn[q]]
  /\ UNCHANGED <<tenantDocs, keyDocs, principal, history>>

-----------------------------------------------------------------------------
(* What the thread of a request does with its storage call.                *)
Work(r) ==
  \/ Retry(r) \/ GiveUp(r) \/ Raise(r)
  \/ CreateTenant(r) \/ AddKey(r) \/ RevokeKey(r)
  \/ Transact(r) \/ Read(r) \/ ListKeys(r) \/ DeleteTenant(r)

Next ==
  \/ \E r \in Slots, k \in Keys : Authenticate(r, k)
  \/ \E r \in Slots, t \in Tenants : Operator(r, t)
  \/ \E r \in Slots : Begin(r) \/ Work(r) \/ Crash(r)
  \/ \E t \in Tenants : TimeToLive(t)

(* Threads keep running; nothing else is owed a step.                      *)
Fairness == \A r \in Slots : WF_vars(Work(r))

Spec == Init /\ [][Next]_vars /\ Fairness

-----------------------------------------------------------------------------
Sights == [exists : BOOLEAN, hashes : SUBSET Keys, written : SUBSET Keys]

CallRecords ==
  [op : {"none", "create", "add", "revoke", "transact", "read", "list", "delete"},
   key : Keys \cup {NoKey}, id : {KeyId[k] : k \in Keys} \cup {NoKey},
   scopes : SUBSET SCOPES]

(* Documents and storage calls have their types.                           *)
TypeOK ==
  /\ Store!TypeOK
  /\ \E live \in SUBSET Tenants : tenantDocs \in [live -> SUBSET Keys]
  /\ \E live \in SUBSET Tenants : stateDocs \in [live -> SUBSET Keys]
  /\ txn \in [Slots -> [call : CallRecords, seen : Sights, valid : BOOLEAN,
                        attempt : 0..MAX_ATTEMPTS]]
  /\ \A r \in Slots : txn[r] # NoTxn => principal[r] # Store!Idle

(* A digest is listed in its tenant's metadata exactly when its document   *)
(* exists and names that tenant, and only live tenants have a state: no    *)
(* interleaving of create, add, revoke and delete leaves a key that works  *)
(* without being listed, or listed without working, or orphaned data.      *)
DocumentsAgree ==
  /\ \A t \in DOMAIN tenantDocs : \A k \in tenantDocs[t] :
       k \in DOMAIN keyDocs /\ keyDocs[k].tenant = t
  /\ \A k \in DOMAIN keyDocs :
       keyDocs[k].tenant \in DOMAIN tenantDocs /\ k \in tenantDocs[keyDocs[k].tenant]
  /\ DOMAIN stateDocs \subseteq DOMAIN tenantDocs

(* Retried multi-document transactions look like Accounts' atomic          *)
(* operations: the two stores behind the API make the same promises.       *)
Implements == Store!Spec

(* Every storage call comes to an end, whatever the other requests commit: *)
(* the attempts are bounded.                                               *)
CallsEnd == \A r \in Slots : txn[r] # NoTxn ~> txn[r] = NoTxn
=============================================================================
