--------------------------- MODULE AccountsProofs ---------------------------
(***************************************************************************)
(* Accounts' invariants for every number of tenants, keys and requests.    *)
(* The inductive invariant is the type invariant, the two invariants, and  *)
(* what makes them inductive: a principal whose key is still listed is     *)
(* described by the record that is listed, because a digest is issued once *)
(* and its record never changes.                                           *)
(***************************************************************************)
EXTENDS Accounts, FiniteSetTheorems, TLAPS

(* What is inductive about the principals and the issued digests.          *)
Honest(p) ==
  /\ p.key = NoKey => p.scopes = {}
  /\ p.key \in DOMAIN keys => keys[p.key] = [tenant |-> p.tenant, scopes |-> p.scopes]
  /\ p.key # NoKey => p.key \in DOMAIN lineage

Honesty ==
  /\ DOMAIN keys \subseteq DOMAIN lineage /\ IsFiniteSet(DOMAIN keys)
  /\ \A r \in Slots : Honest(principal[r])

Inv == TypeOK /\ OneIncarnation /\ KeyLimit /\ Honesty

-----------------------------------------------------------------------------
(***************************************************************************)
(* Tables.                                                                 *)
(***************************************************************************)

(* The tables, read off the type invariant.                                *)
LEMMA Tables ==
  ASSUME TypeOK
  PROVE  /\ keys \in [DOMAIN keys -> KeyRecord] /\ DOMAIN keys \subseteq Keys
         /\ lineage \in [DOMAIN lineage -> Tenants \X Nat] /\ DOMAIN lineage \subseteq Keys
  BY DEF TypeOK

(* The principals, read off the type invariant.                            *)
LEMMA PrincipalType ==
  ASSUME TypeOK, NEW r \in Slots
  PROVE  /\ principal[r] \in Principals
         /\ principal[r] # Idle => principal[r] \in
              [tenant : Tenants, key : Keys \cup {NoKey}, scopes : SUBSET SCOPES]
  BY DEF TypeOK, Principals

(* A request that may do something by scope has a key, hence a tenant.     *)
LEMMA AllowedHasKey ==
  ASSUME Inv, NEW r \in Slots, NEW scope, Allowed(r, scope), RequireKey(r)
  PROVE  /\ principal[r] # Idle
         /\ principal[r].tenant \in Tenants /\ principal[r].tenant \in tenants
         /\ principal[r].key \in KeysOf(principal[r].tenant)
         /\ keys[principal[r].key].scopes = principal[r].scopes
<1>1. Honest(principal[r])
  BY DEF Inv, Honesty
<1>2. principal[r].key # NoKey /\ principal[r] # Idle
  <2>1. principal[r].scopes # {}
    BY DEF Allowed
  <2>2. Idle.scopes = {}
    BY DEF Idle
  <2> QED BY <1>1, <2>1, <2>2, Zenon DEF Honest
<1>3. principal[r].tenant \in Tenants
  BY <1>2, PrincipalType DEF Inv
<1>4. principal[r].key \in KeysOf(principal[r].tenant)
  BY <1>2 DEF RequireKey
<1>5. principal[r].tenant \in tenants
  BY <1>3, <1>4 DEF Inv, OneIncarnation
<1>6. keys[principal[r].key].scopes = principal[r].scopes
  BY <1>1, <1>4 DEF Honest, KeysOf
<1> QED BY <1>2, <1>3, <1>4, <1>5, <1>6

(* A fresh digest is nobody's key.                                         *)
LEMMA FreshIsUnlisted ==
  ASSUME Inv, NEW k, k \notin DOMAIN lineage
  PROVE  /\ k \notin DOMAIN keys
         /\ \A t \in Tenants : k \notin KeysOf(t) \cup state[t]
         /\ \A r \in Slots : principal[r].key # k \/ k = NoKey
<1>1. k \notin DOMAIN keys
  BY DEF Inv, Honesty
<1>2. \A t \in Tenants : k \notin KeysOf(t) \cup state[t]
  BY Zenon DEF Inv, OneIncarnation
<1>3. \A r \in Slots : principal[r].key # k \/ k = NoKey
  BY Zenon DEF Inv, Honesty, Honest
<1> QED BY <1>1, <1>2, <1>3

-----------------------------------------------------------------------------
(***************************************************************************)
(* The steps.                                                              *)
(***************************************************************************)

(* There are no tenants, keys or requests.                                 *)
LEMMA InvInit == Init => Inv
<1> SUFFICES ASSUME Init PROVE Inv
  OBVIOUS
<1>1. IsFiniteSet({})
  BY FS_EmptySet
<1>2. KeysOf(CHOOSE t : TRUE) \in SUBSET {} /\ \A t : KeysOf(t) = {}
  BY DEF Init, KeysOf
<1>3. TypeOK
  <2>1. /\ tenants \subseteq Tenants /\ state \in [Tenants -> SUBSET Keys]
        /\ era \in [Tenants -> Nat]
    BY DEF Init
  <2>2. principal \in [Slots -> Principals]
    BY DEF Init, Principals
  <2>3. keys \in [{} -> KeyRecord] /\ lineage \in [{} -> Tenants \X Nat]
    BY DEF Init
  <2>4. {} \in SUBSET Keys
    OBVIOUS
  <2> QED BY <2>1, <2>2, <2>3, <2>4 DEF TypeOK
<1>4. Cardinality({}) <= MAX_KEYS
  BY FS_EmptySet, AccountsAssumption
<1> QED BY <1>1, <1>2, <1>3, <1>4
     DEF Inv, Init, OneIncarnation, KeyLimit, Honesty, Honest, Idle

(* What a reply leaves of the principals.                                  *)
LEMMA AfterReply ==
  ASSUME Inv, NEW r \in Slots, Reply(r)
  PROVE  /\ principal' \in [Slots -> Principals]
         /\ \A q \in Slots : principal'[q] \in {principal[q], Idle}
  BY DEF Inv, TypeOK, Reply, Principals

(* The request only ends or begins: the tables stay as they are.           *)
LEMMA TablesStay ==
  ASSUME Inv, UNCHANGED <<accounts, history>>,
         principal' \in [Slots -> Principals], \A r \in Slots : Honest(principal'[r])
  PROVE  Inv'
<1>1. /\ tenants' = tenants /\ keys' = keys /\ state' = state
      /\ era' = era /\ lineage' = lineage
  BY DEF accounts, history
<1>2. \A t : KeysOf(t)' = KeysOf(t)
  BY <1>1 DEF KeysOf
<1>3. TypeOK'
  BY <1>1 DEF Inv, TypeOK
<1>4. OneIncarnation' /\ KeyLimit'
  BY <1>1, <1>2 DEF Inv, OneIncarnation, KeyLimit
<1>5. Honesty'
  BY <1>1 DEF Inv, Honesty, Honest
<1> QED BY <1>3, <1>4, <1>5 DEF Inv

(* Idle is honest.                                                         *)
LEMMA IdleHonest == ASSUME Inv PROVE Honest(Idle)
  BY Tables, AccountsAssumption DEF Inv, Honest, Idle

(* Authentication describes a key as it is listed.                         *)
LEMMA AuthenticateStep ==
  ASSUME Inv, NEW r \in Slots, NEW k \in Keys, Authenticate(r, k)
  PROVE  Inv'
<1> DEFINE p == [tenant |-> keys[k].tenant, key |-> k, scopes |-> keys[k].scopes]
<1>1. keys[k] \in KeyRecord /\ k \in DOMAIN keys /\ k # NoKey
  BY Tables, AccountsAssumption DEF Inv, Authenticate
<1>2. p \in Principals
  BY <1>1 DEF Principals, KeyRecord
<1>3. Honest(p)
  BY <1>1 DEF Honest, Inv, Honesty, KeyRecord
<1>4. /\ principal' \in [Slots -> Principals]
      /\ \A q \in Slots : principal'[q] \in {principal[q], p}
  BY <1>2 DEF Inv, TypeOK, Authenticate
<1>5. \A q \in Slots : Honest(principal'[q])
  BY <1>3, <1>4 DEF Inv, Honesty
<1> QED BY <1>4, <1>5, TablesStay DEF Authenticate

(* A call of the operator has no key, hence nothing to be honest about.    *)
LEMMA OperatorStep ==
  ASSUME Inv, NEW r \in Slots, NEW t \in Tenants, Operator(r, t)
  PROVE  Inv'
<1> DEFINE p == [tenant |-> t, key |-> NoKey, scopes |-> {}]
<1>1. p \in Principals
  BY DEF Principals
<1>2. Honest(p)
  BY Tables, AccountsAssumption DEF Honest, Inv
<1>3. /\ principal' \in [Slots -> Principals]
      /\ \A q \in Slots : principal'[q] \in {principal[q], p}
  BY <1>1 DEF Inv, TypeOK, Operator
<1>4. \A q \in Slots : Honest(principal'[q])
  BY <1>2, <1>3 DEF Inv, Honesty
<1> QED BY <1>3, <1>4, TablesStay DEF Operator

(* A refused request leaves.                                               *)
LEMMA RefuseStep ==
  ASSUME Inv, NEW r \in Slots, Reply(r), UNCHANGED <<accounts, history>>
  PROVE  Inv'
<1>1. \A q \in Slots : Honest(principal'[q])
  BY AfterReply, IdleHonest DEF Inv, Honesty
<1> QED BY <1>1, AfterReply, TablesStay

(* Part of the tables stays: what is needed of the principals then.        *)
LEMMA HonestyKept ==
  ASSUME Inv, NEW r \in Slots, Reply(r),
         DOMAIN lineage \subseteq DOMAIN lineage',
         \A k \in DOMAIN lineage : k \in DOMAIN keys' => k \in DOMAIN keys /\ keys'[k] = keys[k],
         NoKey \notin DOMAIN keys',
         DOMAIN keys' \subseteq DOMAIN lineage', IsFiniteSet(DOMAIN keys')
  PROVE  Honesty'
<1> SUFFICES ASSUME NEW q \in Slots PROVE Honest(principal[q])'
  BY DEF Honesty
<1>1. CASE principal'[q] = Idle
  <2>1. Idle.key = NoKey /\ Idle.scopes = {}
    BY DEF Idle
  <2> QED BY <1>1, <2>1 DEF Honest
<1>2. CASE principal'[q] = principal[q]
  <2>1. Honest(principal[q])
    BY DEF Inv, Honesty
  <2> QED BY <1>2, <2>1 DEF Honest
<1> QED BY <1>1, <1>2, AfterReply

(* A tenant's keys are finitely many.                                      *)
LEMMA KeysOfFinite == ASSUME Inv, NEW t PROVE IsFiniteSet(KeysOf(t))
  BY FS_Subset DEF Inv, Honesty, KeysOf

(* Issuing a fresh digest to a tenant of the present era.                  *)
LEMMA IssueStep ==
  ASSUME Inv, NEW t \in Tenants, NEW k \in Keys, NEW scopes \in SUBSET SCOPES,
         NEW n \in Nat, Issue(t, k, scopes), lineage' = With(lineage, k, <<t, n>>)
  PROVE  /\ keys' \in [DOMAIN keys \cup {k} -> KeyRecord]
         /\ lineage' \in [DOMAIN lineage \cup {k} -> Tenants \X Nat]
         /\ KeysOf(t)' = KeysOf(t) \cup {k}
         /\ \A u \in Tenants \ {t} : KeysOf(u)' = KeysOf(u)
         /\ lineage'[k] = <<t, n>>
         /\ \A j \in DOMAIN lineage : lineage'[j] = lineage[j]
         /\ \A j \in DOMAIN lineage : j \in DOMAIN keys' => j \in DOMAIN keys /\ keys'[j] = keys[j]
         /\ DOMAIN keys' \subseteq DOMAIN lineage' /\ IsFiniteSet(DOMAIN keys')
         /\ NoKey \notin DOMAIN keys'
         /\ keys'[k] = [tenant |-> t, scopes |-> scopes]
<1> DEFINE row == [tenant |-> t, scopes |-> scopes]
<1>1. /\ keys \in [DOMAIN keys -> KeyRecord] /\ DOMAIN keys \subseteq Keys
      /\ lineage \in [DOMAIN lineage -> Tenants \X Nat]
      /\ DOMAIN keys \subseteq DOMAIN lineage
      /\ IsFiniteSet(DOMAIN keys)
  BY Tables DEF Inv, Honesty
<1>2. k \notin DOMAIN lineage /\ keys' = With(keys, k, row)
  BY DEF Issue
<1>3. row \in KeyRecord
  BY DEF KeyRecord
<1>4. /\ keys' \in [DOMAIN keys \cup {k} -> KeyRecord] /\ keys'[k] = row
      /\ \A j \in DOMAIN keys : j # k => keys'[j] = keys[j]
  <2> HIDE DEF row
  <2> QED BY <1>1, <1>2, <1>3 DEF With
<1>5. /\ lineage' \in [DOMAIN lineage \cup {k} -> Tenants \X Nat] /\ lineage'[k] = <<t, n>>
      /\ \A j \in DOMAIN lineage : j # k => lineage'[j] = lineage[j]
  <2>1. <<t, n>> \in Tenants \X Nat
    OBVIOUS
  <2> QED BY <1>1, <2>1 DEF With
<1>6. KeysOf(t)' = KeysOf(t) \cup {k} /\ \A u \in Tenants \ {t} : KeysOf(u)' = KeysOf(u)
  BY <1>1, <1>2, <1>4 DEF KeysOf
<1>7. IsFiniteSet(DOMAIN keys')
  BY <1>1, <1>4, FS_AddElement
<1>8. \A j \in DOMAIN lineage : lineage'[j] = lineage[j]
  BY <1>2, <1>5
<1>9. DOMAIN keys' \subseteq DOMAIN lineage' /\ NoKey \notin DOMAIN keys'
  BY <1>1, <1>4, <1>5, AccountsAssumption
<1>a. /\ keys' \in [DOMAIN keys \cup {k} -> KeyRecord]
      /\ keys'[k] = [tenant |-> t, scopes |-> scopes]
  BY <1>4
<1>b. /\ lineage' \in [DOMAIN lineage \cup {k} -> Tenants \X Nat]
      /\ lineage'[k] = <<t, n>>
  BY <1>5
<1>c. /\ KeysOf(t)' = KeysOf(t) \cup {k}
      /\ \A u \in Tenants \ {t} : KeysOf(u)' = KeysOf(u)
  BY <1>6
<1>e. \A j \in DOMAIN lineage : j \in DOMAIN keys' => j \in DOMAIN keys /\ keys'[j] = keys[j]
  BY <1>2, <1>4
<1> QED BY <1>a, <1>b, <1>c, <1>8, <1>e, <1>7, <1>9

(* A new era begins, of a tenant that has neither keys nor state.          *)
LEMMA CreateTenantStep ==
  ASSUME Inv, NEW r \in Slots, NEW k \in Keys, CreateTenant(r, k)
  PROVE  Inv'
<1>0. principal[r].tenant \in Tenants /\ era[principal[r].tenant] + 1 \in Nat
  <2>1. principal[r] # Idle
    BY DEF CreateTenant, ByOperator
  <2> QED BY <2>1, PrincipalType DEF Inv, TypeOK
<1> PICK t \in Tenants : t = principal[r].tenant
  BY <1>0
<1> PICK n \in Nat : n = era[t] + 1
  BY <1>0
<1>1. /\ t \notin tenants /\ Issue(t, k, SCOPES) /\ Reply(r)
      /\ tenants' = tenants \cup {t} /\ state' = [state EXCEPT ![t] = {}]
      /\ era' = [era EXCEPT ![t] = n] /\ lineage' = With(lineage, k, <<t, n>>)
  BY DEF CreateTenant
<1>2. era \in [Tenants -> Nat] /\ state \in [Tenants -> SUBSET Keys]
  BY DEF Inv, TypeOK
<1>3. KeysOf(t) = {} /\ state[t] = {}
  BY <1>1 DEF Inv, OneIncarnation
<1>4. /\ keys' \in [DOMAIN keys \cup {k} -> KeyRecord]
      /\ lineage' \in [DOMAIN lineage \cup {k} -> Tenants \X Nat]
      /\ KeysOf(t)' = {k}
      /\ \A u \in Tenants \ {t} : KeysOf(u)' = KeysOf(u)
      /\ lineage'[k] = <<t, n>> /\ \A j \in DOMAIN lineage : lineage'[j] = lineage[j]
  <2>1. SCOPES \in SUBSET SCOPES
    OBVIOUS
  <2>2. Issue(t, k, SCOPES) /\ lineage' = With(lineage, k, <<t, n>>)
    BY <1>1
  <2>3. KeysOf(t)' = KeysOf(t) \cup {k}
    BY <2>1, <2>2, IssueStep
  <2>4. keys' \in [DOMAIN keys \cup {k} -> KeyRecord]
    BY <2>1, <2>2, IssueStep
  <2>7. lineage' \in [DOMAIN lineage \cup {k} -> Tenants \X Nat]
    BY <2>1, <2>2, IssueStep
  <2>8. lineage'[k] = <<t, n>>
    BY <2>2 DEF With
  <2>5. \A u \in Tenants \ {t} : KeysOf(u)' = KeysOf(u)
    BY <2>1, <2>2, IssueStep
  <2>6. \A j \in DOMAIN lineage : lineage'[j] = lineage[j]
    BY <2>1, <2>2, IssueStep
  <2> QED BY <1>3, <2>3, <2>4, <2>5, <2>6, <2>7, <2>8
<1>5. Honesty'
  <2>1. DOMAIN lineage \subseteq DOMAIN lineage'
    BY <1>4
  <2> QED BY <1>1, <2>1, IssueStep, HonestyKept
<1>6. TypeOK'
  <2>1. tenants' \subseteq Tenants /\ state' \in [Tenants -> SUBSET Keys] /\ era' \in [Tenants -> Nat]
    BY <1>1, <1>2 DEF Inv, TypeOK
  <2>2. DOMAIN keys \cup {k} \in SUBSET Keys /\ DOMAIN lineage \cup {k} \in SUBSET Keys
    BY Tables DEF Inv
  <2> QED BY <1>1, <1>4, <2>1, <2>2, AfterReply DEF TypeOK
<1>7. OneIncarnation'
  <2> SUFFICES ASSUME NEW u \in Tenants
               PROVE  /\ u \notin tenants' => KeysOf(u)' = {} /\ state'[u] = {}
                      /\ \A j \in KeysOf(u)' \cup state'[u] :
                           j \in DOMAIN lineage' /\ lineage'[j] = <<u, era'[u]>>
    BY DEF OneIncarnation
  <2>1. CASE u = t
    BY <1>1, <1>2, <1>4, <2>1
  <2>2. CASE u # t
    <3>1. /\ KeysOf(u)' = KeysOf(u) /\ state'[u] = state[u] /\ era'[u] = era[u]
          /\ u \in tenants' <=> u \in tenants
      BY <1>1, <1>2, <1>4, <2>2
    <3>2. /\ u \notin tenants => KeysOf(u) = {} /\ state[u] = {}
          /\ \A j \in KeysOf(u) \cup state[u] :
               j \in DOMAIN lineage /\ lineage[j] = <<u, era[u]>>
      BY DEF Inv, OneIncarnation
    <3> QED BY <1>4, <3>1, <3>2
  <2> QED BY <2>1, <2>2
<1>8. KeyLimit'
  <2> SUFFICES ASSUME NEW u \in Tenants
               PROVE  /\ Cardinality(KeysOf(u)') <= MAX_KEYS
                      /\ \A i, j \in KeysOf(u)' : KeyId[i] = KeyId[j] => i = j
    BY DEF KeyLimit
  <2>1. CASE u = t
    <3>1. Cardinality({k}) = 1
      BY FS_Singleton
    <3>2. KeysOf(u)' = {k}
      BY <1>4, <2>1
    <3>3. Cardinality(KeysOf(u)') <= MAX_KEYS
      BY <3>1, <3>2, AccountsAssumption
    <3> QED BY <3>2, <3>3
  <2>2. CASE u # t
    BY <1>4, <2>2 DEF Inv, KeyLimit
  <2> QED BY <2>1, <2>2
<1> QED BY <1>5, <1>6, <1>7, <1>8 DEF Inv

(* A key is added below the limit, with a key_id of its own.               *)
LEMMA AddKeyStep ==
  ASSUME Inv, NEW r \in Slots, NEW k \in Keys, NEW scopes \in SUBSET SCOPES,
         AddKey(r, k, scopes)
  PROVE  Inv'
<1>0. principal[r].tenant \in Tenants /\ era[principal[r].tenant] \in Nat
  <2>1. Allowed(r, "manage") /\ RequireKey(r)
    BY DEF AddKey
  <2> QED BY <2>1, AllowedHasKey DEF Inv, TypeOK
<1> PICK t \in Tenants : t = principal[r].tenant
  BY <1>0
<1> PICK n \in Nat : n = era[t]
  BY <1>0
<1>1. /\ Issue(t, k, scopes) /\ Reply(r) /\ lineage' = With(lineage, k, <<t, n>>)
      /\ tenants' = tenants /\ state' = state /\ era' = era
      /\ HasRoom(KeysOf(t)) /\ \A other \in KeysOf(t) : KeyId[other] # KeyId[k]
      /\ t \in tenants
  BY DEF AddKey, RequireTenant
<1>4. /\ keys' \in [DOMAIN keys \cup {k} -> KeyRecord]
      /\ lineage' \in [DOMAIN lineage \cup {k} -> Tenants \X Nat]
      /\ KeysOf(t)' = KeysOf(t) \cup {k}
      /\ \A u \in Tenants \ {t} : KeysOf(u)' = KeysOf(u)
      /\ lineage'[k] = <<t, n>> /\ \A j \in DOMAIN lineage : lineage'[j] = lineage[j]
  <2>1. Issue(t, k, scopes) /\ lineage' = With(lineage, k, <<t, n>>)
    BY <1>1
  <2>2. keys' \in [DOMAIN keys \cup {k} -> KeyRecord]
    BY <2>1, IssueStep
  <2>5. lineage' \in [DOMAIN lineage \cup {k} -> Tenants \X Nat]
    BY <2>1, IssueStep
  <2>6. lineage'[k] = <<t, n>>
    BY <2>1 DEF With
  <2>3. KeysOf(t)' = KeysOf(t) \cup {k} /\ \A u \in Tenants \ {t} : KeysOf(u)' = KeysOf(u)
    BY <2>1, IssueStep
  <2>4. \A j \in DOMAIN lineage : lineage'[j] = lineage[j]
    BY <2>1, IssueStep
  <2> QED BY <2>2, <2>3, <2>4, <2>5, <2>6
<1>5. Honesty'
  <2>1. DOMAIN lineage \subseteq DOMAIN lineage'
    BY <1>4
  <2> QED BY <1>1, <2>1, IssueStep, HonestyKept
<1>6. TypeOK'
  <2>1. DOMAIN keys \cup {k} \in SUBSET Keys /\ DOMAIN lineage \cup {k} \in SUBSET Keys
    BY Tables DEF Inv
  <2> QED BY <1>1, <1>4, <2>1, AfterReply DEF Inv, TypeOK
<1>7. OneIncarnation'
  <2> SUFFICES ASSUME NEW u \in Tenants
               PROVE  /\ u \notin tenants => KeysOf(u)' = {} /\ state[u] = {}
                      /\ \A j \in KeysOf(u)' \cup state[u] :
                           j \in DOMAIN lineage' /\ lineage'[j] = <<u, era[u]>>
    BY <1>1 DEF OneIncarnation
  <2>1. /\ u \notin tenants => KeysOf(u) = {} /\ state[u] = {}
        /\ \A j \in KeysOf(u) \cup state[u] :
             j \in DOMAIN lineage /\ lineage[j] = <<u, era[u]>>
    BY DEF Inv, OneIncarnation
  <2>2. CASE u = t
    BY <1>1, <1>4, <2>1, <2>2
  <2>3. CASE u # t
    BY <1>4, <2>1, <2>3
  <2> QED BY <2>2, <2>3
<1>8. KeyLimit'
  <2> SUFFICES ASSUME NEW u \in Tenants
               PROVE  /\ Cardinality(KeysOf(u)') <= MAX_KEYS
                      /\ \A i, j \in KeysOf(u)' : KeyId[i] = KeyId[j] => i = j
    BY DEF KeyLimit
  <2>1. \A i, j \in KeysOf(u) : KeyId[i] = KeyId[j] => i = j
    BY DEF Inv, KeyLimit
  <2>2. CASE u = t
    <3>1. /\ Cardinality(KeysOf(t)) \in Nat
          /\ Cardinality(KeysOf(t) \cup {k}) <= Cardinality(KeysOf(t)) + 1
      <4>1. IsFiniteSet(KeysOf(t))
        BY KeysOfFinite
      <4>2. Cardinality(KeysOf(t)) \in Nat
        BY <4>1, FS_CardinalityType
      <4>3. \/ Cardinality(KeysOf(t) \cup {k}) = Cardinality(KeysOf(t))
            \/ Cardinality(KeysOf(t) \cup {k}) = Cardinality(KeysOf(t)) + 1
        BY <4>1, FS_AddElement
      <4> QED BY <4>2, <4>3
    <3>2. k \notin KeysOf(t)
      BY <1>1
    <3>3. Cardinality(KeysOf(t) \cup {k}) \in Nat
      BY KeysOfFinite, FS_AddElement, FS_CardinalityType
    <3>4. Cardinality(KeysOf(t)) + 1 <= MAX_KEYS
      BY <1>1, <3>1, AccountsAssumption DEF HasRoom
    <3>5. KeysOf(u)' = KeysOf(t) \cup {k}
      BY <1>4, <2>2
    <3>6. Cardinality(KeysOf(u)') <= MAX_KEYS
      BY <3>1, <3>3, <3>4, <3>5, AccountsAssumption
    <3>7. \A i, j \in KeysOf(u)' : KeyId[i] = KeyId[j] => i = j
      BY <1>1, <2>1, <2>2, <3>5
    <3> QED BY <3>6, <3>7
  <2>3. CASE u # t
    BY <1>4, <2>3 DEF Inv, KeyLimit
  <2> QED BY <2>2, <2>3
<1> QED BY <1>5, <1>6, <1>7, <1>8 DEF Inv

(* Keys go away, and state may: revocation, deletion, expiry, and the row  *)
(* read_state finds expired.                                               *)
LEMMA ShrinkStep ==
  ASSUME Inv, NEW gone,
         keys' = Without(keys, gone), UNCHANGED history,
         tenants' \subseteq tenants,
         state' \in [Tenants -> SUBSET Keys], \A t \in Tenants : state'[t] \subseteq state[t],
         \A t \in tenants \ tenants' : KeysOf(t) \subseteq gone /\ state'[t] = {},
         \/ UNCHANGED principal
         \/ \E r \in Slots : Reply(r)
  PROVE  Inv'
<1>1. /\ keys \in [DOMAIN keys -> KeyRecord] /\ DOMAIN keys \subseteq Keys
      /\ IsFiniteSet(DOMAIN keys) /\ DOMAIN keys \subseteq DOMAIN lineage
  BY Tables DEF Inv, Honesty
<1>2. /\ keys' \in [DOMAIN keys \ gone -> KeyRecord]
      /\ \A k \in DOMAIN keys \ gone : keys'[k] = keys[k]
  BY <1>1 DEF Without
<1>3. era' = era /\ lineage' = lineage
  BY DEF history
<1>4. \A t : KeysOf(t)' = KeysOf(t) \ gone
  BY <1>1, <1>2 DEF KeysOf
<1>5. IsFiniteSet(DOMAIN keys')
  BY <1>1, <1>2, FS_Subset
<1>6. Honesty'
  <2>1. CASE UNCHANGED principal
    <3> SUFFICES ASSUME NEW q \in Slots PROVE Honest(principal[q])'
      BY <1>1, <1>2, <1>3, <1>5 DEF Honesty
    <3>1. Honest(principal[q])
      BY DEF Inv, Honesty
    <3> QED BY <1>2, <1>3, <2>1, <3>1 DEF Honest
  <2>2. CASE \E r \in Slots : Reply(r)
    BY <1>1, <1>2, <1>3, <1>5, <2>2, HonestyKept, AccountsAssumption
  <2> QED BY <2>1, <2>2
<1>7. TypeOK'
  <2>1. principal' \in [Slots -> Principals]
    BY AfterReply DEF Inv, TypeOK
  <2>2. DOMAIN keys \ gone \in SUBSET Keys
    BY <1>1
  <2> QED BY <1>2, <1>3, <2>1, <2>2 DEF Inv, TypeOK
<1>8. OneIncarnation'
  <2> SUFFICES ASSUME NEW t \in Tenants
               PROVE  /\ t \notin tenants' => KeysOf(t)' = {} /\ state'[t] = {}
                      /\ \A k \in KeysOf(t)' \cup state'[t] :
                           k \in DOMAIN lineage /\ lineage[k] = <<t, era[t]>>
    BY <1>3 DEF OneIncarnation
  <2>1. /\ t \notin tenants => KeysOf(t) = {} /\ state[t] = {}
        /\ \A k \in KeysOf(t) \cup state[t] :
             k \in DOMAIN lineage /\ lineage[k] = <<t, era[t]>>
    BY DEF Inv, OneIncarnation
  <2>2. KeysOf(t)' \subseteq KeysOf(t) /\ state'[t] \subseteq state[t]
    BY <1>4
  <2>3. t \in tenants \ tenants' => KeysOf(t)' = {} /\ state'[t] = {}
    BY <1>4
  <2> QED BY <2>1, <2>2, <2>3
<1>9. KeyLimit'
  <2> SUFFICES ASSUME NEW t \in Tenants
               PROVE  /\ Cardinality(KeysOf(t)') <= MAX_KEYS
                      /\ \A i, j \in KeysOf(t)' : KeyId[i] = KeyId[j] => i = j
    BY DEF KeyLimit
  <2>1. /\ Cardinality(KeysOf(t)) <= MAX_KEYS
        /\ \A i, j \in KeysOf(t) : KeyId[i] = KeyId[j] => i = j
    BY DEF Inv, KeyLimit
  <2>2. KeysOf(t)' \subseteq KeysOf(t)
    BY <1>4
  <2>3. /\ Cardinality(KeysOf(t)') <= Cardinality(KeysOf(t))
        /\ Cardinality(KeysOf(t)') \in Nat /\ Cardinality(KeysOf(t)) \in Nat
    BY <2>2, KeysOfFinite, FS_Subset, FS_CardinalityType
  <2> QED BY <2>1, <2>2, <2>3, AccountsAssumption
<1> QED BY <1>6, <1>7, <1>8, <1>9 DEF Inv

(* transact adds the key that sent the batch to the tenant's state.        *)
LEMMA TransactStep ==
  ASSUME Inv, NEW r \in Slots, Transact(r)
  PROVE  Inv'
<1>0. /\ principal[r].tenant \in Tenants /\ principal[r].tenant \in tenants
      /\ principal[r].key \in KeysOf(principal[r].tenant)
  BY AllowedHasKey DEF Transact
<1> PICK t \in Tenants : t = principal[r].tenant
  BY <1>0
<1> PICK w : w = principal[r].key
  OBVIOUS
<1>1. /\ t \in tenants /\ w \in KeysOf(t)
      /\ state' = [state EXCEPT ![t] = @ \cup {w}]
      /\ tenants' = tenants /\ keys' = keys /\ era' = era /\ lineage' = lineage /\ Reply(r)
  BY <1>0 DEF Transact, history
<1>2. \A u : KeysOf(u)' = KeysOf(u)
  BY <1>1 DEF KeysOf
<1>3. /\ keys \in [DOMAIN keys -> KeyRecord] /\ DOMAIN keys \subseteq Keys
      /\ state \in [Tenants -> SUBSET Keys]
  BY Tables DEF Inv, TypeOK
<1>4. w \in Keys
  BY <1>1, <1>3 DEF KeysOf
<1>5. state' \in [Tenants -> SUBSET Keys]
  BY <1>1, <1>3, <1>4
<1>6. TypeOK'
  BY <1>1, <1>5, AfterReply DEF Inv, TypeOK
<1>7. OneIncarnation'
  <2> SUFFICES ASSUME NEW u \in Tenants
               PROVE  /\ u \notin tenants => KeysOf(u) = {} /\ state'[u] = {}
                      /\ \A k \in KeysOf(u) \cup state'[u] :
                           k \in DOMAIN lineage /\ lineage[k] = <<u, era[u]>>
    BY <1>1, <1>2 DEF OneIncarnation
  <2>1. /\ u \notin tenants => KeysOf(u) = {} /\ state[u] = {}
        /\ \A k \in KeysOf(u) \cup state[u] :
             k \in DOMAIN lineage /\ lineage[k] = <<u, era[u]>>
    BY DEF Inv, OneIncarnation
  <2>2. CASE u = t
    <3>1. state'[u] \subseteq KeysOf(u) \cup state[u]
      BY <1>1, <1>3, <2>2
    <3> QED BY <1>1, <2>1, <2>2, <3>1
  <2>3. CASE u # t
    <3>1. state'[u] = state[u]
      BY <1>1, <1>3, <2>3
    <3> QED BY <2>1, <3>1
  <2> QED BY <2>2, <2>3
<1>8. KeyLimit'
  BY <1>2 DEF Inv, KeyLimit
<1>9. Honesty'
  <2>1. DOMAIN keys \subseteq DOMAIN lineage /\ IsFiniteSet(DOMAIN keys)
    BY DEF Inv, Honesty
  <2>2. NoKey \notin DOMAIN keys
    BY <1>3, AccountsAssumption
  <2> QED BY <1>1, <2>1, <2>2, HonestyKept
<1> QED BY <1>6, <1>7, <1>8, <1>9 DEF Inv

(* Revocation takes keys of one tenant away.                               *)
LEMMA RevokeKeyStep ==
  ASSUME Inv, NEW r \in Slots, NEW id, RevokeKey(r, id)
  PROVE  Inv'
<1> PICK gone : gone = {k \in KeysOf(principal[r].tenant) : KeyId[k] = id}
  OBVIOUS
<1>1. /\ keys' = Without(keys, gone) /\ Reply(r)
      /\ tenants' = tenants /\ state' = state /\ UNCHANGED history
  BY DEF RevokeKey
<1>2. state \in [Tenants -> SUBSET Keys]
  BY DEF Inv, TypeOK
<1>3. \A t \in tenants \ tenants' : KeysOf(t) \subseteq gone /\ state'[t] = {}
  BY <1>1
<1> QED BY <1>1, <1>2, <1>3, ShrinkStep

(* Deletion takes all keys of one tenant and its state away.               *)
LEMMA DeleteTenantStep ==
  ASSUME Inv, NEW r \in Slots, DeleteTenant(r)
  PROVE  Inv'
<1> PICK t : t = principal[r].tenant
  OBVIOUS
<1> PICK gone : gone = KeysOf(t)
  OBVIOUS
<1>1. /\ keys' = Without(keys, gone) /\ Reply(r)
      /\ tenants' = tenants \ {t} /\ state' = [state EXCEPT ![t] = {}] /\ UNCHANGED history
  BY DEF DeleteTenant
<1>2. state \in [Tenants -> SUBSET Keys] /\ tenants \subseteq Tenants
  BY DEF Inv, TypeOK
<1>3. /\ state' \in [Tenants -> SUBSET Keys]
      /\ \A u \in Tenants : state'[u] \subseteq state[u]
  BY <1>1, <1>2
<1>4. \A u \in tenants \ tenants' : KeysOf(u) \subseteq gone /\ state'[u] = {}
  BY <1>1, <1>2
<1>5. tenants' \subseteq tenants
  BY <1>1
<1> QED BY <1>1, <1>3, <1>4, <1>5, ShrinkStep

(* An expired row goes: by read_state, with the request's reply, or by     *)
(* purge_expired.                                                          *)
LEMMA StateGoesStep ==
  ASSUME Inv, NEW t, state' \in {state, [state EXCEPT ![t] = {}]},
         UNCHANGED <<tenants, keys, history>>,
         UNCHANGED principal \/ \E r \in Slots : Reply(r)
  PROVE  Inv'
<1>1. keys' = Without(keys, {})
  <2>1. keys = [k \in DOMAIN keys |-> keys[k]]
    BY Tables DEF Inv
  <2>2. DOMAIN keys \ {} = DOMAIN keys
    OBVIOUS
  <2> QED BY <2>1, <2>2 DEF Without
<1>2. state \in [Tenants -> SUBSET Keys]
  BY DEF Inv, TypeOK
<1>3. /\ state' \in [Tenants -> SUBSET Keys]
      /\ \A u \in Tenants : state'[u] \subseteq state[u]
  BY <1>2
<1>4. tenants' \subseteq tenants /\ UNCHANGED history
  OBVIOUS
<1>5. \A u \in tenants \ tenants' : KeysOf(u) \subseteq {} /\ state'[u] = {}
  OBVIOUS
<1> QED BY <1>1, <1>3, <1>4, <1>5, ShrinkStep

-----------------------------------------------------------------------------
(***************************************************************************)
(* The theorems.                                                           *)
(***************************************************************************)

(* Every step keeps the inductive invariant.                               *)
LEMMA InvNext == Inv /\ [Next]_vars => Inv'
<1> SUFFICES ASSUME Inv, [Next]_vars PROVE Inv'
  OBVIOUS
<1>1. ASSUME NEW r \in Slots, NEW k \in Keys, Authenticate(r, k) PROVE Inv'
  BY <1>1, AuthenticateStep
<1>2. ASSUME NEW r \in Slots, NEW k \in Keys, CreateTenant(r, k) PROVE Inv'
  BY <1>2, CreateTenantStep
<1>3. ASSUME NEW r \in Slots, NEW k \in Keys, RevokeKey(r, KeyId[k]) PROVE Inv'
  BY <1>3, RevokeKeyStep
<1>4. ASSUME NEW r \in Slots, NEW k \in Keys, NEW scopes \in SUBSET SCOPES, AddKey(r, k, scopes)
      PROVE  Inv'
  BY <1>4, AddKeyStep
<1>5. ASSUME NEW r \in Slots, NEW t \in Tenants, Operator(r, t) PROVE Inv'
  BY <1>5, OperatorStep
<1>6. ASSUME NEW r \in Slots, Refuse(r) PROVE Inv'
  BY <1>6, RefuseStep DEF Refuse
<1>7. ASSUME NEW r \in Slots, ListKeys(r) PROVE Inv'
  BY <1>7, RefuseStep DEF ListKeys
<1>8. ASSUME NEW r \in Slots, Transact(r) PROVE Inv'
  BY <1>8, TransactStep
<1>9. ASSUME NEW r \in Slots, Read(r) PROVE Inv'
  BY <1>9, StateGoesStep DEF Read
<1>10. ASSUME NEW r \in Slots, DeleteTenant(r) PROVE Inv'
  BY <1>10, DeleteTenantStep
<1>11. ASSUME NEW t \in Tenants, Expire(t) PROVE Inv'
  <2>1. /\ state' \in {state, [state EXCEPT ![t] = {}]}
        /\ UNCHANGED <<tenants, keys, history>> /\ UNCHANGED principal
    BY <1>11 DEF Expire
  <2> QED BY <2>1, StateGoesStep
<1>12. CASE UNCHANGED vars
  <2>1. UNCHANGED <<accounts, history>> /\ UNCHANGED principal
    BY <1>12 DEF vars
  <2>2. principal' \in [Slots -> Principals] /\ \A r \in Slots : Honest(principal'[r])
    BY <2>1 DEF Inv, TypeOK, Honesty
  <2> QED BY <2>1, <2>2, TablesStay
<1>13. CASE \E r \in Slots, k \in Keys :
              Authenticate(r, k) \/ CreateTenant(r, k) \/ RevokeKey(r, KeyId[k])
  BY <1>1, <1>2, <1>3, <1>13
<1>14. CASE \E r \in Slots : Refuse(r) \/ Transact(r) \/ Read(r) \/ ListKeys(r) \/ DeleteTenant(r)
  BY <1>6, <1>7, <1>8, <1>9, <1>10, <1>14
<1> QED BY <1>4, <1>5, <1>11, <1>12, <1>13, <1>14 DEF Next, Step

(* The inductive invariant holds.                                          *)
LEMMA Invariance == Spec => []Inv
  BY InvInit, InvNext, PTL DEF Spec

(* The tables and principals keep their types (storage.py, api.py).        *)
THEOREM TypeCorrect == Spec => []TypeOK
<1>1. Inv => TypeOK
  BY DEF Inv
<1> QED BY <1>1, Invariance, PTL

(* A tenant's keys and writes are of its present incarnation: the second   *)
(* look at expected_key_hash keeps old requests out of a tenant that has   *)
(* taken a deleted ID (_require_key, delete_tenant's cascade).             *)
THEOREM IncarnationCorrect == Spec => []OneIncarnation
<1>1. Inv => OneIncarnation
  BY DEF Inv
<1> QED BY <1>1, Invariance, PTL

(* No interleaving of add_key calls exceeds MAX_ACTIVE_KEYS or gives two   *)
(* keys of a tenant one key_id.                                            *)
THEOREM KeyLimitCorrect == Spec => []KeyLimit
<1>1. Inv => KeyLimit
  BY DEF Inv
<1> QED BY <1>1, Invariance, PTL

-----------------------------------------------------------------------------
(* A tenant whose tables a step leaves alone needs nobody's right.         *)
LEMMA UntouchedTenant ==
  ASSUME NEW t \in Tenants, t \in tenants' <=> t \in tenants,
         KeysOf(t)' = KeysOf(t), state'[t] = state[t]
  PROVE  AddedByRight(t) /\ RemovedByRight(t)
  BY DEF AddedByRight, RemovedByRight

LEMMA UntouchedTables == ASSUME UNCHANGED accounts PROVE Authorised
<1>1. ASSUME NEW t \in Tenants PROVE AddedByRight(t) /\ RemovedByRight(t)
  <2>1. KeysOf(t)' = KeysOf(t) /\ tenants' = tenants /\ state'[t] = state[t]
    BY DEF accounts, KeysOf
  <2> QED BY <2>1, UntouchedTenant
<1> QED BY <1>1 DEF Authorised

(* A request that is answered acts for its tenant, and one that passed     *)
(* require and _require_key holds the scope.                               *)
LEMMA AnsweredActs ==
  ASSUME Inv, NEW r \in Slots, principal[r] # Idle, Reply(r)
  PROVE  principal[r].tenant \in Tenants /\ Acts(r, principal[r].tenant)
<1>1. principal \in [Slots -> Principals]
  BY DEF Inv, TypeOK
<1>2. principal[r].tenant \in Tenants
  BY PrincipalType DEF Inv
<1> QED BY <1>1, <1>2 DEF Acts, Reply

LEMMA AllowedHolds ==
  ASSUME Inv, NEW r \in Slots, NEW scope, Allowed(r, scope), RequireKey(r)
  PROVE  principal[r] # Idle /\ Holds(r, scope)
  BY AllowedHasKey DEF Allowed, Holds

LEMMA TransactByRight == ASSUME Inv, NEW r \in Slots, Transact(r) PROVE Authorised
<1>1. state \in [Tenants -> SUBSET Keys]
  BY DEF Inv, TypeOK
<1>2. principal[r] # Idle /\ Holds(r, "ingest")
  BY AllowedHolds DEF Transact
<1>3. principal[r].tenant \in Tenants /\ Acts(r, principal[r].tenant)
  BY <1>2, AnsweredActs DEF Transact
<1> PICK own \in Tenants : own = principal[r].tenant
  BY <1>3
<1>4. /\ tenants' = tenants /\ \A t : KeysOf(t)' = KeysOf(t)
      /\ state' = [state EXCEPT ![own] = @ \cup {principal[r].key}]
  BY DEF Transact, KeysOf
<1>5. ASSUME NEW t \in Tenants, t # own PROVE AddedByRight(t) /\ RemovedByRight(t)
  BY <1>1, <1>4, <1>5, UntouchedTenant
<1>6. state'[own] = state[own] \cup {principal[r].key}
  BY <1>1, <1>4
<1>7. AddedByRight(own)
  BY <1>2, <1>3, <1>4, <1>6 DEF AddedByRight
<1>8. RemovedByRight(own)
  BY <1>4, <1>6 DEF RemovedByRight
<1> QED BY <1>5, <1>7, <1>8 DEF Authorised

LEMMA CreateByRight ==
  ASSUME Inv, NEW r \in Slots, NEW k \in Keys, CreateTenant(r, k) PROVE Authorised
<1>1. /\ keys \in [DOMAIN keys -> KeyRecord] /\ state \in [Tenants -> SUBSET Keys]
  BY Tables DEF Inv, TypeOK
<1>2. /\ principal[r].tenant \in Tenants /\ Acts(r, principal[r].tenant) /\ ByOperator(r)
  BY AnsweredActs DEF CreateTenant, ByOperator
<1> PICK own \in Tenants : own = principal[r].tenant
  BY <1>2
<1>3. /\ own \notin tenants /\ tenants' = tenants \cup {own}
      /\ state' = [state EXCEPT ![own] = {}]
      /\ keys' = With(keys, k, [tenant |-> own, scopes |-> SCOPES]) /\ k \notin DOMAIN keys
  BY FreshIsUnlisted DEF CreateTenant, Issue
<1>4. KeysOf(own) = {} /\ state[own] = {}
  BY <1>3 DEF Inv, OneIncarnation
<1>5. ASSUME NEW t \in Tenants, t # own PROVE AddedByRight(t) /\ RemovedByRight(t)
  <2>1. KeysOf(t)' = KeysOf(t)
    BY <1>1, <1>3, <1>5 DEF KeysOf, With
  <2> QED BY <1>1, <1>3, <1>5, <2>1, UntouchedTenant
<1>6. state'[own] = {}
  BY <1>1, <1>3
<1>7. AddedByRight(own)
  BY <1>2, <1>3, <1>6 DEF AddedByRight
<1>8. RemovedByRight(own)
  BY <1>3, <1>4, <1>6 DEF RemovedByRight
<1> QED BY <1>5, <1>7, <1>8 DEF Authorised

LEMMA AddKeyByRight ==
  ASSUME Inv, NEW r \in Slots, NEW k \in Keys, NEW scopes \in SUBSET SCOPES,
         AddKey(r, k, scopes)
  PROVE  Authorised
<1>1. /\ keys \in [DOMAIN keys -> KeyRecord]
  BY Tables DEF Inv
<1>2. principal[r] # Idle /\ Holds(r, "manage")
  BY AllowedHolds DEF AddKey
<1>3. /\ principal[r].tenant \in Tenants /\ Acts(r, principal[r].tenant)
      /\ keys[principal[r].key].scopes = principal[r].scopes
  BY <1>2, AnsweredActs, AllowedHasKey DEF AddKey
<1> PICK own \in Tenants : own = principal[r].tenant
  BY <1>3
<1>4. /\ tenants' = tenants /\ state' = state /\ scopes \subseteq principal[r].scopes
      /\ keys' = With(keys, k, [tenant |-> own, scopes |-> scopes]) /\ k \notin DOMAIN keys
  BY FreshIsUnlisted DEF AddKey, Issue
<1>5. ASSUME NEW t \in Tenants, t # own PROVE AddedByRight(t) /\ RemovedByRight(t)
  <2>1. KeysOf(t)' = KeysOf(t)
    BY <1>1, <1>4, <1>5 DEF KeysOf, With
  <2> QED BY <1>4, <2>1, UntouchedTenant
<1>6. KeysOf(own)' = KeysOf(own) \cup {k} /\ keys'[k].scopes = scopes
  BY <1>1, <1>4 DEF KeysOf, With
<1>7. AddedByRight(own)
  BY <1>2, <1>3, <1>4, <1>6 DEF AddedByRight
<1>8. RemovedByRight(own)
  BY <1>4, <1>6 DEF RemovedByRight
<1> QED BY <1>5, <1>7, <1>8 DEF Authorised

LEMMA RevokeByRight ==
  ASSUME Inv, NEW r \in Slots, NEW id, RevokeKey(r, id) PROVE Authorised
<1>1. keys \in [DOMAIN keys -> KeyRecord]
  BY Tables DEF Inv
<1>2. principal[r] # Idle /\ Holds(r, "manage")
  BY AllowedHolds DEF RevokeKey
<1>3. principal[r].tenant \in Tenants /\ Acts(r, principal[r].tenant)
  BY <1>2, AnsweredActs DEF RevokeKey
<1> PICK own \in Tenants : own = principal[r].tenant
  BY <1>3
<1>4. /\ tenants' = tenants /\ state' = state
      /\ keys' = Without(keys, {k \in KeysOf(own) : KeyId[k] = id})
  BY DEF RevokeKey
<1>5. ASSUME NEW t \in Tenants, t # own PROVE AddedByRight(t) /\ RemovedByRight(t)
  <2>1. KeysOf(t)' = KeysOf(t)
    BY <1>1, <1>4, <1>5 DEF KeysOf, Without
  <2> QED BY <1>4, <2>1, UntouchedTenant
<1>6. KeysOf(own)' \subseteq KeysOf(own)
  BY <1>1, <1>4 DEF KeysOf, Without
<1>7. AddedByRight(own)
  BY <1>4, <1>6 DEF AddedByRight
<1>8. RemovedByRight(own)
  BY <1>2, <1>3, <1>4 DEF RemovedByRight
<1> QED BY <1>5, <1>7, <1>8 DEF Authorised

LEMMA DeleteByRight ==
  ASSUME Inv, NEW r \in Slots, DeleteTenant(r) PROVE Authorised
<1>1. keys \in [DOMAIN keys -> KeyRecord] /\ state \in [Tenants -> SUBSET Keys]
  BY Tables DEF Inv, TypeOK
<1>2. principal[r] # Idle /\ (ByOperator(r) \/ Holds(r, "manage"))
  BY AllowedHolds DEF DeleteTenant, ByOperator
<1>3. principal[r].tenant \in Tenants /\ Acts(r, principal[r].tenant)
  BY <1>2, AnsweredActs DEF DeleteTenant
<1> PICK own \in Tenants : own = principal[r].tenant
  BY <1>3
<1>4. /\ tenants' = tenants \ {own} /\ state' = [state EXCEPT ![own] = {}]
      /\ keys' = Without(keys, KeysOf(own))
  BY DEF DeleteTenant
<1>5. ASSUME NEW t \in Tenants, t # own PROVE AddedByRight(t) /\ RemovedByRight(t)
  <2>1. KeysOf(t)' = KeysOf(t)
    BY <1>1, <1>4, <1>5 DEF KeysOf, Without
  <2> QED BY <1>1, <1>4, <1>5, <2>1, UntouchedTenant
<1>6. KeysOf(own)' \subseteq KeysOf(own) /\ state'[own] = {}
  BY <1>1, <1>4 DEF KeysOf, Without
<1>7. AddedByRight(own)
  BY <1>4, <1>6 DEF AddedByRight
<1>8. RemovedByRight(own)
  BY <1>2, <1>3, <1>4, <1>6 DEF RemovedByRight
<1> QED BY <1>5, <1>7, <1>8 DEF Authorised

(* A row that goes by itself, or before the eyes of a reader.              *)
LEMMA EmptiedByRight ==
  ASSUME Inv, NEW own \in Tenants, UNCHANGED <<tenants, keys>>,
         state' \in {state, [state EXCEPT ![own] = {}]},
         \/ UNCHANGED principal
         \/ \E r \in Slots : Acts(r, own) /\ Holds(r, "read")
  PROVE  Authorised
<1>1. state \in [Tenants -> SUBSET Keys]
  BY DEF Inv, TypeOK
<1>2. \A t : KeysOf(t)' = KeysOf(t)
  BY DEF KeysOf
<1>3. ASSUME NEW t \in Tenants PROVE AddedByRight(t) /\ RemovedByRight(t)
  <2>1. CASE state'[t] = state[t]
    BY <1>2, <2>1, UntouchedTenant
  <2>2. CASE state'[t] # state[t]
    <3>1. t = own /\ state'[t] = {}
      BY <1>1, <2>2
    <3> QED BY <1>2, <3>1 DEF AddedByRight, RemovedByRight
  <2> QED BY <2>1, <2>2
<1> QED BY <1>3 DEF Authorised

LEMMA ReadByRight == ASSUME Inv, NEW r \in Slots, Read(r) PROVE Authorised
<1>1. principal[r] # Idle /\ Holds(r, "read")
  BY AllowedHolds DEF Read
<1>2. principal[r].tenant \in Tenants /\ Acts(r, principal[r].tenant)
  BY <1>1, AnsweredActs DEF Read
<1> QED BY <1>1, <1>2, EmptiedByRight DEF Read

(* Every step is authorised at the moment it is taken.                     *)
LEMMA AuthorisedStep == Inv /\ [Next]_vars => Authorised
<1> SUFFICES ASSUME Inv, [Next]_vars PROVE Authorised
  OBVIOUS
<1>1. ASSUME NEW r \in Slots, Refuse(r) \/ ListKeys(r) PROVE Authorised
  BY <1>1, UntouchedTables DEF Refuse, ListKeys
<1>2. ASSUME NEW t \in Tenants, Expire(t) PROVE Authorised
  BY <1>2, EmptiedByRight DEF Expire
<1>3. CASE \E r \in Slots, k \in Keys :
             Authenticate(r, k) \/ CreateTenant(r, k) \/ RevokeKey(r, KeyId[k])
  BY <1>3, UntouchedTables, CreateByRight, RevokeByRight DEF Authenticate
<1>4. CASE \E r \in Slots, k \in Keys, scopes \in SUBSET SCOPES : AddKey(r, k, scopes)
  BY <1>4, AddKeyByRight
<1>5. CASE \E r \in Slots : Refuse(r) \/ Transact(r) \/ Read(r) \/ ListKeys(r) \/ DeleteTenant(r)
  BY <1>1, <1>5, TransactByRight, ReadByRight, DeleteByRight
<1>6. CASE \E r \in Slots, t \in Tenants : Operator(r, t)
  BY <1>6, UntouchedTables DEF Operator
<1>7. CASE UNCHANGED vars
  BY <1>7, UntouchedTables DEF vars
<1> QED BY <1>2, <1>3, <1>4, <1>5, <1>6, <1>7 DEF Next, Step

(* Nothing a revoked or deleted key asked for changes a table, and         *)
(* no key gives more than it has (require, _require_key, api.add_key).     *)
THEOREM AuthorityCorrect == Spec => EffectsAuthorised
<1>1. Inv /\ [Next]_vars => [Authorised]_vars
  BY AuthorisedStep
<1> QED BY <1>1, Invariance, PTL DEF Spec, EffectsAuthorised
=============================================================================
