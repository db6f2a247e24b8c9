--------------------------- MODULE ProvisionProofs ---------------------------
(***************************************************************************)
(* Provision only takes steps of Accounts, so what is proved of Accounts   *)
(* holds with the operator's commands running beside the service; and what *)
(* `tenant create` promises, for any number of commands, requests, tenants *)
(* and paths.                                                              *)
(***************************************************************************)
EXTENDS Provision, AccountsProofs

Created == {"created", "opened", "written", "cleaning"}

(* What is known of a command: which key it has drawn, for which tenant,   *)
(* and as whom it is about to call the store.                              *)
Known(command, asking) ==
  /\ command.stage \notin Created => command.key = NoKey
  /\ command.stage \in Created =>
       command.key \in DOMAIN lineage /\ lineage[command.key][1] = command.tenant
  /\ command.stage \in {"creating", "cleaning"} => asking.tenant = command.tenant
  /\ command.stage = "written" => command.key \notin secret

(* Nobody presents a secret key, and digests were issued in past eras.     *)
Secrecy ==
  /\ secret \subseteq DOMAIN lineage
  /\ \A r \in Slots : principal[r].key \notin secret
  /\ \A k \in DOMAIN lineage : lineage[k][2] <= era[lineage[k][1]]

Commands == \A c \in Slots : Known(cli[c], principal[c])

PInv == Inv /\ ProvisionTypeOK /\ Commands /\ Secrecy /\ NoStrandedTenant /\ UnusedUntilWritten

-----------------------------------------------------------------------------
(***************************************************************************)
(* Refinement.                                                             *)
(***************************************************************************)

(* A command that has created a tenant knows which one.                    *)
LEMMA CreatedTenant ==
  ASSUME PInv, NEW c \in Slots, cli[c].stage \in Created
  PROVE  /\ cli[c].tenant \in Tenants
         /\ cli[c].key \in DOMAIN lineage /\ cli[c].key \in Keys /\ cli[c].key # NoKey
         /\ lineage[cli[c].key][1] = cli[c].tenant
<1>1. /\ cli[c].key \in DOMAIN lineage /\ lineage[cli[c].key][1] = cli[c].tenant
  BY DEF PInv, Commands, Known
<1>2. lineage \in [DOMAIN lineage -> Tenants \X Nat] /\ DOMAIN lineage \subseteq Keys
  BY Tables DEF PInv, Inv
<1> QED BY <1>1, <1>2, AccountsAssumption

(* What a command does to the store, the store's own operations do.        *)
LEMMA CommandRefines ==
  ASSUME PInv, NEW c \in Slots, Command(c)
  PROVE  Step(c) \/ UNCHANGED vars
<1>1. ASSUME NEW t \in Tenants, NEW p \in Paths, CreateCommand(c, t, p) PROVE Step(c)
  BY <1>1 DEF CreateCommand, Step
<1>2. ASSUME NEW t \in Tenants, DeleteCommand(c, t) PROVE Step(c)
  BY <1>2 DEF DeleteCommand, Step
<1>3. ASSUME NEW k \in Keys, Create(c, k) PROVE Step(c)
  BY <1>3 DEF Create, Step
<1>4. ASSUME NEW p \in Paths, BackupCommand(c, p) PROVE UNCHANGED vars
  BY <1>4 DEF BackupCommand
<1>5. ASSUME Delete(c) \/ Refused(c) \/ CleanUp(c) \/ CleanUpFails(c) PROVE Step(c)
  BY <1>5 DEF Delete, Refused, CleanUp, CleanUpFails, Step
<1>6. ASSUME Open(c) \/ WriteKey(c) \/ Synced(c) \/ BackupEnds(c) PROVE UNCHANGED vars
  BY <1>6 DEF Open, WriteKey, Synced, BackupEnds
<1>7. ASSUME Kill(c) PROVE Step(c) \/ UNCHANGED vars
  <2>1. CASE principal[c] = Idle
    <3>1. principal' = principal
      BY <1>7, <2>1 DEF PInv, Inv, TypeOK, Kill, Reply
    <3> QED BY <1>7, <3>1 DEF Kill, vars
  <2>2. CASE principal[c] # Idle
    BY <1>7, <2>2 DEF Kill, Refuse, Step
  <2> QED BY <2>1, <2>2
<1>8. ASSUME Fail(c) PROVE Step(c)
  <2>1. cli[c].tenant \in Tenants /\ Operator(c, cli[c].tenant)
    BY <1>8, CreatedTenant DEF Fail, At, Created
  <2> QED BY <2>1 DEF Step
<1>9. CASE \/ \E t \in Tenants, p \in Paths : CreateCommand(c, t, p)
           \/ \E t \in Tenants : DeleteCommand(c, t)
           \/ \E k \in Keys : Create(c, k)
           \/ \E p \in Paths : BackupCommand(c, p)
  BY <1>1, <1>2, <1>3, <1>4, <1>9
<1> QED BY <1>5, <1>6, <1>7, <1>8, <1>9 DEF Command

(* Every step of Provision is one of Accounts, or none.                    *)
LEMMA StepRefines == PInv /\ [ProvisionNext]_provisioned => [Next]_vars
<1> SUFFICES ASSUME PInv, [ProvisionNext]_provisioned PROVE [Next]_vars
  OBVIOUS
<1>1. CASE UNCHANGED provisioned
  BY <1>1 DEF provisioned
<1>2. ASSUME NEW r \in Slots, Command(r) \/ Request(r) PROVE [Next]_vars
  BY <1>2, CommandRefines DEF Request, Next
<1>3. ASSUME NEW t \in Tenants, Purge(t) PROVE Next
  BY <1>3 DEF Purge, Next
<1> QED BY <1>1, <1>2, <1>3 DEF ProvisionNext

-----------------------------------------------------------------------------
(***************************************************************************)
(* What the operations leave of the secret keys.                           *)
(***************************************************************************)

(* Keys and states only go away, and nobody starts presenting a secret.    *)
LEMMA SecretShrinks ==
  ASSUME Inv, Secrecy, UnusedUntilWritten, UNCHANGED history, secret' \subseteq secret,
         \A q \in Slots : principal'[q].key \notin secret,
         \A t \in Tenants : KeysOf(t)' \subseteq KeysOf(t) /\ state'[t] \subseteq state[t]
  PROVE  Secrecy' /\ UnusedUntilWritten'
<1>1. era' = era /\ lineage' = lineage
  BY DEF history
<1>2. lineage \in [DOMAIN lineage -> Tenants \X Nat]
  BY Tables DEF Inv
<1>3. Secrecy'
  BY <1>1 DEF Secrecy
<1>4. ASSUME NEW k \in secret', NEW t \in Tenants, lineage[k] = <<t, era[t]>>
      PROVE  KeysOf(t)' \subseteq {k} /\ state'[t] = {}
  <2>1. KeysOf(t) \subseteq {k} /\ state[t] = {}
    BY <1>4 DEF UnusedUntilWritten
  <2> QED BY <2>1
<1> QED BY <1>1, <1>3, <1>4 DEF UnusedUntilWritten

(* Idle slots present nothing.                                             *)
LEMMA RepliesPresentNothing ==
  ASSUME Inv, Secrecy, NEW r \in Slots, Reply(r)
  PROVE  \A q \in Slots : principal'[q].key \notin secret
<1>1. Idle.key = NoKey /\ NoKey \notin secret
  BY Tables, AccountsAssumption DEF Idle, Inv, Secrecy
<1> QED BY <1>1, AfterReply DEF Secrecy

(* A tenant is created: with a key of its own, in an era of its own.       *)
LEMMA CreateKeepsSecrets ==
  ASSUME Inv, Secrecy, UnusedUntilWritten, NEW r \in Slots, NEW k \in Keys,
         CreateTenant(r, k), secret' \subseteq secret \cup {k}
  PROVE  Secrecy' /\ UnusedUntilWritten'
<1>0. principal[r].tenant \in Tenants
  BY PrincipalType DEF CreateTenant, ByOperator, Inv
<1> PICK t \in Tenants : t = principal[r].tenant
  BY <1>0
<1> PICK n \in Nat : n = era[t] + 1
  BY DEF Inv, TypeOK
<1>1. /\ t \notin tenants /\ Issue(t, k, SCOPES) /\ Reply(r)
      /\ state' = [state EXCEPT ![t] = {}]
      /\ era' = [era EXCEPT ![t] = n] /\ lineage' = With(lineage, k, <<t, n>>)
  BY DEF CreateTenant
<1>2. /\ era \in [Tenants -> Nat] /\ state \in [Tenants -> SUBSET Keys]
      /\ lineage \in [DOMAIN lineage -> Tenants \X Nat]
  BY Tables DEF Inv, TypeOK
<1>3. /\ k \notin DOMAIN lineage /\ DOMAIN lineage' = DOMAIN lineage \cup {k}
      /\ lineage'[k] = <<t, n>> /\ \A j \in DOMAIN lineage : lineage'[j] = lineage[j]
  BY <1>1, Zenon DEF Issue, With
<1>4. era'[t] = n /\ \A u \in Tenants : u # t => era'[u] = era[u] /\ state'[u] = state[u]
  BY <1>1, <1>2
<1>5. KeysOf(t)' = {k} /\ \A u \in Tenants : u # t => KeysOf(u)' = KeysOf(u)
  <2>1. SCOPES \in SUBSET SCOPES
    OBVIOUS
  <2>2. /\ KeysOf(t)' = KeysOf(t) \cup {k}
        /\ \A u \in Tenants \ {t} : KeysOf(u)' = KeysOf(u)
    BY <1>1, <2>1, IssueStep
  <2>3. KeysOf(t) = {}
    BY <1>1 DEF Inv, OneIncarnation
  <2> QED BY <2>2, <2>3
<1>6. Secrecy'
  <2>1. secret' \subseteq DOMAIN lineage'
    BY <1>3 DEF Secrecy
  <2>2. \A q \in Slots : principal'[q].key \notin secret'
    <3>1. \A q \in Slots : principal'[q].key \notin secret
      BY <1>1, RepliesPresentNothing
    <3>2. \A q \in Slots : principal'[q].key # k
      <4>1. k # NoKey /\ Idle.key = NoKey
        BY AccountsAssumption DEF Idle
      <4> QED BY <1>1, <1>3, <4>1, AfterReply, FreshIsUnlisted
    <3> QED BY <3>1, <3>2
  <2>3. ASSUME NEW j \in DOMAIN lineage' PROVE lineage'[j][2] <= era'[lineage'[j][1]]
    <3>1. CASE j = k
      BY <1>3, <1>4, <3>1
    <3>2. CASE j # k
      <4>1. /\ j \in DOMAIN lineage /\ lineage'[j] = lineage[j]
            /\ lineage[j][1] \in Tenants /\ lineage[j][2] \in Nat
        BY <1>2, <1>3, <3>2
      <4>2. lineage[j][2] <= era[lineage[j][1]]
        BY <4>1 DEF Secrecy
      <4> QED BY <1>2, <1>4, <4>1, <4>2
    <3> QED BY <3>1, <3>2
  <2> QED BY <2>1, <2>2, <2>3 DEF Secrecy
<1>7. ASSUME NEW j \in secret', NEW u \in Tenants, lineage'[j] = <<u, era'[u]>>
      PROVE  KeysOf(u)' \subseteq {j} /\ state'[u] = {}
  <2>1. CASE j = k
    BY <1>1, <1>2, <1>3, <1>5, <1>7, <2>1
  <2>2. CASE j # k
    <3>1. j \in secret /\ lineage[j] = <<u, era'[u]>> /\ lineage[j][2] <= era[lineage[j][1]]
      BY <1>3, <1>7, <2>2 DEF Secrecy
    <3>2. u # t
      BY <1>2, <1>4, <3>1
    <3>3. KeysOf(u) \subseteq {j} /\ state[u] = {}
      BY <1>4, <3>1, <3>2 DEF UnusedUntilWritten
    <3> QED BY <1>4, <1>5, <3>2, <3>3
  <2> QED BY <2>1, <2>2
<1> QED BY <1>6, <1>7 DEF UnusedUntilWritten

(* An operation concerns its own slot, and issued digests are history.     *)
LEMMA StepEffects ==
  ASSUME Inv, NEW r \in Slots, Step(r)
  PROVE  /\ \A q \in Slots \ {r} : principal'[q] = principal[q]
         /\ DOMAIN lineage \subseteq DOMAIN lineage'
         /\ \A j \in DOMAIN lineage : lineage'[j] = lineage[j]
         /\ \A j \in DOMAIN keys' : j \in DOMAIN keys \/ j \notin DOMAIN lineage
<1> DEFINE Others == \A q \in Slots \ {r} : principal'[q] = principal[q]
           Grows == /\ DOMAIN lineage \subseteq DOMAIN lineage'
                    /\ \A j \in DOMAIN lineage : lineage'[j] = lineage[j]
           Listed == \A j \in DOMAIN keys' : j \in DOMAIN keys \/ j \notin DOMAIN lineage
<1>1. principal \in [Slots -> Principals]
  BY DEF Inv, TypeOK
<1>2. ASSUME Reply(r) PROVE Others
  BY <1>1, <1>2 DEF Reply
<1>3. ASSUME NEW k \in Keys, NEW x, k \notin DOMAIN lineage, lineage' = With(lineage, k, x)
      PROVE  Grows
  BY <1>3 DEF With
<1>4. ASSUME NEW t, NEW k \in Keys, NEW scopes, Issue(t, k, scopes) PROVE Listed
  BY <1>4 DEF Issue, With
<1>5. ASSUME NEW k \in Keys, Authenticate(r, k) PROVE Others /\ Grows /\ Listed
  BY <1>1, <1>5 DEF Authenticate, accounts, history
<1>6. ASSUME NEW t \in Tenants, Operator(r, t) PROVE Others /\ Grows /\ Listed
  BY <1>1, <1>6 DEF Operator, accounts, history
<1>7. ASSUME NEW k \in Keys, CreateTenant(r, k) PROVE Others /\ Grows /\ Listed
  <2>1. Reply(r) /\ Issue(principal[r].tenant, k, SCOPES) /\ k \notin DOMAIN lineage
    BY <1>7 DEF CreateTenant, Issue
  <2>2. lineage' = With(lineage, k, <<principal[r].tenant, era[principal[r].tenant] + 1>>)
    BY <1>7 DEF CreateTenant
  <2> QED BY <1>2, <1>3, <1>4, <2>1, <2>2
<1>8. ASSUME NEW k \in Keys, NEW scopes \in SUBSET SCOPES, AddKey(r, k, scopes)
      PROVE  Others /\ Grows /\ Listed
  <2>1. Reply(r) /\ Issue(principal[r].tenant, k, scopes) /\ k \notin DOMAIN lineage
    BY <1>8 DEF AddKey, Issue
  <2>2. lineage' = With(lineage, k, <<principal[r].tenant, era[principal[r].tenant]>>)
    BY <1>8 DEF AddKey
  <2> QED BY <1>2, <1>3, <1>4, <2>1, <2>2
<1>9. ASSUME NEW id, RevokeKey(r, id) PROVE Others /\ Grows /\ Listed
  BY <1>2, <1>9 DEF RevokeKey, Without, history
<1>10. ASSUME DeleteTenant(r) PROVE Others /\ Grows /\ Listed
  BY <1>2, <1>10 DEF DeleteTenant, Without, history
<1>11. ASSUME Refuse(r) \/ Transact(r) \/ Read(r) \/ ListKeys(r) PROVE Others /\ Grows /\ Listed
  BY <1>2, <1>11 DEF Refuse, Transact, Read, ListKeys, accounts, history
<1> QED BY <1>5, <1>6, <1>7, <1>8, <1>9, <1>10, <1>11 DEF Step

(* The tenant of a key that is presented has a key that is no secret.      *)
LEMMA KnownTenant ==
  ASSUME Inv, Secrecy, NEW r \in Slots, NEW scope, Allowed(r, scope), RequireKey(r)
  PROVE  /\ principal[r].tenant \in Tenants
         /\ \A k \in secret : ~(KeysOf(principal[r].tenant) \subseteq {k})
<1>1. /\ principal[r].tenant \in Tenants
      /\ principal[r].key \in KeysOf(principal[r].tenant)
  BY AllowedHasKey
<1>2. principal[r].key \notin secret
  BY DEF Secrecy
<1> QED BY <1>1, <1>2

(* The service's operations keep secrets: what a request writes or issues  *)
(* goes to a tenant whose key it has.                                      *)
LEMMA StepKeepsSecrets ==
  ASSUME Inv, Secrecy, UnusedUntilWritten, NEW r \in Slots, Step(r),
         principal'[r].key \notin secret, secret' \subseteq secret
  PROVE  Secrecy' /\ UnusedUntilWritten'
<1> DEFINE Goal == Secrecy' /\ UnusedUntilWritten'
<1>1. /\ \A q \in Slots : principal'[q].key \notin secret
      /\ DOMAIN lineage \subseteq DOMAIN lineage'
      /\ \A j \in DOMAIN lineage : lineage'[j] = lineage[j]
  BY StepEffects DEF Secrecy
<1>2. /\ keys \in [DOMAIN keys -> KeyRecord] /\ state \in [Tenants -> SUBSET Keys]
      /\ era \in [Tenants -> Nat] /\ lineage \in [DOMAIN lineage -> Tenants \X Nat]
  BY Tables DEF Inv, TypeOK
<1>3. ASSUME UNCHANGED history,
             \A t \in Tenants : KeysOf(t)' \subseteq KeysOf(t) /\ state'[t] \subseteq state[t]
      PROVE  Goal
  BY <1>1, <1>3, SecretShrinks
<1>4. ASSUME UNCHANGED <<accounts, history>> PROVE Goal
  BY <1>3, <1>4 DEF accounts, KeysOf
<1>5. ASSUME NEW gone, keys' = Without(keys, gone), UNCHANGED history,
             \A t \in Tenants : state'[t] \subseteq state[t]
      PROVE  Goal
  <2>1. \A t \in Tenants : KeysOf(t)' \subseteq KeysOf(t)
    BY <1>2, <1>5 DEF KeysOf, Without
  <2> QED BY <1>3, <1>5, <2>1
<1>6. ASSUME NEW k \in Keys, CreateTenant(r, k) PROVE Goal
  BY <1>6, CreateKeepsSecrets
<1>7. ASSUME NEW k \in Keys, NEW scopes \in SUBSET SCOPES, AddKey(r, k, scopes) PROVE Goal
  <2>1. /\ principal[r].tenant \in Tenants
        /\ \A j \in secret : ~(KeysOf(principal[r].tenant) \subseteq {j})
    BY <1>7, KnownTenant DEF AddKey
  <2> PICK t \in Tenants : t = principal[r].tenant
    BY <2>1
  <2> PICK n \in Nat : n = era[t]
    BY <1>2
  <2>2. /\ Issue(t, k, scopes) /\ k \notin DOMAIN lineage /\ state' = state /\ era' = era
        /\ lineage' = With(lineage, k, <<t, n>>)
    BY <1>7 DEF AddKey, Issue
  <2>3. lineage'[k] = <<t, n>> /\ DOMAIN lineage' = DOMAIN lineage \cup {k}
    BY <2>2, Zenon DEF With
  <2>4. \A u \in Tenants \ {t} : KeysOf(u)' = KeysOf(u)
    BY <2>2, IssueStep
  <2>5. Secrecy'
    <3>1. ASSUME NEW j \in DOMAIN lineage' PROVE lineage'[j][2] <= era'[lineage'[j][1]]
      <4>1. CASE j = k
        BY <2>2, <2>3, <4>1
      <4>2. CASE j # k
        BY <1>1, <2>2, <2>3, <4>2 DEF Secrecy
      <4> QED BY <4>1, <4>2
    <3>2. secret' \subseteq DOMAIN lineage' /\ \A q \in Slots : principal'[q].key \notin secret'
      BY <1>1 DEF Secrecy
    <3> QED BY <3>1, <3>2 DEF Secrecy
  <2>6. ASSUME NEW j \in secret', NEW u \in Tenants, lineage'[j] = <<u, era'[u]>>
        PROVE  KeysOf(u)' \subseteq {j} /\ state'[u] = {}
    <3>1. j \in secret /\ lineage[j] = <<u, era[u]>>
      BY <1>1, <2>2, <2>6 DEF Secrecy
    <3>2. KeysOf(u) \subseteq {j} /\ state[u] = {}
      BY <3>1 DEF UnusedUntilWritten
    <3> QED BY <2>1, <2>2, <2>4, <3>1, <3>2
  <2> QED BY <2>5, <2>6 DEF UnusedUntilWritten
<1>8. CASE Transact(r)
  <2>1. /\ principal[r].tenant \in Tenants
        /\ \A j \in secret : ~(KeysOf(principal[r].tenant) \subseteq {j})
    BY <1>8, KnownTenant DEF Transact
  <2>2. /\ state' = [state EXCEPT ![principal[r].tenant] = @ \cup {principal[r].key}]
        /\ keys' = keys /\ era' = era /\ lineage' = lineage
    BY <1>8 DEF Transact, history
  <2>3. Secrecy'
    BY <1>1, <2>2 DEF Secrecy
  <2>4. ASSUME NEW j \in secret', NEW u \in Tenants, lineage'[j] = <<u, era'[u]>>
        PROVE  KeysOf(u)' \subseteq {j} /\ state'[u] = {}
    <3>1. KeysOf(u) \subseteq {j} /\ state[u] = {} /\ j \in secret
      BY <2>2, <2>4 DEF UnusedUntilWritten
    <3>2. state'[u] = state[u] /\ KeysOf(u)' = KeysOf(u)
      BY <1>2, <2>1, <2>2, <3>1 DEF KeysOf
    <3> QED BY <3>1, <3>2
  <2> QED BY <2>3, <2>4 DEF UnusedUntilWritten
<1>9. CASE DeleteTenant(r)
  <2>1. \A t \in Tenants : state'[t] \subseteq state[t]
    BY <1>2, <1>9 DEF DeleteTenant
  <2> QED BY <1>5, <1>9, <2>1 DEF DeleteTenant
<1>10. ASSUME NEW id, RevokeKey(r, id) PROVE Goal
  BY <1>5, <1>10 DEF RevokeKey
<1>11. CASE Read(r)
  <2>1. \A t \in Tenants : state'[t] \subseteq state[t] /\ KeysOf(t)' \subseteq KeysOf(t)
    BY <1>2, <1>11 DEF Read, KeysOf
  <2> QED BY <1>3, <1>11, <2>1 DEF Read
<1>12. CASE Refuse(r) \/ ListKeys(r)
  BY <1>4, <1>12 DEF Refuse, ListKeys
<1>13. ASSUME NEW k \in Keys, Authenticate(r, k) PROVE Goal
  BY <1>4, <1>13 DEF Authenticate
<1>14. ASSUME NEW t \in Tenants, Operator(r, t) PROVE Goal
  BY <1>4, <1>14 DEF Operator
<1> QED BY <1>6, <1>7, <1>8, <1>9, <1>10, <1>11, <1>12, <1>13, <1>14 DEF Step

-----------------------------------------------------------------------------
(***************************************************************************)
(* The commands.                                                           *)
(***************************************************************************)

(* A command, or the request in a slot, is of no concern to the others.    *)
LEMMA OthersKnown ==
  ASSUME PInv, NEW c \in Slots, NEW d \in Slots \ {c},
         cli'[d] = cli[d], principal'[d] = principal[d],
         DOMAIN lineage \subseteq DOMAIN lineage',
         \A j \in DOMAIN lineage : lineage'[j] = lineage[j] /\ (j \in secret' => j \in secret)
  PROVE  Known(cli[d], principal[d])'
<1>1. Known(cli[d], principal[d])
  BY DEF PInv, Commands
<1> QED BY <1>1 DEF Known, Created

(* What a command does, as seen by the invariant: the store takes at most  *)
(* one step, in which the command presents no secret key, and secrets are  *)
(* only added by drawing a fresh digest.                                   *)
LEMMA CommandEffects ==
  ASSUME PInv, NEW c \in Slots, Command(c)
  PROVE  /\ Step(c) \/ UNCHANGED vars
         /\ cli' = [cli EXCEPT ![c] = cli'[c]]
         /\ Secrecy' /\ UnusedUntilWritten'
         /\ \A j \in DOMAIN lineage : j \in secret' => j \in secret
<1> DEFINE Goal == /\ cli' = [cli EXCEPT ![c] = cli'[c]]
                   /\ Secrecy' /\ UnusedUntilWritten'
                   /\ \A j \in DOMAIN lineage : j \in secret' => j \in secret
<1>1. /\ cli \in [Slots -> [stage : Stages, tenant : Tenants \cup {"none"},
                              path : Paths \cup {"none"}, key : Keys \cup {NoKey}]]
      /\ principal \in [Slots -> Principals] /\ NoKey \notin secret
      /\ Inv /\ Secrecy /\ UnusedUntilWritten
  BY AccountsAssumption DEF PInv, Inv, TypeOK, ProvisionTypeOK
<1>2. Idle.key = NoKey
  BY DEF Idle
<1>3. ASSUME Step(c), principal'[c].key = NoKey, secret' = secret,
             cli' = [cli EXCEPT ![c] = cli'[c]]
      PROVE  Goal
  BY <1>1, <1>3, StepKeepsSecrets
<1>4. ASSUME UNCHANGED vars, secret' \subseteq secret, cli' = [cli EXCEPT ![c] = cli'[c]]
      PROVE  Goal
  <2>1. /\ UNCHANGED history /\ \A q \in Slots : principal'[q].key \notin secret
        /\ \A t \in Tenants : KeysOf(t)' \subseteq KeysOf(t) /\ state'[t] \subseteq state[t]
    BY <1>1, <1>4 DEF vars, accounts, KeysOf, Secrecy
  <2> QED BY <1>1, <1>4, <2>1, SecretShrinks
<1>5. ASSUME NEW t, Operator(c, t) PROVE principal'[c].key = NoKey
  BY <1>1, <1>5 DEF Operator
<1>6. ASSUME Reply(c) PROVE principal'[c].key = NoKey
  BY <1>1, <1>2, <1>6 DEF Reply
<1>7. ASSUME NEW t \in Tenants, NEW p \in Paths, CreateCommand(c, t, p) PROVE Goal
  <2>1. Step(c) /\ principal'[c].key = NoKey
    BY <1>5, <1>7 DEF CreateCommand, Step
  <2>2. cli' = [cli EXCEPT ![c] = cli'[c]] /\ secret' = secret
    BY <1>1, <1>7 DEF CreateCommand
  <2> QED BY <1>3, <2>1, <2>2
<1>8. ASSUME NEW t \in Tenants, DeleteCommand(c, t) PROVE Goal
  <2>1. Step(c) /\ principal'[c].key = NoKey
    BY <1>5, <1>8 DEF DeleteCommand, Step
  <2>2. cli' = [cli EXCEPT ![c] = cli'[c]] /\ secret' = secret
    BY <1>1, <1>8 DEF DeleteCommand
  <2> QED BY <1>3, <2>1, <2>2
<1>9. ASSUME NEW k \in Keys, Create(c, k) PROVE Goal
  <2>1. CreateTenant(c, k) /\ secret' = secret \cup {k} /\ k \notin DOMAIN lineage
    BY <1>9 DEF Create, CreateTenant, Issue
  <2>2. Secrecy' /\ UnusedUntilWritten'
    BY <1>1, <2>1, CreateKeepsSecrets
  <2>3. cli' = [cli EXCEPT ![c] = cli'[c]]
    BY <1>1, <1>9 DEF Create
  <2> QED BY <2>1, <2>2, <2>3
<1>10. ASSUME Delete(c) \/ Refused(c) \/ CleanUp(c) \/ CleanUpFails(c) PROVE Goal
  <2>1. Step(c)
    BY <1>10 DEF Delete, Refused, CleanUp, CleanUpFails, Step
  <2>2. Reply(c)
    BY <1>10 DEF Delete, Refused, CleanUp, CleanUpFails, DeleteTenant, Refuse
  <2>3. cli' = [cli EXCEPT ![c] = cli'[c]] /\ secret' = secret
    BY <1>1, <1>10 DEF Delete, Refused, CleanUp, CleanUpFails, Exit
  <2> QED BY <1>3, <1>6, <2>1, <2>2, <2>3
<1>11. ASSUME Open(c) \/ WriteKey(c) \/ Synced(c) \/ BackupEnds(c) PROVE Goal
  <2>1. UNCHANGED vars /\ secret' \subseteq secret
    BY <1>11 DEF Open, WriteKey, Synced, BackupEnds
  <2>2. cli' = [cli EXCEPT ![c] = cli'[c]]
    BY <1>1, <1>11 DEF Open, WriteKey, Synced, BackupEnds, To, Exit
  <2> QED BY <1>4, <2>1, <2>2
<1>12. ASSUME NEW p \in Paths, BackupCommand(c, p) PROVE Goal
  <2>1. UNCHANGED vars /\ secret' = secret /\ cli' = [cli EXCEPT ![c] = cli'[c]]
    BY <1>1, <1>12 DEF BackupCommand
  <2> QED BY <1>4, <2>1
<1>13. ASSUME Fail(c) PROVE Goal
  <2>1. cli[c].tenant \in Tenants /\ Operator(c, cli[c].tenant)
    BY <1>13, CreatedTenant DEF Fail, At, Created
  <2>2. Step(c) /\ principal'[c].key = NoKey
    BY <1>5, <2>1 DEF Step
  <2>3. cli' = [cli EXCEPT ![c] = cli'[c]] /\ secret' = secret
    BY <1>1, <1>13 DEF Fail, To
  <2> QED BY <1>3, <2>2, <2>3
<1>14. ASSUME Kill(c) PROVE Goal
  <2>1. cli' = [cli EXCEPT ![c] = cli'[c]] /\ secret' = secret
    BY <1>1, <1>14 DEF Kill, Exit
  <2>2. CASE principal[c] = Idle
    <3>1. principal' = principal
      BY <1>1, <1>14, <2>2 DEF Kill, Reply
    <3>2. UNCHANGED vars
      BY <1>14, <3>1 DEF Kill, vars
    <3> QED BY <1>4, <2>1, <3>2
  <2>3. CASE principal[c] # Idle
    <3>1. Step(c) /\ Reply(c)
      BY <1>14, <2>3 DEF Kill, Refuse, Step
    <3> QED BY <1>3, <1>6, <2>1, <3>1
  <2> QED BY <2>2, <2>3
<1>15. ASSUME \/ \E t \in Tenants, p \in Paths : CreateCommand(c, t, p)
              \/ \E t \in Tenants : DeleteCommand(c, t)
              \/ \E k \in Keys : Create(c, k)
              \/ \E p \in Paths : BackupCommand(c, p)
       PROVE  Goal
  BY <1>7, <1>8, <1>9, <1>12, <1>15
<1>16. Goal
  BY <1>10, <1>11, <1>13, <1>14, <1>15 DEF Command
<1>17. Step(c) \/ UNCHANGED vars
  BY CommandRefines
<1> QED BY <1>16, <1>17

(* What a command knows of itself after its step.                          *)
LEMMA CommandKnows ==
  ASSUME PInv, NEW c \in Slots, Command(c)
  PROVE  Known(cli[c], principal[c])'
<1> DEFINE Mine == Known(cli[c], principal[c])'
<1>1. /\ cli \in [Slots -> [stage : Stages, tenant : Tenants \cup {"none"},
                              path : Paths \cup {"none"}, key : Keys \cup {NoKey}]]
      /\ principal \in [Slots -> Principals] /\ Known(cli[c], principal[c])
  BY DEF PInv, Inv, TypeOK, ProvisionTypeOK, Commands
<1>2. ASSUME Exit(c) PROVE Mine
  <2>1. cli'[c] = NoCommand
    BY <1>1, <1>2 DEF Exit
  <2> QED BY <2>1 DEF Known, Created, NoCommand
<1>3. ASSUME NEW t \in Tenants, NEW p \in Paths, CreateCommand(c, t, p) PROVE Mine
  <2>1. /\ cli'[c] = [stage |-> "creating", tenant |-> t, path |-> p, key |-> NoKey]
        /\ principal'[c].tenant = t
    BY <1>1, <1>3 DEF CreateCommand, Operator
  <2> QED BY <2>1 DEF Known, Created
<1>4. ASSUME NEW t \in Tenants, DeleteCommand(c, t) PROVE Mine
  <2>1. cli'[c].stage = "deleting" /\ cli'[c].key = NoKey
    BY <1>1, <1>4 DEF DeleteCommand, NoCommand
  <2> QED BY <2>1 DEF Known, Created
<1>5. ASSUME NEW p \in Paths, BackupCommand(c, p) PROVE Mine
  <2>1. cli'[c].stage = "copying" /\ cli'[c].key = NoKey
    BY <1>1, <1>5 DEF BackupCommand, NoCommand
  <2> QED BY <2>1 DEF Known, Created
<1>6. ASSUME NEW k \in Keys, Create(c, k) PROVE Mine
  <2>1. /\ cli'[c].stage = "created" /\ cli'[c].key = k /\ cli'[c].tenant = cli[c].tenant
        /\ principal[c].tenant = cli[c].tenant
    BY <1>1, <1>6 DEF Create, At, Known
  <2>2. lineage' = With(lineage, k, <<principal[c].tenant, era[principal[c].tenant] + 1>>)
    BY <1>6 DEF Create, CreateTenant
  <2>3. k \in DOMAIN lineage' /\ lineage'[k][1] = principal[c].tenant
    BY <2>2 DEF With
  <2> QED BY <2>1, <2>3 DEF Known, Created
<1>7. ASSUME Open(c) PROVE Mine
  <2>1. /\ cli'[c].stage = "opened" /\ cli'[c].key = cli[c].key /\ cli'[c].tenant = cli[c].tenant
        /\ cli[c].stage = "created" /\ lineage' = lineage
    BY <1>1, <1>7 DEF Open, At, To, vars, history
  <2> QED BY <1>1, <2>1 DEF Known, Created
<1>8. ASSUME WriteKey(c) PROVE Mine
  <2>1. /\ cli'[c].stage = "written" /\ cli'[c].key = cli[c].key /\ cli'[c].tenant = cli[c].tenant
        /\ cli[c].stage = "opened" /\ lineage' = lineage /\ secret' = secret \ {cli[c].key}
    BY <1>1, <1>8 DEF WriteKey, At, To, vars, history
  <2> QED BY <1>1, <2>1 DEF Known, Created
<1>9. ASSUME Fail(c) PROVE Mine
  <2>1. /\ cli'[c].stage = "cleaning" /\ cli'[c].key = cli[c].key /\ cli'[c].tenant = cli[c].tenant
        /\ cli[c].stage \in {"created", "opened", "written"} /\ lineage' = lineage
        /\ principal'[c].tenant = cli[c].tenant
    BY <1>1, <1>9 DEF Fail, At, To, Operator, history
  <2> QED BY <1>1, <2>1 DEF Known, Created
<1>10. CASE \/ Delete(c) \/ Refused(c) \/ Synced(c) \/ CleanUp(c) \/ CleanUpFails(c)
            \/ BackupEnds(c) \/ Kill(c)
  BY <1>2, <1>10 DEF Delete, Refused, Synced, CleanUp, CleanUpFails, BackupEnds, Kill
<1>11. CASE \/ \E t \in Tenants, p \in Paths : CreateCommand(c, t, p)
            \/ \E t \in Tenants : DeleteCommand(c, t)
            \/ \E k \in Keys : Create(c, k)
            \/ \E p \in Paths : BackupCommand(c, p)
  BY <1>3, <1>4, <1>5, <1>6, <1>11
<1> QED BY <1>7, <1>8, <1>9, <1>10, <1>11 DEF Command

(* A command that gives up its key has published it, deleted its tenant or *)
(* is one of those that could not.                                         *)
LEMMA CommandLeavesNoTenant ==
  ASSUME PInv, NEW c \in Slots, Command(c)
  PROVE  NoStrandedTenant'
<1> SUFFICES ASSUME NEW k \in DOMAIN keys' \cap secret', k \notin stranded'
             PROVE  \E d \in Slots : cli'[d].key = k
  BY DEF NoStrandedTenant
<1>1. /\ cli \in [Slots -> [stage : Stages, tenant : Tenants \cup {"none"},
                              path : Paths \cup {"none"}, key : Keys \cup {NoKey}]]
      /\ Known(cli[c], principal[c]) /\ cli' = [cli EXCEPT ![c] = cli'[c]]
      /\ Step(c) \/ UNCHANGED vars
  BY CommandEffects DEF PInv, ProvisionTypeOK, Commands
<1>2. \A j \in DOMAIN keys' : j \in DOMAIN keys \/ j \notin DOMAIN lineage
  BY <1>1, StepEffects DEF PInv, vars, accounts
<1>3. CASE cli'[c].key = k
  BY <1>3
<1>4. CASE cli'[c].key # k
  <2>0. ASSUME NEW j \in Keys, Create(c, j) PROVE cli'[c].key = j /\ secret' = secret \cup {j}
    BY <1>1, <2>0 DEF Create
  <2>1. k \in secret
    <3>1. \/ \E j \in Keys : Create(c, j)
          \/ secret' \subseteq secret
      BY DEF Command, CreateCommand, DeleteCommand, BackupCommand, Delete, Refused, Open,
             WriteKey, Synced, Fail, CleanUp, CleanUpFails, BackupEnds, Kill
    <3> QED BY <1>4, <2>0, <3>1
  <2>2. k \in DOMAIN keys /\ k \in Keys /\ k # NoKey
    BY <1>2, <2>1, AccountsAssumption DEF PInv, Secrecy, ProvisionTypeOK
  <2>3. k \notin stranded
    BY DEF Command, CreateCommand, DeleteCommand, Create, BackupCommand, Delete, Refused, Open,
           WriteKey, Synced, Fail, CleanUp, CleanUpFails, BackupEnds, Kill
  <2> PICK d \in Slots : cli[d].key = k
    BY <2>1, <2>2, <2>3 DEF PInv, NoStrandedTenant
  <2>4. CASE d # c
    BY <1>1, <2>4
  <2>5. CASE d = c
    <3>1. cli[c].stage \in Created /\ cli[c].stage # "written"
      BY <1>1, <2>1, <2>2, <2>5 DEF Known
    <3>2. CASE Open(c) \/ Fail(c)
      BY <1>1, <1>4, <2>5, <3>2 DEF Open, Fail, To
    <3>3. CASE WriteKey(c)
      BY <2>5, <3>3 DEF WriteKey
    <3>4. CASE CleanUpFails(c) \/ Kill(c)
      BY <2>1, <2>5, <3>4 DEF CleanUpFails, Kill
    <3>5. CASE CleanUp(c)
      <4>1. /\ keys[k].tenant \in Tenants /\ k \in KeysOf(keys[k].tenant)
        BY <2>2, Tables DEF PInv, Inv, KeyRecord, KeysOf
      <4>2. lineage[k] = <<keys[k].tenant, era[keys[k].tenant]>>
        BY <4>1 DEF PInv, Inv, OneIncarnation
      <4>3. keys[k].tenant = principal[c].tenant
        BY <1>1, <2>5, <3>1, <3>5, <4>2 DEF Known, CleanUp, At
      <4>4. keys' = Without(keys, KeysOf(principal[c].tenant))
        BY <3>5 DEF CleanUp, DeleteTenant
      <4>5. k \notin DOMAIN keys'
        BY <4>1, <4>3, <4>4 DEF Without
      <4> QED BY <4>5
    <3> QED BY <2>0, <1>4, <2>5, <3>1, <3>2, <3>3, <3>4, <3>5
         DEF Command, Created, At, CreateCommand, DeleteCommand, BackupCommand, Create, Delete,
             Refused, Synced, BackupEnds
  <2> QED BY <2>4, <2>5
<1> QED BY <1>3, <1>4

(* Commands, files and keys keep their types.                              *)
LEMMA CommandTypes ==
  ASSUME PInv, NEW c \in Slots, Command(c), TypeOK'
  PROVE  ProvisionTypeOK'
<1> DEFINE Commanded == [stage : Stages, tenant : Tenants \cup {"none"},
                           path : Paths \cup {"none"}, key : Keys \cup {NoKey}]
           Contents == {"absent", "partial", "backup"} \cup Keys
<1>1. /\ cli \in [Slots -> Commanded] /\ files \in [Paths -> Contents]
      /\ secret \subseteq Keys /\ stranded \subseteq Keys
  BY DEF PInv, ProvisionTypeOK
<1>2. NoCommand \in Commanded
  BY DEF NoCommand, Stages
<1>3. ASSUME NEW x \in Commanded, cli' = [cli EXCEPT ![c] = x] PROVE cli' \in [Slots -> Commanded]
  BY <1>1, <1>3
<1>4. ASSUME NEW stage \in Stages, To(c, stage) PROVE cli' \in [Slots -> Commanded]
  BY <1>1, <1>4 DEF To
<1>5. ASSUME NEW x \in Contents, Write(c, x) PROVE files' \in [Paths -> Contents]
  BY <1>1, <1>5 DEF Write
<1>6. \A stage \in {"created", "opened", "written", "cleaning"} : stage \in Stages
  BY DEF Stages
<1>7. cli' \in [Slots -> Commanded]
  <2>1. ASSUME NEW t \in Tenants, NEW p \in Paths, CreateCommand(c, t, p)
        PROVE  cli' \in [Slots -> Commanded]
    <3>1. [stage |-> "creating", tenant |-> t, path |-> p, key |-> NoKey] \in Commanded
      BY DEF Stages
    <3> QED BY <1>1, <2>1, <3>1 DEF CreateCommand
  <2>2. ASSUME NEW t \in Tenants, DeleteCommand(c, t) PROVE cli' \in [Slots -> Commanded]
    <3>1. [NoCommand EXCEPT !.stage = "deleting", !.tenant = t] \in Commanded
      BY DEF Stages, NoCommand
    <3> QED BY <1>1, <2>2, <3>1 DEF DeleteCommand
  <2>3. ASSUME NEW k \in Keys, Create(c, k) PROVE cli' \in [Slots -> Commanded]
    <3> DEFINE x == [cli[c] EXCEPT !.stage = "created", !.key = k]
    <3>1. cli' = [cli EXCEPT ![c] = x]
      BY <2>3 DEF Create
    <3>2. x \in Commanded
      BY <1>1, <1>6
    <3> QED BY <1>3, <3>1, <3>2
  <2>4. ASSUME NEW p \in Paths, BackupCommand(c, p) PROVE cli' \in [Slots -> Commanded]
    <3>1. [NoCommand EXCEPT !.stage = "copying", !.path = p] \in Commanded
      BY DEF Stages, NoCommand
    <3> QED BY <1>1, <2>4, <3>1 DEF BackupCommand
  <2>5. ASSUME Open(c) \/ WriteKey(c) \/ Fail(c) PROVE cli' \in [Slots -> Commanded]
    BY <1>4, <1>6, <2>5 DEF Open, WriteKey, Fail
  <2>6. ASSUME Exit(c) PROVE cli' \in [Slots -> Commanded]
    BY <1>2, <1>3, <2>6 DEF Exit
  <2>7. CASE \/ Delete(c) \/ Refused(c) \/ Synced(c) \/ CleanUp(c) \/ CleanUpFails(c)
             \/ BackupEnds(c) \/ Kill(c)
    BY <2>6, <2>7 DEF Delete, Refused, Synced, CleanUp, CleanUpFails, BackupEnds, Kill
  <2>8. CASE \/ \E t \in Tenants, p \in Paths : CreateCommand(c, t, p)
             \/ \E t \in Tenants : DeleteCommand(c, t)
             \/ \E k \in Keys : Create(c, k)
             \/ \E p \in Paths : BackupCommand(c, p)
    BY <2>1, <2>2, <2>3, <2>4, <2>8
  <2> QED BY <2>5, <2>7, <2>8 DEF Command
<1>8. files' \in [Paths -> Contents]
  <2>1. CASE WriteKey(c)
    <3>1. cli[c].key \in Contents
      BY <2>1, CreatedTenant DEF WriteKey, At, Created
    <3> QED BY <1>5, <2>1, <3>1 DEF WriteKey
  <2>2. CASE Open(c) \/ BackupEnds(c)
    BY <1>5, <2>2 DEF Open, BackupEnds
  <2>3. ASSUME NEW p \in Paths, BackupCommand(c, p) PROVE files' \in [Paths -> Contents]
    BY <1>1, <2>3 DEF BackupCommand
  <2>4. CASE UNCHANGED files
    BY <1>1, <2>4
  <2>5. UNCHANGED files \/ WriteKey(c) \/ Open(c) \/ BackupEnds(c) \/ \E p \in Paths : BackupCommand(c, p)
    BY DEF Command, CreateCommand, DeleteCommand, Create, Delete, Refused, Synced, Fail,
           CleanUp, CleanUpFails, Kill
  <2> QED BY <2>1, <2>2, <2>3, <2>4, <2>5
<1>9. secret' \subseteq Keys /\ stranded' \subseteq Keys
  BY <1>1 DEF Command, CreateCommand, DeleteCommand, Create, BackupCommand, Delete, Refused, Open,
              WriteKey, Synced, Fail, CleanUp, CleanUpFails, BackupEnds, Kill
<1> QED BY <1>7, <1>8, <1>9 DEF ProvisionTypeOK

-----------------------------------------------------------------------------
(***************************************************************************)
(* The inductive invariant.                                                *)
(***************************************************************************)

LEMMA PInvInit == ProvisionInit => PInv
<1> SUFFICES ASSUME ProvisionInit PROVE PInv
  OBVIOUS
<1>1. Init /\ Inv /\ cli = [c \in Slots |-> NoCommand] /\ secret = {} /\ stranded = {}
  BY InvInit DEF ProvisionInit
<1>2. ProvisionTypeOK
  <2>1. NoCommand \in [stage : Stages, tenant : Tenants \cup {"none"},
                         path : Paths \cup {"none"}, key : Keys \cup {NoKey}]
    BY DEF NoCommand, Stages
  <2>2. files \in [Paths -> {"absent", "partial", "backup"} \cup Keys]
    BY DEF ProvisionInit
  <2> QED BY <1>1, <2>1, <2>2 DEF ProvisionTypeOK, Inv
<1>3. Commands
  BY <1>1 DEF Commands, Known, Created, NoCommand
<1>4. Secrecy
  BY <1>1 DEF Secrecy, Init
<1> QED BY <1>1, <1>2, <1>3, <1>4 DEF PInv, NoStrandedTenant, UnusedUntilWritten

(* A command runs.                                                         *)
LEMMA CommandStep ==
  ASSUME PInv, NEW c \in Slots, Command(c)
  PROVE  PInv'
<1>1. [Next]_vars
  BY CommandRefines DEF Next
<1>2. Inv'
  BY <1>1, InvNext DEF PInv
<1>3. /\ Step(c) \/ UNCHANGED vars
      /\ cli' = [cli EXCEPT ![c] = cli'[c]] /\ cli \in [Slots -> [stage : Stages,
           tenant : Tenants \cup {"none"}, path : Paths \cup {"none"}, key : Keys \cup {NoKey}]]
      /\ Secrecy' /\ UnusedUntilWritten'
      /\ \A j \in DOMAIN lineage : j \in secret' => j \in secret
  BY CommandEffects DEF PInv, ProvisionTypeOK
<1>4. /\ \A d \in Slots \ {c} : principal'[d] = principal[d]
      /\ DOMAIN lineage \subseteq DOMAIN lineage'
      /\ \A j \in DOMAIN lineage : lineage'[j] = lineage[j]
  BY <1>3, StepEffects DEF PInv, vars, history
<1>5. ASSUME NEW d \in Slots PROVE Known(cli[d], principal[d])'
  <2>1. CASE d = c
    BY <2>1, CommandKnows
  <2>2. CASE d # c
    <3>1. cli'[d] = cli[d]
      BY <1>3, <2>2
    <3> QED BY <1>3, <1>4, <2>2, <3>1, OthersKnown
  <2> QED BY <2>1, <2>2
<1>6. ProvisionTypeOK'
  BY <1>2, CommandTypes DEF Inv
<1>7. Commands'
  BY <1>5 DEF Commands
<1>8. NoStrandedTenant'
  BY CommandLeavesNoTenant
<1> QED BY <1>2, <1>3, <1>6, <1>7, <1>8 DEF PInv

(* A request runs in a slot that no command has.                           *)
LEMMA RequestStep ==
  ASSUME PInv, NEW r \in Slots, Request(r)
  PROVE  PInv'
<1>1. /\ Step(r) /\ cli[r].stage = "none" /\ principal'[r].key \notin secret
      /\ cli' = cli /\ files' = files /\ secret' = secret /\ stranded' = stranded
  BY DEF Request, At, shell
<1>2. Inv'
  BY <1>1, InvNext DEF PInv, Next
<1>3. Secrecy' /\ UnusedUntilWritten'
  BY <1>1, StepKeepsSecrets DEF PInv
<1>4. /\ \A d \in Slots \ {r} : principal'[d] = principal[d]
      /\ DOMAIN lineage \subseteq DOMAIN lineage'
      /\ \A j \in DOMAIN lineage : lineage'[j] = lineage[j]
      /\ \A j \in DOMAIN keys' : j \in DOMAIN keys \/ j \notin DOMAIN lineage
  BY <1>1, StepEffects DEF PInv
<1>5. ASSUME NEW d \in Slots PROVE Known(cli[d], principal[d])'
  <2>1. CASE d = r
    <3>1. cli[r].key = NoKey
      BY <1>1 DEF PInv, Commands, Known, Created
    <3> QED BY <1>1, <2>1, <3>1 DEF Known, Created
  <2>2. CASE d # r
    <3>1. \A j \in DOMAIN lineage : j \in secret' => j \in secret
      BY <1>1
    <3> QED BY <1>1, <1>4, <2>2, <3>1, OthersKnown
  <2> QED BY <2>1, <2>2
<1>6. NoStrandedTenant'
  <2> SUFFICES ASSUME NEW k \in DOMAIN keys' \cap secret
               PROVE  k \in stranded \/ \E c \in Slots : cli[c].key = k
    BY <1>1 DEF NoStrandedTenant
  <2>1. k \in DOMAIN keys
    BY <1>4 DEF PInv, Secrecy
  <2> QED BY <2>1 DEF PInv, NoStrandedTenant
<1>7. ProvisionTypeOK'
  BY <1>1, <1>2 DEF PInv, ProvisionTypeOK, Inv
<1>8. Commands'
  BY <1>5 DEF Commands
<1> QED BY <1>2, <1>3, <1>6, <1>7, <1>8 DEF PInv

(* The service purges, or does nothing.                                    *)
LEMMA PurgeStep ==
  ASSUME PInv, UNCHANGED shell, UNCHANGED vars \/ \E t \in Tenants : Expire(t)
  PROVE  PInv'
<1>1. cli' = cli /\ files' = files /\ secret' = secret /\ stranded' = stranded
  BY DEF shell
<1>2. Inv'
  BY InvNext DEF PInv, Next
<1>3. keys' = keys /\ principal' = principal /\ era' = era /\ lineage' = lineage
  BY DEF vars, accounts, history, Expire
<1>4. \A t \in Tenants : KeysOf(t)' \subseteq KeysOf(t) /\ state'[t] \subseteq state[t]
  <2>1. state \in [Tenants -> SUBSET Keys]
    BY DEF PInv, Inv, TypeOK
  <2> QED BY <1>3, <2>1 DEF KeysOf, Expire, vars, accounts
<1>5. Secrecy' /\ UnusedUntilWritten'
  BY <1>1, <1>3, <1>4, SecretShrinks DEF PInv, Secrecy, history
<1>6. NoStrandedTenant'
  BY <1>1, <1>3 DEF PInv, NoStrandedTenant
<1>7. Commands' /\ ProvisionTypeOK'
  BY <1>1, <1>2, <1>3 DEF PInv, Commands, Known, ProvisionTypeOK, Inv
<1> QED BY <1>2, <1>5, <1>6, <1>7 DEF PInv

LEMMA PInvNext == PInv /\ [ProvisionNext]_provisioned => PInv'
<1> SUFFICES ASSUME PInv, [ProvisionNext]_provisioned PROVE PInv'
  OBVIOUS
<1>1. CASE UNCHANGED provisioned
  BY <1>1, PurgeStep DEF provisioned
<1>2. ASSUME NEW r \in Slots, Command(r) \/ Request(r) PROVE PInv'
  BY <1>2, CommandStep, RequestStep
<1>3. ASSUME NEW t \in Tenants, Purge(t) PROVE PInv'
  BY <1>3, PurgeStep DEF Purge
<1> QED BY <1>1, <1>2, <1>3 DEF ProvisionNext

LEMMA ProvisionInvariance == ProvisionSpec => []PInv
  BY PInvInit, PInvNext, PTL DEF ProvisionSpec

-----------------------------------------------------------------------------
(***************************************************************************)
(* Files.                                                                  *)
(***************************************************************************)

(* The commands between O_EXCL and the last write.                         *)
Writing(command) == command.stage \in {"opened", "copying"}

(* Each has a partial file that no other command is writing.               *)
Owned ==
  \A c \in Slots :
    /\ cli[c].stage \notin {"none", "deleting"} => cli[c].path \in Paths
    /\ Writing(cli[c]) => files[cli[c].path] = "partial"
    /\ \A d \in Slots : Writing(cli[c]) /\ Writing(cli[d]) /\ c # d => cli[c].path # cli[d].path

(* A command leaves the files alone, creates one that was absent, or ends  *)
(* the one it has created.                                                 *)
LEMMA CommandFiles ==
  ASSUME PInv, Owned, NEW c \in Slots, Command(c)
  PROVE  /\ cli'[c].stage \notin {"none", "deleting"} => cli'[c].path \in Paths
         /\ \/ files' = files /\ ~Writing(cli'[c])
            \/ /\ cli'[c].path \in Paths /\ files[cli'[c].path] = "absent"
               /\ files' = [files EXCEPT ![cli'[c].path] = "partial"]
            \/ /\ Writing(cli[c]) /\ ~Writing(cli'[c])
               /\ \E x : files' = [files EXCEPT ![cli[c].path] = x]
<1> DEFINE Goal ==
      /\ cli'[c].stage \notin {"none", "deleting"} => cli'[c].path \in Paths
      /\ \/ files' = files /\ ~Writing(cli'[c])
         \/ /\ cli'[c].path \in Paths /\ files[cli'[c].path] = "absent"
            /\ files' = [files EXCEPT ![cli'[c].path] = "partial"]
         \/ /\ Writing(cli[c]) /\ ~Writing(cli'[c])
            /\ \E x : files' = [files EXCEPT ![cli[c].path] = x]
<1>1. /\ cli \in [Slots -> [stage : Stages, tenant : Tenants \cup {"none"},
                              path : Paths \cup {"none"}, key : Keys \cup {NoKey}]]
      /\ cli[c].stage \notin {"none", "deleting"} => cli[c].path \in Paths
  BY DEF PInv, ProvisionTypeOK, Owned
<1>2. ASSUME Exit(c) PROVE cli'[c].stage = "none" /\ ~Writing(cli'[c])
  BY <1>1, <1>2 DEF Exit, NoCommand, Writing
<1>3. ASSUME NEW t \in Tenants, NEW p \in Paths, CreateCommand(c, t, p) PROVE Goal
  BY <1>1, <1>3 DEF CreateCommand, Writing
<1>4. ASSUME NEW t \in Tenants, DeleteCommand(c, t) PROVE Goal
  BY <1>1, <1>4 DEF DeleteCommand, NoCommand, Writing
<1>5. ASSUME NEW k \in Keys, Create(c, k) PROVE Goal
  BY <1>1, <1>5 DEF Create, At, Writing
<1>6. ASSUME NEW p \in Paths, BackupCommand(c, p) PROVE Goal
  BY <1>1, <1>6 DEF BackupCommand, NoCommand, Exclusive, Writing
<1>7. CASE Open(c)
  BY <1>1, <1>7 DEF Open, At, To, Write, Exclusive, Writing
<1>8. CASE WriteKey(c)
  <2>1. cli[c].stage = "opened" /\ cli'[c].stage = "written" /\ cli'[c].path = cli[c].path
    BY <1>1, <1>8 DEF WriteKey, At, To
  <2> QED BY <1>1, <1>8, <2>1 DEF WriteKey, Write, Writing
<1>9. CASE Fail(c)
  BY <1>1, <1>9 DEF Fail, At, To, Writing
<1>10. CASE BackupEnds(c)
  BY <1>2, <1>10 DEF BackupEnds, At, Write, Writing
<1>11. CASE Delete(c) \/ Refused(c) \/ Synced(c) \/ CleanUp(c) \/ CleanUpFails(c) \/ Kill(c)
  BY <1>2, <1>11 DEF Delete, Refused, Synced, CleanUp, CleanUpFails, Kill
<1>12. ASSUME \/ \E t \in Tenants, p \in Paths : CreateCommand(c, t, p)
              \/ \E t \in Tenants : DeleteCommand(c, t)
              \/ \E k \in Keys : Create(c, k)
              \/ \E p \in Paths : BackupCommand(c, p)
       PROVE  Goal
  BY <1>3, <1>4, <1>5, <1>6, <1>12
<1>13. Goal
  BY <1>7, <1>8, <1>9, <1>10, <1>11, <1>12 DEF Command
<1> QED BY <1>13

Kept == \A p \in Paths : files[p] \in Keys \cup {"backup"} => files'[p] = files[p]

(* Whoever is writing goes on alone, and finished files stay.              *)
LEMMA FilesStep ==
  ASSUME PInv, Owned, [ProvisionNext]_provisioned
  PROVE  Owned' /\ Kept
<1>1. ASSUME UNCHANGED shell PROVE Owned' /\ Kept
  BY <1>1 DEF shell, Owned, Writing, Kept
<1>2. ASSUME NEW c \in Slots, Command(c) PROVE Owned' /\ Kept
  <2>1. /\ files \in [Paths -> {"absent", "partial", "backup"} \cup Keys]
        /\ \A d \in Slots \ {c} : cli'[d] = cli[d]
    <3>1. cli' = [cli EXCEPT ![c] = cli'[c]] /\ DOMAIN cli = Slots
      BY <1>2, CommandEffects DEF PInv, ProvisionTypeOK
    <3>2. files \in [Paths -> {"absent", "partial", "backup"} \cup Keys]
      BY DEF PInv, ProvisionTypeOK
    <3> QED BY <3>1, <3>2
  <2>2. \A d \in Slots : cli'[d].stage \notin {"none", "deleting"} => cli'[d].path \in Paths
    BY <1>2, <2>1, CommandFiles DEF Owned
  <2>3. \A d \in Slots : Writing(cli[d]) => cli[d].path \in Paths /\ files[cli[d].path] = "partial"
    BY DEF Owned, Writing
  <2>4. CASE files' = files /\ ~Writing(cli'[c])
    BY <2>1, <2>2, <2>4 DEF Owned, Kept
  <2>5. CASE /\ cli'[c].path \in Paths /\ files[cli'[c].path] = "absent"
             /\ files' = [files EXCEPT ![cli'[c].path] = "partial"]
    <3>1. Kept
      BY <2>1, <2>5, ProvisionAssumption DEF Kept
    <3>2. \A d \in Slots \ {c} : Writing(cli[d]) => cli[d].path # cli'[c].path
      BY <2>3, <2>5
    <3>3. \A d \in Slots : Writing(cli'[d]) => files'[cli'[d].path] = "partial"
      BY <2>1, <2>3, <2>5, <3>2
    <3>4. \A d, e \in Slots :
            Writing(cli'[d]) /\ Writing(cli'[e]) /\ d # e => cli'[d].path # cli'[e].path
      BY <2>1, <3>2 DEF Owned
    <3> QED BY <2>2, <3>1, <3>3, <3>4 DEF Owned
  <2>6. CASE /\ Writing(cli[c]) /\ ~Writing(cli'[c])
             /\ \E x : files' = [files EXCEPT ![cli[c].path] = x]
    <3>1. Kept
      BY <2>1, <2>3, <2>6, ProvisionAssumption DEF Kept
    <3>2. \A d \in Slots \ {c} : Writing(cli[d]) => cli[d].path # cli[c].path
      BY <2>6 DEF Owned
    <3>3. \A d \in Slots : Writing(cli'[d]) => files'[cli'[d].path] = "partial"
      BY <2>1, <2>3, <2>6, <3>2
    <3>4. \A d, e \in Slots :
            Writing(cli'[d]) /\ Writing(cli'[e]) /\ d # e => cli'[d].path # cli'[e].path
      BY <2>1, <2>6 DEF Owned
    <3> QED BY <2>2, <3>1, <3>3, <3>4 DEF Owned
  <2> QED BY <1>2, <2>4, <2>5, <2>6, CommandFiles
<1>3. CASE UNCHANGED provisioned
  BY <1>1, <1>3 DEF provisioned
<1>4. ASSUME NEW r \in Slots, Request(r) PROVE Owned' /\ Kept
  BY <1>1, <1>4 DEF Request
<1>5. ASSUME NEW t \in Tenants, Purge(t) PROVE Owned' /\ Kept
  BY <1>1, <1>5 DEF Purge
<1> QED BY <1>2, <1>3, <1>4, <1>5 DEF ProvisionNext

-----------------------------------------------------------------------------
(***************************************************************************)
(* The theorems.                                                           *)
(***************************************************************************)

(* The commands do to the store what the Store contract allows (cli.py     *)
(* works through the same Store as api.py).                                *)
THEOREM ProvisionImplementsAccounts == ProvisionSpec => Spec
<1>1. ProvisionInit => Init
  BY DEF ProvisionInit
<1> QED BY <1>1, StepRefines, ProvisionInvariance, PTL DEF ProvisionSpec, Spec

(* Tables, commands, files and keys have their types (cli.py).             *)
THEOREM ProvisionTypeCorrect == ProvisionSpec => []ProvisionTypeOK
<1>1. PInv => ProvisionTypeOK
  BY DEF PInv
<1> QED BY <1>1, ProvisionInvariance, PTL

(* `tenant create` that fails, at whatever point, leaves no live tenant    *)
(* whose key nobody has, unless the store cannot be reached to clean up or *)
(* the command is killed (cli.py main).                                    *)
THEOREM NoTenantStranded == ProvisionSpec => []NoStrandedTenant
<1>1. PInv => NoStrandedTenant
  BY DEF PInv
<1> QED BY <1>1, ProvisionInvariance, PTL

(* What the clean-up of a failed `tenant create` deletes with its tenant   *)
(* is nobody's: until the key is written no one has used the tenant.       *)
THEOREM CreatedUnused == ProvisionSpec => []UnusedUntilWritten
<1>1. PInv => UnusedUntilWritten
  BY DEF PInv
<1> QED BY <1>1, ProvisionInvariance, PTL

(* O_EXCL keeps finished credentials and backups, whatever commands race   *)
(* for one path (write_private, backup_sqlite).                            *)
THEOREM FilesStay == ProvisionSpec => FilesKept
<1>1. ProvisionInit => Owned
  BY DEF ProvisionInit, Owned, Writing, NoCommand
<1>2. PInv /\ Owned /\ [ProvisionNext]_provisioned => Owned' /\ [Kept]_provisioned
  BY FilesStep
<1>3. [Kept]_provisioned <=>
        [\A p \in Paths : files[p] \in Keys \cup {"backup"} => files'[p] = files[p]]_provisioned
  BY DEF Kept
<1> QED BY <1>1, <1>2, <1>3, ProvisionInvariance, PTL DEF ProvisionSpec, FilesKept
=============================================================================
