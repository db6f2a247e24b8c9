------------------------------ MODULE Provision ------------------------------
(***************************************************************************)
(* The operator's commands (cli.py) beside the running service: tenant     *)
(* create and delete, purge and backup.  A command is a process of its own *)
(* that works on the service's store (Accounts) and on the file system; it *)
(* takes a slot, as a request does.                                        *)
(*                                                                         *)
(* `tenant create` first creates the tenant, then writes its key to a file *)
(* nobody else may have created; if that fails, it deletes the tenant by   *)
(* its ID.  Until the key has been written, no client can present it.      *)
(***************************************************************************)
EXTENDS Accounts

CONSTANT Paths   \* what --output may name

(* The other contents a file may have are told apart from keys.            *)
ASSUME ProvisionAssumption == Keys \cap {"absent", "partial", "backup"} = {}

VARIABLES
  cli,        \* slot -> how far its command is, or NoCommand
  files,      \* path -> "absent", "partial", "backup" or the key written to it
  secret,     \* the keys only the command that drew them has seen
  stranded    \* history: secret keys of commands killed or unable to clean up

shell       == <<cli, files, secret, stranded>>
provisioned == <<vars, shell>>

NoCommand == [stage |-> "none", tenant |-> "none", path |-> "none", key |-> NoKey]

ProvisionInit ==
  /\ Init
  /\ cli = [c \in Slots |-> NoCommand]
  /\ files = [p \in Paths |-> "absent"]
  /\ secret = {} /\ stranded = {}

At(c, stage) == cli[c].stage = stage
To(c, stage) == cli' = [cli EXCEPT ![c].stage = stage]
Exit(c)      == cli' = [cli EXCEPT ![c] = NoCommand]

Write(c, content) == files' = [files EXCEPT ![cli[c].path] = content]

(* Mutant of Exclusive: O_TRUNC for O_EXCL.                                *)
Truncate(p) == files[p] # "partial"

(* O_CREAT | O_EXCL.                                                       *)
Exclusive(p) == files[p] = "absent"

-----------------------------------------------------------------------------
(***************************************************************************)
(* tenant create and tenant delete.                                        *)
(***************************************************************************)

(* Path(output).exists() is asked first; the file is opened much later.    *)
CreateCommand(c, t, p) ==
  /\ At(c, "none") /\ Exclusive(p) /\ Operator(c, t)
  /\ cli' = [cli EXCEPT ![c] = [stage |-> "creating", tenant |-> t, path |-> p, key |-> NoKey]]
  /\ UNCHANGED <<files, secret, stranded>>

DeleteCommand(c, t) ==
  /\ At(c, "none") /\ Operator(c, t)
  /\ cli' = [cli EXCEPT ![c] = [NoCommand EXCEPT !.stage = "deleting", !.tenant = t]]
  /\ UNCHANGED <<files, secret, stranded>>

Create(c, k) ==
  /\ At(c, "creating") /\ CreateTenant(c, k)
  /\ cli' = [cli EXCEPT ![c].stage = "created", ![c].key = k]
  /\ secret' = secret \cup {k}
  /\ UNCHANGED <<files, stranded>>

Delete(c) ==
  /\ At(c, "deleting") /\ DeleteTenant(c)
  /\ Exit(c) /\ UNCHANGED <<files, secret, stranded>>

(* TenantExists, or the store does not answer.                             *)
Refused(c) ==
  /\ At(c, "creating") \/ At(c, "deleting")
  /\ Refuse(c) /\ Exit(c) /\ UNCHANGED <<files, secret, stranded>>

(* write_private: the file is opened, written and synced.                  *)
Open(c) ==
  /\ At(c, "created") /\ Exclusive(cli[c].path)
  /\ Write(c, "partial") /\ To(c, "opened")
  /\ UNCHANGED <<vars, secret, stranded>>

WriteKey(c) ==
  /\ At(c, "opened")
  /\ Write(c, cli[c].key) /\ To(c, "written")
  /\ secret' = secret \ {cli[c].key}
  /\ UNCHANGED <<vars, stranded>>

Synced(c) ==
  /\ At(c, "written")
  /\ Exit(c) /\ UNCHANGED <<vars, files, secret, stranded>>

(* Mutant of Fail: the error is reported and nothing is undone.            *)
FailOnly(c) ==
  /\ At(c, "created") \/ At(c, "opened") \/ At(c, "written")
  /\ Exit(c) /\ UNCHANGED <<vars, files, secret, stranded>>

(* Any of the three fails; what has reached the file stays there.          *)
Fail(c) ==
  /\ At(c, "created") \/ At(c, "opened") \/ At(c, "written")
  /\ Operator(c, cli[c].tenant)
  /\ To(c, "cleaning") /\ UNCHANGED <<files, secret, stranded>>

CleanUp(c) ==
  /\ At(c, "cleaning") /\ DeleteTenant(c)
  /\ Exit(c) /\ UNCHANGED <<files, secret, stranded>>

(* delete_tenant itself raises.                                            *)
CleanUpFails(c) ==
  /\ At(c, "cleaning") /\ Refuse(c)
  /\ stranded' = stranded \cup ({cli[c].key} \cap secret)
  /\ Exit(c) /\ UNCHANGED <<files, secret>>

-----------------------------------------------------------------------------
(***************************************************************************)
(* The other commands, and the end of any.                                 *)
(***************************************************************************)

(* backup_sqlite; its snapshot is taken by SQLite (external).              *)
BackupCommand(c, p) ==
  /\ At(c, "none") /\ principal[c] = Idle /\ Exclusive(p)
  /\ cli' = [cli EXCEPT ![c] = [NoCommand EXCEPT !.stage = "copying", !.path = p]]
  /\ files' = [files EXCEPT ![p] = "partial"]
  /\ UNCHANGED <<vars, secret, stranded>>

(* The copy is complete, or fails and its own file is removed.             *)
BackupEnds(c) ==
  /\ At(c, "copying")
  /\ Write(c, "backup") \/ Write(c, "absent")
  /\ Exit(c) /\ UNCHANGED <<vars, secret, stranded>>

Purge(t) == Expire(t) /\ UNCHANGED shell

(* SIGKILL, power loss, or an exception that is not an Exception.          *)
Kill(c) ==
  /\ ~At(c, "none")
  /\ stranded' = stranded \cup ({cli[c].key} \cap secret)
  /\ Reply(c) /\ Exit(c)
  /\ UNCHANGED <<accounts, history, files, secret>>

(* A request to the service; a client presents only keys it was given.     *)
Request(r) ==
  /\ At(r, "none") /\ Step(r) /\ principal'[r].key \notin secret
  /\ UNCHANGED shell

Command(c) ==
  \/ \E t \in Tenants, p \in Paths : CreateCommand(c, t, p)
  \/ \E t \in Tenants : DeleteCommand(c, t)
  \/ \E k \in Keys : Create(c, k)
  \/ \E p \in Paths : BackupCommand(c, p)
  \/ Delete(c) \/ Refused(c)
  \/ Open(c) \/ WriteKey(c) \/ Synced(c) \/ Fail(c) \/ CleanUp(c) \/ CleanUpFails(c)
  \/ BackupEnds(c) \/ Kill(c)

ProvisionNext ==
  \/ \E r \in Slots : Command(r) \/ Request(r)
  \/ \E t \in Tenants : Purge(t)

ProvisionSpec == ProvisionInit /\ [][ProvisionNext]_provisioned

-----------------------------------------------------------------------------
Stages == {"none", "creating", "created", "opened", "written", "cleaning",
           "deleting", "copying"}

(* Tables, commands and files have their types.                            *)
ProvisionTypeOK ==
  /\ TypeOK
  /\ cli \in [Slots -> [stage : Stages, tenant : Tenants \cup {"none"},
                           path : Paths \cup {"none"}, key : Keys \cup {NoKey}]]
  /\ files \in [Paths -> {"absent", "partial", "backup"} \cup Keys]
  /\ secret \subseteq Keys /\ stranded \subseteq Keys

(* A key that no client has seen belongs to no live tenant once its command*)
(* has ended: `tenant create` leaves no tenant behind that nobody can use, *)
(* unless it was killed or could not reach the store to clean up.          *)
NoStrandedTenant ==
  \A k \in DOMAIN keys \cap secret :
    k \in stranded \/ \E c \in Slots : cli[c].key = k

(* While the key of a `tenant create` is still to be written, the tenant it*)
(* created is empty and has no other key, however often its ID was deleted *)
(* and taken by others: the clean-up, which deletes by ID, takes nobody's  *)
(* data along unless another operator has deleted its tenant and taken the *)
(* ID again.  Once the key has reached the file it is no secret, although  *)
(* the command may still fail: a clean-up after that is not covered.       *)
UnusedUntilWritten ==
  \A k \in secret, t \in Tenants :
    lineage[k] = <<t, era[t]>> => KeysOf(t) \subseteq {k} /\ state[t] = {}

(* A written credential or backup is never overwritten or removed, even    *)
(* when two commands have found the same path free.                        *)
FilesKept ==
  [][\A p \in Paths : files[p] \in Keys \cup {"backup"} => files'[p] = files[p]]_provisioned
=============================================================================
