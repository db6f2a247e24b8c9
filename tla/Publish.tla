------------------------------- MODULE Publish -------------------------------
(***************************************************************************)
(* Publication of one commitment on Solana Devnet to one output path:      *)
(* `publish` of attest_cli.py, with write_private of cli.py and            *)
(* verify_finalized of solana_attest.py.  Several invocations may run at   *)
(* once or one after another, each may fail or be killed at any point, and *)
(* the answers of the RPC node may be lost; two files remember what was    *)
(* done: OUTPUT.pending.json and OUTPUT.                                   *)
(*                                                                         *)
(* A transaction is its signature, which commitment, key and blockhash     *)
(* determine.  The ledger is external.                                     *)
(***************************************************************************)
EXTENDS Integers

CONSTANTS
  Runs,        \* invocations in progress
  Signatures,  \* one per recent blockhash
  NoSignature,
  Absent,      \* a file that does not exist
  Partial,     \* a file that was created but not written to the end
  MAX_POLLS    \* bound: status polls in wait_seconds (45 s, one per 1.5 s)

ASSUME PublishAssumption ==
  /\ Signatures \cap {NoSignature, Absent, Partial} = {} /\ Absent # Partial
  /\ MAX_POLLS \in Nat

VARIABLES
  pending,   \* OUTPUT.pending.json: Absent, Partial or the signature it names
  receipt,   \* OUTPUT: likewise
  run,       \* invocation -> [at, signature, polls]
  ledger     \* signature -> what has become of the transaction

files == <<pending, receipt>>
vars  == <<files, run, ledger>>

Ended == [at |-> "ended", signature |-> NoSignature, polls |-> 0]

Init ==
  /\ pending = Absent /\ receipt = Absent
  /\ run = [p \in Runs |-> Ended]
  /\ ledger = [s \in Signatures |-> "unsent"]

Goto(p, at) == run' = [run EXCEPT ![p].at = at]

-----------------------------------------------------------------------------
(* `output.exists() or pending.exists()` refuses the path.                 *)
Start(p) ==
  /\ run[p] = Ended
  /\ pending = Absent /\ receipt = Absent
  /\ Goto(p, "checked") /\ UNCHANGED <<files, ledger>>

(* A finalized blockhash, the signed transaction, its fee and the balance. *)
Build(p, s) ==
  /\ run[p].at = "checked"
  /\ run' = [run EXCEPT ![p] = [at |-> "built", signature |-> s, polls |-> 0]]
  /\ UNCHANGED <<files, ledger>>

(* Mutant of MayCreate: opened without O_EXCL.                             *)
CreateOrTruncate(file) == file \in {Absent, Partial} \cup Signatures

(* write_private: os.open(path, O_WRONLY | O_CREAT | O_EXCL, 0o600), then  *)
(* the contents and fsync.                                                 *)
MayCreate(file) == file = Absent

CreatePending(p) ==
  /\ run[p].at = "built" /\ MayCreate(pending)
  /\ pending' = Partial
  /\ Goto(p, "recording") /\ UNCHANGED <<receipt, ledger>>

Record(p) ==
  /\ run[p].at = "recording"
  /\ pending' = run[p].signature
  /\ Goto(p, "recorded") /\ UNCHANGED <<receipt, ledger>>

(* Mutant of ReadyToSend: sent before it is recorded.                      *)
SendFirst(p) == run[p].at \in {"built", "recorded"}

ReadyToSend(p) == run[p].at = "recorded"

(* sendTransaction reaches the cluster, and its answer arrives (the run    *)
(* goes on to poll) or does not, or names another signature.               *)
Send(p) ==
  /\ ReadyToSend(p)
  /\ ledger' = [ledger EXCEPT ![run[p].signature] = IF @ = "unsent" THEN "sent" ELSE @]
  /\ run' \in {[run EXCEPT ![p] = Ended], [run EXCEPT ![p].at = "polling"]}
  /\ UNCHANGED files

(* Mutant of InTime: off by one.                                           *)
OneMorePoll(p) == run[p].polls <= MAX_POLLS

(* time.monotonic() < deadline                                             *)
InTime(p) == run[p].polls < MAX_POLLS

(* Mutant of Counted: time stands still.                                   *)
Uncounted(r) == r

Counted(r) == [r EXCEPT !.polls = @ + 1]

(* Mutant of Finalized: a confirmed transaction is taken for final.        *)
Confirmed(s) == ledger[s] \in {"confirmed", "finalized"}

Finalized(s) == ledger[s] = "finalized"

(* The node reports the ledger or, lagging, less; a failed transaction, a  *)
(* malformed answer and no answer at all end the run (Fail).               *)
Poll(p) ==
  /\ run[p].at = "polling" /\ InTime(p)
  /\ \/ Finalized(run[p].signature) /\ Goto(p, "verifying")
     \/ run' = [run EXCEPT ![p] = Counted(@)]
  /\ UNCHANGED <<files, ledger>>

(* verify_finalized reads the transaction and its status again.            *)
Verify(p) ==
  /\ run[p].at = "verifying" /\ Finalized(run[p].signature)
  /\ Goto(p, "verified") /\ UNCHANGED <<files, ledger>>

CreateReceipt(p) ==
  /\ run[p].at = "verified" /\ MayCreate(receipt)
  /\ receipt' = Partial
  /\ Goto(p, "receipting") /\ UNCHANGED <<pending, ledger>>

Finish(p) ==
  /\ run[p].at = "receipting"
  /\ receipt' = run[p].signature
  /\ run' = [run EXCEPT ![p] = Ended] /\ UNCHANGED <<pending, ledger>>

(* The file exists after all (FileExistsError), or the deadline passes.    *)
GiveUp(p) ==
  /\ \/ run[p].at = "built" /\ ~MayCreate(pending)
     \/ run[p].at = "verified" /\ ~MayCreate(receipt)
     \/ run[p].at = "polling" /\ ~InTime(p)
  /\ run' = [run EXCEPT ![p] = Ended] /\ UNCHANGED <<files, ledger>>

(* Another check, call or write raises, or the process is killed: what is  *)
(* on disk stays.                                                          *)
Fail(p) ==
  /\ run[p] # Ended
  /\ run' = [run EXCEPT ![p] = Ended] /\ UNCHANGED <<files, ledger>>

(* The ledger (external): a transaction may be included, rolled back with  *)
(* its fork, fail, or expire with its blockhash; what is final stays.      *)
Ledger(s) ==
  /\ \E next \in {"confirmed", "finalized", "failed", "expired", "sent"} :
       /\ <<ledger[s], next>> \in {<<"sent", "confirmed">>, <<"sent", "failed">>,
                                   <<"sent", "expired">>, <<"confirmed", "finalized">>,
                                   <<"confirmed", "sent">>}
       /\ ledger' = [ledger EXCEPT ![s] = next]
  /\ UNCHANGED <<files, run>>

-----------------------------------------------------------------------------
Work(p) ==
  \/ \E s \in Signatures : Build(p, s)
  \/ CreatePending(p) \/ Record(p) \/ Send(p) \/ Poll(p) \/ Verify(p)
  \/ CreateReceipt(p) \/ Finish(p) \/ GiveUp(p)

Next ==
  \/ \E p \in Runs : Start(p) \/ Work(p) \/ Fail(p)
  \/ \E s \in Signatures : Ledger(s)

(* A started process keeps running, unless it is killed.                   *)
Fairness == \A p \in Runs : WF_vars(Work(p))

Spec == Init /\ [][Next]_vars /\ Fairness

-----------------------------------------------------------------------------
Contents == {Absent, Partial} \cup Signatures

(* Files, runs and ledger have their types; no run outlasts its deadline.  *)
TypeOK ==
  /\ pending \in Contents /\ receipt \in Contents
  /\ run \in [Runs -> [at : {"ended", "checked", "built", "recording", "recorded", "polling",
                             "verifying", "verified", "receipting"},
                       signature : Signatures \cup {NoSignature}, polls : 0..MAX_POLLS]]
  /\ ledger \in [Signatures ->
       {"unsent", "sent", "confirmed", "finalized", "failed", "expired"}]

Submitted == {s \in Signatures : ledger[s] # "unsent"}

(* However often and however concurrently it is attempted, and wherever it *)
(* is cut short, publishing to one path submits at most one transaction.   *)
OneSubmission == \A s, t \in Submitted : s = t

(* What has been submitted is named by a pending file written to its end:  *)
(* a transaction whose answer was lost can always be found again.          *)
SubmissionRecorded == \A s \in Submitted : pending = s

(* A receipt written to its end names the recorded, finalized transaction. *)
ReceiptIsFinal == receipt \in Signatures => ledger[receipt] = "finalized" /\ receipt = pending

(* Every invocation ends, even if the transaction never becomes final.     *)
PublishEnds == \A p \in Runs : run[p] # Ended ~> run[p] = Ended
=============================================================================
