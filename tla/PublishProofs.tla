---------------------------- MODULE PublishProofs ----------------------------
(***************************************************************************)
(* Publish's safety for any number of invocations and blockhashes.  The    *)
(* argument is exclusive creation: whoever creates the pending file is the *)
(* only one ever to write it, and only that invocation goes on to send.    *)
(***************************************************************************)
EXTENDS Publish, TLAPS

(* Invocations that have written the pending file to its end.              *)
Sender(p) == run[p].at \in {"recorded", "polling", "verifying", "verified", "receipting"}

(* What the pending file says about the invocations and the ledger.        *)
Exclusive ==
  /\ \A p \in Runs : run[p].at = "recording" => pending = Partial
  /\ \A p, q \in Runs : run[p].at = "recording" /\ run[q].at = "recording" => p = q
  /\ \A p \in Runs : Sender(p) => pending = run[p].signature

(* An invocation that has built a transaction knows its signature.         *)
Named == \A p \in Runs : run[p].at \notin {"ended", "checked"} => run[p].signature \in Signatures

(* What an invocation has verified is final.                               *)
Checked == \A p \in Runs : run[p].at \in {"verified", "receipting"} => Finalized(run[p].signature)

IndInv == TypeOK /\ Exclusive /\ Named /\ Checked /\ SubmissionRecorded /\ ReceiptIsFinal

(* Nothing is submitted and no file exists.                                *)
LEMMA IndInvInit == Init => IndInv
<1> SUFFICES ASSUME Init PROVE IndInv
  OBVIOUS
<1>1. \A p \in Runs : run[p] = Ended
  BY DEF Init
<1>2. \A p \in Runs : run[p].at = "ended"
  <2>1. Ended.at = "ended"
    BY DEF Ended
  <2> QED BY <1>1, <2>1
<1>3. TypeOK
  <2>1. Ended \in [at : {"ended", "checked", "built", "recording", "recorded", "polling",
                        "verifying", "verified", "receipting"},
                  signature : Signatures \cup {NoSignature}, polls : 0..MAX_POLLS]
    BY PublishAssumption DEF Ended
  <2> QED BY <2>1 DEF Init, TypeOK, Contents
<1> QED BY <1>2, <1>3, PublishAssumption DEF Init, IndInv, Exclusive, Named, Checked, Sender,
             SubmissionRecorded, Submitted, ReceiptIsFinal

(* One invocation moves on, and the others stay.                           *)
LEMMA Moves ==
  ASSUME IndInv, NEW p \in Runs, NEW at,
         at \in {"ended", "checked", "built", "recording", "recorded", "polling",
                 "verifying", "verified", "receipting"},
         Goto(p, at)
  PROVE  /\ run' \in [Runs -> [at : {"ended", "checked", "built", "recording", "recorded",
                                     "polling", "verifying", "verified", "receipting"},
                               signature : Signatures \cup {NoSignature}, polls : 0..MAX_POLLS]]
         /\ run'[p].at = at /\ run'[p].signature = run[p].signature
         /\ \A q \in Runs : q # p => run'[q] = run[q]
  BY DEF IndInv, TypeOK, Goto

(* A step that leaves files and ledger alone keeps the invariant if it     *)
(* leaves an invocation where the files allow it to be.                    *)
LEMMA QuietStep ==
  ASSUME IndInv, NEW p \in Runs, UNCHANGED <<files, ledger>>,
         run' \in [Runs -> [at : {"ended", "checked", "built", "recording", "recorded", "polling",
                                  "verifying", "verified", "receipting"},
                            signature : Signatures \cup {NoSignature}, polls : 0..MAX_POLLS]],
         \A q \in Runs : q # p => run'[q] = run[q],
         \/ run'[p].at \in {"ended", "checked"}
         \/ run'[p].at = "built" /\ run'[p].signature \in Signatures
         \/ Sender(p) /\ run'[p].at \in {"polling", "verifying"} /\ run'[p].signature = run[p].signature
         \/ /\ Sender(p) /\ run'[p].at = "verified" /\ run'[p].signature = run[p].signature
            /\ Finalized(run[p].signature)
  PROVE  IndInv'
<1>1. pending' = pending /\ receipt' = receipt /\ ledger' = ledger
  BY DEF files
<1>2. TypeOK'
  BY <1>1 DEF IndInv, TypeOK
<1>3. Exclusive'
  BY <1>1 DEF IndInv, Exclusive, Sender
<1>4. Named'
  BY <1>1 DEF IndInv, Named, Sender
<1>5. Checked'
  BY <1>1 DEF IndInv, Checked, Finalized
<1>6. SubmissionRecorded' /\ ReceiptIsFinal'
  BY <1>1 DEF IndInv, SubmissionRecorded, Submitted, ReceiptIsFinal
<1> QED BY <1>2, <1>3, <1>4, <1>5, <1>6 DEF IndInv

(* Exclusive creation: nobody else is past the check of the files.         *)
LEMMA CreatePendingStep ==
  ASSUME IndInv, NEW p \in Runs, CreatePending(p)
  PROVE  IndInv'
<1>1. /\ run[p].at = "built" /\ pending = Absent /\ pending' = Partial
      /\ receipt' = receipt /\ ledger' = ledger /\ Goto(p, "recording")
  BY DEF CreatePending, MayCreate
<1>2. /\ run'[p].at = "recording" /\ run'[p].signature = run[p].signature
      /\ \A q \in Runs : q # p => run'[q] = run[q]
  BY <1>1, Moves
<1>3. \A q \in Runs : ~Sender(q) /\ run[q].at # "recording"
  BY <1>1, PublishAssumption DEF IndInv, Exclusive, Named, Sender
<1>4. Submitted = {} /\ receipt \notin Signatures
  BY <1>1, PublishAssumption DEF IndInv, SubmissionRecorded, ReceiptIsFinal, Submitted
<1>5. TypeOK'
  BY <1>1, Moves DEF IndInv, TypeOK, Contents
<1>6. Exclusive'
  BY <1>1, <1>2, <1>3 DEF Exclusive, Sender
<1>7. Named' /\ Checked'
  BY <1>1, <1>2, <1>3 DEF IndInv, Named, Checked, Finalized, Sender
<1>8. SubmissionRecorded' /\ ReceiptIsFinal'
  BY <1>1, <1>4 DEF SubmissionRecorded, Submitted, ReceiptIsFinal
<1> QED BY <1>5, <1>6, <1>7, <1>8 DEF IndInv

(* The one that created the file writes it.                                *)
LEMMA RecordStep ==
  ASSUME IndInv, NEW p \in Runs, Record(p)
  PROVE  IndInv'
<1>1. /\ run[p].at = "recording" /\ pending' = run[p].signature
      /\ receipt' = receipt /\ ledger' = ledger /\ Goto(p, "recorded")
  BY DEF Record
<1>2. /\ run'[p].at = "recorded" /\ run'[p].signature = run[p].signature
      /\ \A q \in Runs : q # p => run'[q] = run[q]
  BY <1>1, Moves
<1>3. pending = Partial /\ run[p].signature \in Signatures
  BY <1>1 DEF IndInv, Exclusive, Named
<1>4. \A q \in Runs : ~Sender(q)
  BY <1>3, PublishAssumption DEF IndInv, Exclusive, Named, Sender
<1>5. \A q \in Runs : q # p => run[q].at # "recording"
  BY <1>1 DEF IndInv, Exclusive
<1>6. Submitted = {} /\ receipt \notin Signatures
  BY <1>3, PublishAssumption DEF IndInv, SubmissionRecorded, ReceiptIsFinal, Submitted
<1>7. TypeOK'
  BY <1>1, <1>3, Moves DEF IndInv, TypeOK, Contents
<1>8. Exclusive'
  BY <1>1, <1>2, <1>4, <1>5 DEF Exclusive, Sender
<1>9. Named' /\ Checked'
  BY <1>1, <1>2, <1>4 DEF IndInv, Named, Checked, Finalized, Sender
<1>10. SubmissionRecorded' /\ ReceiptIsFinal'
  BY <1>1, <1>6 DEF SubmissionRecorded, Submitted, ReceiptIsFinal
<1> QED BY <1>7, <1>8, <1>9, <1>10 DEF IndInv

(* What is sent is what the pending file names.                            *)
LEMMA SendStep ==
  ASSUME IndInv, NEW p \in Runs, Send(p)
  PROVE  IndInv'
<1> PICK s \in Signatures : s = run[p].signature
  BY DEF IndInv, Named, Send, ReadyToSend
<1>1. /\ run[p].at = "recorded" /\ pending = s
      /\ ledger' = [ledger EXCEPT ![s] = IF @ = "unsent" THEN "sent" ELSE @]
      /\ run' \in {[run EXCEPT ![p] = Ended], [run EXCEPT ![p].at = "polling"]}
      /\ pending' = pending /\ receipt' = receipt
  BY DEF IndInv, Exclusive, Sender, Send, ReadyToSend, files
<1>2. run \in [Runs -> [at : {"ended", "checked", "built", "recording", "recorded", "polling",
                              "verifying", "verified", "receipting"},
                        signature : Signatures \cup {NoSignature}, polls : 0..MAX_POLLS]]
  BY DEF IndInv, TypeOK
<1>3. /\ \A q \in Runs : q # p => run'[q] = run[q]
      /\ \/ run'[p].at = "ended"
         \/ run'[p].at = "polling" /\ run'[p].signature = s
  BY <1>1, <1>2 DEF Ended
<1>4. /\ ledger \in [Signatures -> {"unsent", "sent", "confirmed", "finalized", "failed", "expired"}]
      /\ \A t \in Signatures : ledger'[t] # ledger[t] => t = s /\ ledger[t] = "unsent"
  BY <1>1 DEF IndInv, TypeOK
<1>5. TypeOK'
  <2>1. Ended \in [at : {"ended", "checked", "built", "recording", "recorded", "polling",
                              "verifying", "verified", "receipting"},
                        signature : Signatures \cup {NoSignature}, polls : 0..MAX_POLLS]
    BY PublishAssumption DEF Ended
  <2>2. ledger' \in [Signatures -> {"unsent", "sent", "confirmed", "finalized", "failed", "expired"}]
    BY <1>1, <1>4
  <2> QED BY <1>1, <1>2, <2>1, <2>2 DEF IndInv, TypeOK
<1>6. Exclusive'
  BY <1>1, <1>3 DEF IndInv, Exclusive, Sender
<1>7. Named'
  BY <1>3 DEF IndInv, Named
<1>8. \A t \in Signatures : ledger[t] = "finalized" => ledger'[t] = "finalized"
  BY <1>4
<1>9. Checked'
  BY <1>3, <1>8 DEF IndInv, Checked, Named, Finalized
<1>10. SubmissionRecorded'
  BY <1>1, <1>4 DEF IndInv, SubmissionRecorded, Submitted
<1>11. ReceiptIsFinal'
  BY <1>1, <1>8 DEF IndInv, ReceiptIsFinal
<1> QED BY <1>5, <1>6, <1>7, <1>9, <1>10, <1>11 DEF IndInv

(* The receipt is created empty, and then names what was verified.         *)
LEMMA ReceiptStep ==
  ASSUME IndInv, NEW p \in Runs, CreateReceipt(p) \/ Finish(p)
  PROVE  IndInv'
<1>1. /\ run[p].at \in {"verified", "receipting"} /\ pending' = pending /\ ledger' = ledger
      /\ \/ receipt' = Partial /\ Goto(p, "receipting")
         \/ receipt' = run[p].signature /\ run' = [run EXCEPT ![p] = Ended]
  BY DEF CreateReceipt, Finish
<1>2. /\ run[p].signature \in Signatures /\ pending = run[p].signature
      /\ ledger[run[p].signature] = "finalized"
  BY <1>1 DEF IndInv, Named, Exclusive, Sender, Checked, Finalized
<1>3. run \in [Runs -> [at : {"ended", "checked", "built", "recording", "recorded", "polling",
                              "verifying", "verified", "receipting"},
                        signature : Signatures \cup {NoSignature}, polls : 0..MAX_POLLS]]
  BY DEF IndInv, TypeOK
<1>4. /\ \A q \in Runs : q # p => run'[q] = run[q]
      /\ \/ run'[p].at = "ended"
         \/ run'[p].at = "receipting" /\ run'[p].signature = run[p].signature
  BY <1>1, <1>3 DEF Ended, Goto
<1>5. TypeOK'
  <2>1. Ended \in [at : {"ended", "checked", "built", "recording", "recorded", "polling",
                              "verifying", "verified", "receipting"},
                        signature : Signatures \cup {NoSignature}, polls : 0..MAX_POLLS]
    BY PublishAssumption DEF Ended
  <2> QED BY <1>1, <1>2, <1>3, <2>1 DEF IndInv, TypeOK, Contents, Goto
<1>6. Exclusive'
  BY <1>1, <1>2, <1>4 DEF IndInv, Exclusive, Sender
<1>7. Named'
  BY <1>2, <1>4 DEF IndInv, Named
<1>8. Checked'
  BY <1>1, <1>2, <1>4 DEF IndInv, Checked, Finalized
<1>9. SubmissionRecorded'
  BY <1>1 DEF IndInv, SubmissionRecorded, Submitted
<1>10. ReceiptIsFinal'
  BY <1>1, <1>2, PublishAssumption DEF ReceiptIsFinal
<1> QED BY <1>5, <1>6, <1>7, <1>8, <1>9, <1>10 DEF IndInv

(* The ledger never takes back what is final, nor submits by itself.       *)
LEMMA LedgerStep ==
  ASSUME IndInv, NEW s \in Signatures, Ledger(s)
  PROVE  IndInv'
<1>1. /\ pending' = pending /\ receipt' = receipt /\ run' = run
      /\ ledger \in [Signatures -> {"unsent", "sent", "confirmed", "finalized", "failed", "expired"}]
  BY DEF IndInv, TypeOK, Ledger, files
<1>2. PICK next \in {"confirmed", "finalized", "failed", "expired", "sent"} :
        ledger[s] \in {"sent", "confirmed"} /\ ledger' = [ledger EXCEPT ![s] = next]
  BY DEF Ledger
<1>3. /\ ledger' \in [Signatures -> {"unsent", "sent", "confirmed", "finalized", "failed", "expired"}]
      /\ \A t \in Signatures : ledger[t] = "finalized" => ledger'[t] = "finalized"
      /\ \A t \in Signatures : ledger'[t] # "unsent" => ledger[t] # "unsent"
  BY <1>1, <1>2
<1>4. TypeOK' /\ Exclusive' /\ Named'
  BY <1>1, <1>3 DEF IndInv, TypeOK, Exclusive, Sender, Named
<1>5. Checked'
  BY <1>1, <1>3 DEF IndInv, Checked, Named, Finalized
<1>6. SubmissionRecorded' /\ ReceiptIsFinal'
  BY <1>1, <1>3 DEF IndInv, SubmissionRecorded, Submitted, ReceiptIsFinal
<1> QED BY <1>4, <1>5, <1>6 DEF IndInv

(* The steps that leave files and ledger alone.                            *)
LEMMA RunStep ==
  ASSUME IndInv, NEW p \in Runs,
         \/ Start(p) \/ (\E s \in Signatures : Build(p, s))
         \/ Poll(p) \/ Verify(p) \/ GiveUp(p) \/ Fail(p)
  PROVE  IndInv'
<1>1. run \in [Runs -> [at : {"ended", "checked", "built", "recording", "recorded", "polling",
                              "verifying", "verified", "receipting"},
                        signature : Signatures \cup {NoSignature}, polls : 0..MAX_POLLS]]
  BY DEF IndInv, TypeOK
<1>2. /\ Ended \in [at : {"ended", "checked", "built", "recording", "recorded", "polling",
                          "verifying", "verified", "receipting"},
                    signature : Signatures \cup {NoSignature}, polls : 0..MAX_POLLS]
      /\ Ended.at = "ended"
  BY PublishAssumption DEF Ended
<1>3. CASE Start(p)
  BY <1>1, <1>3, QuietStep DEF Start, Goto
<1>4. CASE \E s \in Signatures : Build(p, s)
  <2> PICK s \in Signatures : Build(p, s)
    BY <1>4
  <2>1. run' = [run EXCEPT ![p] = [at |-> "built", signature |-> s, polls |-> 0]]
    BY DEF Build
  <2>2. /\ run'[p].at = "built" /\ run'[p].signature = s
        /\ \A q \in Runs : q # p => run'[q] = run[q]
    BY <1>1, <2>1
  <2>3. [at |-> "built", signature |-> s, polls |-> 0] \in
          [at : {"ended", "checked", "built", "recording", "recorded", "polling",
                 "verifying", "verified", "receipting"},
           signature : Signatures \cup {NoSignature}, polls : 0..MAX_POLLS]
    BY PublishAssumption
  <2> QED BY <1>1, <2>1, <2>2, <2>3, QuietStep DEF Build
<1>5. CASE Poll(p)
  <2>1. /\ run[p].at = "polling" /\ run[p].polls < MAX_POLLS
        /\ \/ Goto(p, "verifying")
           \/ run' = [run EXCEPT ![p] = Counted(run[p])]
        /\ UNCHANGED <<files, ledger>>
    BY <1>5 DEF Poll, InTime
  <2>2. run[p].polls + 1 \in 0..MAX_POLLS
    BY <1>1, <2>1, PublishAssumption
  <2>3. /\ Counted(run[p]) \in
             [at : {"ended", "checked", "built", "recording", "recorded", "polling",
                    "verifying", "verified", "receipting"},
              signature : Signatures \cup {NoSignature}, polls : 0..MAX_POLLS]
        /\ Counted(run[p]).at = run[p].at /\ Counted(run[p]).signature = run[p].signature
    BY <1>1, <2>2 DEF Counted
  <2>4. /\ run'[p].at \in {"polling", "verifying"} /\ run'[p].signature = run[p].signature
        /\ \A q \in Runs : q # p => run'[q] = run[q]
    BY <1>1, <2>1, <2>3 DEF Goto
  <2>5. run' \in [Runs -> [at : {"ended", "checked", "built", "recording", "recorded", "polling",
                                 "verifying", "verified", "receipting"},
                           signature : Signatures \cup {NoSignature}, polls : 0..MAX_POLLS]]
    BY <1>1, <2>1, <2>3 DEF Goto
  <2> QED BY <2>1, <2>4, <2>5, QuietStep DEF Sender
<1>6. CASE Verify(p)
  BY <1>1, <1>6, QuietStep DEF Verify, Goto, Sender
<1>7. CASE GiveUp(p) \/ Fail(p)
  <2>1. run' = [run EXCEPT ![p] = Ended] /\ UNCHANGED <<files, ledger>>
    BY <1>7 DEF GiveUp, Fail
  <2> QED BY <1>1, <1>2, <2>1, QuietStep
<1> QED BY <1>3, <1>4, <1>5, <1>6, <1>7

(* Every step keeps the inductive invariant.                               *)
LEMMA IndInvNext == IndInv /\ [Next]_vars => IndInv'
<1> SUFFICES ASSUME IndInv, [Next]_vars PROVE IndInv'
  OBVIOUS
<1>1. CASE \E p \in Runs : Start(p) \/ Work(p) \/ Fail(p)
  BY <1>1, RunStep, CreatePendingStep, RecordStep, SendStep, ReceiptStep DEF Work
<1>2. CASE \E s \in Signatures : Ledger(s)
  BY <1>2, LedgerStep
<1>3. CASE UNCHANGED vars
  BY <1>3 DEF vars, files, IndInv, TypeOK, Exclusive, Sender, Named, Checked, Finalized,
       SubmissionRecorded, Submitted, ReceiptIsFinal
<1> QED BY <1>1, <1>2, <1>3 DEF Next

(* The inductive invariant holds.                                          *)
LEMMA Invariance == Spec => []IndInv
  BY IndInvInit, IndInvNext, PTL DEF Spec

(* Files, runs and ledger keep their types.                                *)
THEOREM TypeCorrect == Spec => []TypeOK
<1>1. IndInv => TypeOK
  BY DEF IndInv
<1> QED BY <1>1, Invariance, PTL

(* Publishing to one path, by any number of concurrent, failing or killed  *)
(* invocations, submits at most one transaction (publish, write_private).  *)
THEOREM SubmissionCorrect == Spec => []OneSubmission
<1>1. IndInv => OneSubmission
  BY DEF IndInv, SubmissionRecorded, OneSubmission
<1> QED BY <1>1, Invariance, PTL

(* No transaction is submitted that a complete pending file does not name. *)
THEOREM RecordCorrect == Spec => []SubmissionRecorded
<1>1. IndInv => SubmissionRecorded
  BY DEF IndInv
<1> QED BY <1>1, Invariance, PTL

(* A receipt is never written for anything but the finalized transaction.  *)
THEOREM ReceiptCorrect == Spec => []ReceiptIsFinal
<1>1. IndInv => ReceiptIsFinal
  BY DEF IndInv
<1> QED BY <1>1, Invariance, PTL
=============================================================================
