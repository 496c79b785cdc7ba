------------------------ MODULE CommunityPublication ------------------------
(***************************************************************************)
(* The publication of a journal's records on the community chain: the      *)
(* publisher and the corrections of CommunityLedger                        *)
(* (src/worker/src/community-ledger.ts), its client (community-chain.ts)   *)
(* and the sequencing of the Solana program                                *)
(* (src/contracts/programs/community-ledger/src/lib.rs).                   *)
(*                                                                         *)
(* What a record says is left out: CommunityAgreement shows that the       *)
(* program accepts what the journal does, in the same order.  Record       *)
(* ClosedAt closes the journey.  Retry times, leases and the throttle of   *)
(* audits may run out at any moment.                                       *)
(***************************************************************************)
EXTENDS Integers, FiniteSets, SequencesExt

CONSTANTS
  ClosedAt,                                            \* sequence number of the closing record
  MaxRecords, MaxExpiries, MaxRotations, MaxFailures, MaxDrafts  \* bounds

ASSUME PublicationAssumption ==
  /\ ClosedAt \in Nat /\ MaxRecords \in Nat \ {0}
  /\ MaxExpiries \in Nat /\ MaxRotations \in Nat /\ MaxFailures \in Nat /\ MaxDrafts \in Nat

VARIABLES
  rows,        \* the records table, in sequence
  signed,      \* signed transactions of records
  chain,       \* the program's accounts: receipts, withdrawal and issuer
  key,         \* the issuer whose secret key the worker holds
  work,        \* the one alarm under way
  correction,  \* metadata "correction"
  drafts,      \* transactions of corrections the operator was given
  preparing,   \* the sequence number a preparation waits with, or Idle
  expiries, failures

vars == <<rows, signed, chain, key, work, correction, drafts, preparing, expiries, failures>>

Idle == -1
None == 0

(* Transactions are numbered from 1 in order of signing, issuers from 1 in *)
(* order of rotation.  The signed bytes of a row are its submission.       *)
Row == [status: {"pending", "submitted", "retry", "finalized"}, submission: Nat, issuer: Nat,
        withdrawn: BOOLEAN]
Signed == [sequence: Nat, issuer: Nat \ {0}, live: BOOLEAN, sent: BOOLEAN]
Receipt == [submission: Nat \ {0}, issuer: Nat \ {0}]
Chain == [receipts: Seq(Receipt), withdrawal: Nat, issuer: Nat \ {0}]

(* fresh: the operator may still hand in the signed draft.  live: the      *)
(* chain may still take it.                                                *)
Draft == [sequence: Nat, fresh: BOOLEAN, live: BOOLEAN]
Correction == [status: {"none", "pending", "submitted", "retry", "finalized"}, draft: Nat,
               submission: BOOLEAN]
NoCorrection == [status |-> "none", draft |-> None, submission |-> FALSE]

NoRow == [status |-> "pending", submission |-> None, issuer |-> None, withdrawn |-> FALSE]
Resting == [at |-> "resting", sequence |-> Idle, row |-> NoRow, correction |-> NoCorrection]
New == [NoRow EXCEPT !.withdrawn = correction.status = "finalized"]

Publishing == {"preparing", "connected", "unseen", "persisted", "sending", "sent"}

finalized(i) == rows[i + 1].status = "finalized"
unfinished == {i \in 0..Len(rows) - 1 : ~finalized(i)}
onChain(i) == i < Len(chain.receipts)

----------------------------------------------------------------------------
(* publish: one record after the other, the first that is not finalized.   *)

Init ==
  /\ rows = <<>> /\ signed = <<>> /\ drafts = <<>> /\ key = 1
  /\ chain = [receipts |-> <<>>, withdrawal |-> None, issuer |-> 1]
  /\ work = Resting /\ correction = NoCorrection /\ preparing = Idle
  /\ expiries = 0 /\ failures = 0

(* append adds what the journal accepted; it inherits a withdrawal.        *)
AppendRecord ==
  /\ Len(rows) < MaxRecords
  /\ rows' = Append(rows, New)
  /\ UNCHANGED <<signed, chain, key, work, correction, drafts, preparing, expiries, failures>>

StartPublishUnsubmitted ==
  /\ work.at = "resting"
  /\ \E i \in unfinished:
       /\ \A j \in unfinished: i <= j
       /\ rows[i + 1].status # "submitted"
       /\ work' = [Resting EXCEPT !.at = "preparing", !.sequence = i, !.row = rows[i + 1]]
  /\ UNCHANGED <<rows, signed, chain, key, correction, drafts, preparing, expiries, failures>>

StartPublish ==
  /\ work.at = "resting"
  /\ \E i \in unfinished:
       /\ \A j \in unfinished: i <= j
       /\ work' = [Resting EXCEPT !.at = "preparing", !.sequence = i, !.row = rows[i + 1]]
  /\ UNCHANGED <<rows, signed, chain, key, correction, drafts, preparing, expiries, failures>>

Saved(row) == rows' = [rows EXCEPT ![work.sequence + 1] = row]

(* The catch of publish: the row it read is stored over the present one.   *)
Retry ==
  /\ Saved([work.row EXCEPT !.status = "retry"])
  /\ work' = Resting
  /\ UNCHANGED <<signed, chain, key, correction, drafts, preparing, expiries>>

PublishFails ==
  /\ work.at \in Publishing /\ failures < MaxFailures
  /\ failures' = failures + 1
  /\ Retry

(* client: the keys must be those of the deployed configuration.           *)
Connect ==
  /\ work.at = "preparing"
  /\ \/ /\ key = chain.issuer
        /\ work' = [work EXCEPT !.at = "connected"]
        /\ UNCHANGED <<rows, signed, chain, key, correction, drafts, preparing, expiries, failures>>
     \/ key # chain.issuer /\ Retry /\ UNCHANGED failures

(* verified: a receipt by another issuer than the record's is refused.     *)
verified(row, receipt) == receipt.issuer = IF row.issuer # None THEN row.issuer ELSE key

FoundReceipt ==
  /\ onChain(work.sequence)
  /\ \E receipt \in {chain.receipts[work.sequence + 1]}:
       Saved(IF verified(work.row, receipt)
             THEN [work.row EXCEPT !.status = "finalized", !.issuer = receipt.issuer]
             ELSE [work.row EXCEPT !.status = "retry"])
  /\ work' = Resting
  /\ UNCHANGED <<signed, chain, key, correction, drafts, preparing, expiries, failures>>

LookUp(from, to) ==
  /\ work.at = from
  /\ \/ FoundReceipt
     \/ /\ ~onChain(work.sequence)
        /\ work' = [work EXCEPT !.at = to]
        /\ UNCHANGED <<rows, signed, chain, key, correction, drafts, preparing, expiries, failures>>

LookForReceipt == LookUp("connected", "unseen")

(* The exact bytes are stored before they are sent: a submission that may  *)
(* still land is used again, an expired one replaced.                      *)
mayLand(t) == t # None /\ signed[t].live
reusableNever(t) == FALSE
reusable(t) == mayLand(t)

withSubmission(row, t) ==
  [row EXCEPT !.status = "submitted", !.submission = t, !.issuer = signed'[t].issuer]

Persist ==
  /\ work.at = "unseen"
  /\ \/ reusable(work.row.submission) /\ UNCHANGED signed
     \/ /\ ~reusable(work.row.submission)
        /\ signed' = Append(signed, [sequence |-> work.sequence, issuer |-> key,
                                     live |-> TRUE, sent |-> FALSE])
  /\ \E row \in {IF signed' = signed THEN [work.row EXCEPT !.status = "submitted"]
                 ELSE withSubmission(work.row, Len(signed'))}:
       /\ Saved(row)
       /\ work' = [work EXCEPT !.at = "persisted", !.row = row]
  /\ UNCHANGED <<chain, key, correction, drafts, preparing, expiries, failures>>

LookAgain ==
  \/ key = chain.issuer /\ LookUp("persisted", "sending")
  \/ work.at = "persisted" /\ key # chain.issuer /\ Retry /\ UNCHANGED failures

Send ==
  /\ work.at = "sending"
  /\ \/ /\ signed[work.row.submission].live
        /\ signed' = [signed EXCEPT ![work.row.submission].sent = TRUE]
        /\ work' = [work EXCEPT !.at = "sent"]
        /\ UNCHANGED <<rows, chain, key, correction, drafts, preparing, expiries, failures>>
     \/ ~signed[work.row.submission].live /\ Retry /\ UNCHANGED failures

LookAfterTrusting ==
  /\ work.at = "sent" /\ Saved([work.row EXCEPT !.status = "finalized"]) /\ work' = Resting
  /\ UNCHANGED <<signed, chain, key, correction, drafts, preparing, expiries, failures>>

LookAfter ==
  /\ work.at = "sent"
  /\ \/ FoundReceipt
     \/ /\ ~onChain(work.sequence) /\ Saved(work.row) /\ work' = Resting
        /\ UNCHANGED <<signed, chain, key, correction, drafts, preparing, expiries, failures>>

(* The object restarts, perhaps with another key.                          *)
Restart ==
  /\ failures < MaxFailures /\ failures' = failures + 1
  /\ work' = Resting /\ preparing' = Idle
  /\ UNCHANGED <<rows, signed, chain, key, correction, drafts, expiries>>

Deploy ==
  /\ key # chain.issuer /\ key' = chain.issuer
  /\ work' = Resting /\ preparing' = Idle
  /\ UNCHANGED <<rows, signed, chain, correction, drafts, expiries, failures>>

Publish == StartPublish \/ Connect \/ LookForReceipt \/ Persist \/ LookAgain \/ Send \/ LookAfter

----------------------------------------------------------------------------
(* The chain.  Landed stands for finalized, which is all the worker asks.  *)

(* append_event: next in sequence, signed by the configured issuer.        *)
Land(t) ==
  /\ signed[t].live /\ signed[t].sent
  /\ signed[t].issuer = chain.issuer /\ signed[t].sequence = Len(chain.receipts)
  /\ chain' = [chain EXCEPT !.receipts = Append(@, [submission |-> t, issuer |-> chain.issuer])]
  /\ UNCHANGED <<rows, signed, key, work, correction, drafts, preparing, expiries, failures>>

Expire(t) ==
  /\ signed[t].live
  /\ \/ expiries < MaxExpiries /\ expiries' = expiries + 1
     \/ signed[t].issuer # chain.issuer /\ UNCHANGED expiries
  /\ signed' = [signed EXCEPT ![t].live = FALSE]
  /\ UNCHANGED <<rows, chain, key, work, correction, drafts, preparing, failures>>

(* rotate_authorities                                                      *)
Rotate ==
  /\ chain.issuer <= MaxRotations
  /\ chain' = [chain EXCEPT !.issuer = @ + 1]
  /\ UNCHANGED <<rows, signed, key, work, correction, drafts, preparing, expiries, failures>>

(* withdraw_journey: once, after the end, and at the program's sequence.   *)
(* Who holds a signed draft may send it without the worker.                *)
LandWithdrawal(d) ==
  /\ drafts[d].live /\ chain.withdrawal = None
  /\ drafts[d].sequence = Len(chain.receipts) /\ Len(chain.receipts) > ClosedAt
  /\ chain' = [chain EXCEPT !.withdrawal = d]
  /\ UNCHANGED <<rows, signed, key, work, correction, drafts, preparing, expiries, failures>>

DraftExpires(d) ==
  /\ \/ drafts[d].fresh /\ drafts' = [drafts EXCEPT ![d].fresh = FALSE]
     \/ drafts[d].live /\ drafts' = [drafts EXCEPT ![d].live = FALSE]
  /\ UNCHANGED <<rows, signed, chain, key, work, correction, preparing, expiries, failures>>

----------------------------------------------------------------------------
(* Corrections.                                                            *)

(* A preparation that is still good is given out again.                    *)
prepared ==
  /\ correction.draft # None
  /\ drafts[correction.draft].fresh /\ drafts[correction.draft].sequence = Len(rows)

PrepareCorrection ==
  /\ preparing = Idle /\ Len(drafts) < MaxDrafts
  /\ Len(rows) > ClosedAt /\ unfinished = {}
  /\ correction.status # "finalized" /\ ~prepared
  /\ preparing' = Len(rows)
  /\ UNCHANGED <<rows, signed, chain, key, work, correction, drafts, expiries, failures>>

(* The answer of the chain client: what changed meanwhile is looked up.    *)
mayStore == correction.status # "finalized" /\ Len(rows) = preparing

StoreCorrection ==
  /\ preparing # Idle
  /\ \/ /\ mayStore
        /\ drafts' = Append(drafts, [sequence |-> preparing, fresh |-> TRUE, live |-> TRUE])
        /\ correction' = [status |-> "pending", draft |-> Len(drafts'), submission |-> FALSE]
     \/ ~mayStore /\ UNCHANGED <<drafts, correction>>
  /\ preparing' = Idle
  /\ UNCHANGED <<rows, signed, chain, key, work, expiries, failures>>

(* Only the draft that is stored is accepted, signed.                      *)
SubmitCorrection ==
  /\ correction.draft # None /\ correction.status # "finalized"
  /\ drafts[correction.draft].sequence = Len(rows) /\ drafts[correction.draft].fresh
  /\ correction' = [correction EXCEPT !.submission = TRUE, !.status = "submitted"]
  /\ UNCHANGED <<rows, signed, chain, key, work, drafts, preparing, expiries, failures>>

StartCorrection ==
  /\ work.at = "resting" /\ correction.submission /\ correction.status # "finalized"
  /\ work' = [Resting EXCEPT !.at = "correcting", !.correction = correction]
  /\ UNCHANGED <<rows, signed, chain, key, correction, drafts, preparing, expiries, failures>>

withdrawAll == [i \in DOMAIN rows |-> [rows[i] EXCEPT !.withdrawn = TRUE]]

(* The correction it read is stored over the present one.                  *)
StoreResult(status) ==
  /\ correction' = [work.correction EXCEPT !.status = status]
  /\ IF status = "finalized" THEN rows' = withdrawAll ELSE UNCHANGED rows
  /\ work' = Resting
  /\ UNCHANGED <<signed, chain, key, drafts, preparing, expiries, failures>>

ReconcileCorrection ==
  /\ work.at = "correcting"
  /\ \/ chain.withdrawal = work.correction.draft /\ StoreResult("finalized")
     \/ chain.withdrawal \notin {None, work.correction.draft} /\ StoreResult("retry")
     \/ chain.withdrawal = None /\ ~drafts[work.correction.draft].fresh /\ StoreResult("retry")
     \/ /\ chain.withdrawal = None /\ drafts[work.correction.draft].fresh
        /\ StoreResult("submitted") \/ StoreResult("retry")

AuditMeanwhile ==
  /\ chain.withdrawal # None /\ correction.status # "finalized"
  /\ correction' = [status |-> "finalized", draft |-> chain.withdrawal, submission |-> FALSE]
  /\ rows' = withdrawAll
  /\ UNCHANGED <<signed, chain, key, work, drafts, preparing, expiries, failures>>

(* auditWithdrawal: what the chain says, however it got there.             *)
Audit ==
  /\ work.at = "resting" /\ chain.withdrawal # None /\ correction.status # "finalized"
  /\ correction' = [status |-> "finalized", draft |-> chain.withdrawal, submission |-> FALSE]
  /\ rows' = withdrawAll
  /\ UNCHANGED <<signed, chain, key, work, drafts, preparing, expiries, failures>>

----------------------------------------------------------------------------
Correcting == PrepareCorrection \/ StoreCorrection \/ SubmitCorrection
              \/ StartCorrection \/ ReconcileCorrection \/ Audit

Next == \/ AppendRecord \/ Publish \/ PublishFails \/ Restart \/ Deploy \/ Rotate \/ Correcting
        \/ \E t \in DOMAIN signed: Land(t) \/ Expire(t)
        \/ \E d \in DOMAIN drafts: LandWithdrawal(d) \/ DraftExpires(d)

FormerExpires == \E t \in DOMAIN signed: signed[t].issuer # chain.issuer /\ Expire(t)

(* Each run of the alarm begins with the record that is due, whatever      *)
(* corrections it goes on with; calls end; a transaction that was sent and *)
(* stays valid lands, and one of a former issuer ages until it is void.    *)
Spec == Init /\ [][Next]_vars
        /\ WF_vars(Publish) /\ SF_vars(StartPublish) /\ WF_vars(ReconcileCorrection)
        /\ WF_vars(\E t \in DOMAIN signed: Land(t)) /\ WF_vars(FormerExpires)

----------------------------------------------------------------------------
(* The rows, the transactions and what is under way have the shape the     *)
(* code gives them.                                                        *)
TypeOK ==
  /\ rows \in Seq(Row) /\ signed \in Seq(Signed) /\ chain \in Chain /\ key \in Nat \ {0}
  /\ \/ work = Resting
     \/ work \in [at: Publishing, sequence: 0..Len(rows) - 1, row: Row, correction: {NoCorrection}]
     \/ work \in [at: {"correcting"}, sequence: {Idle}, row: {NoRow}, correction: Correction]
  /\ correction \in Correction /\ drafts \in Seq(Draft) /\ preparing \in Nat \cup {Idle}
  /\ expiries \in 0..MaxExpiries /\ failures \in 0..MaxFailures

(* A record is called finalized only when the chain has its receipt, by    *)
(* the issuer it names, and all earlier records are finalized.             *)
ConfirmedInOrder ==
  \A i \in 0..Len(rows) - 1: finalized(i) =>
    /\ onChain(i) /\ rows[i + 1].issuer = chain.receipts[i + 1].issuer
    /\ \A j \in 0..i: finalized(j)

(* No second transaction of a record is signed while the first may land.   *)
OneSubmission ==
  \A t, u \in DOMAIN signed:
    signed[t].sequence = signed[u].sequence /\ mayLand(t) /\ mayLand(u) => t = u

(* Once the journal has learned of a withdrawal, all its records count as  *)
(* withdrawn, those that arrive later too, and none does without one; the  *)
(* chain says so too, by the transaction the journal names.                *)
WithdrawnTogether ==
  /\ \A i \in DOMAIN rows: rows[i].withdrawn <=> correction.status = "finalized"
  /\ correction.status = "finalized" => chain.withdrawal = correction.draft

(* Every record of the journal is published, if the worker is in the end   *)
(* given the key that the chain was told of.                               *)
EventuallyPublished == <>[](key = chain.issuer) => []<>(unfinished = {})

=============================================================================
