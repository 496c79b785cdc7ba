----------------------------- MODULE Gratitude -----------------------------
(***************************************************************************)
(* Thanks for a guardian after a journey: sendGratitude, deliverGratitude  *)
(* and scrubUser of src/worker/src/trips.ts with recordGratitude of the    *)
(* guardian's account (accounts.ts).  A receipt is kept with the journey   *)
(* before the account is called, and its id makes the call repeatable.     *)
(* One guardian: the receipts of others do not meet.  Participants may be  *)
(* deleted meanwhile: governance first says so, then the account and the   *)
(* journey forget them.                                                    *)
(***************************************************************************)
EXTENDS Integers, Sequences

CONSTANTS
  Kinds,       \* GratitudeKind
  Callers,     \* calls of sendGratitude and of deliverGratitude under way
  MaxRequests, \* bound: requests of the rider
  MaxFailures  \* bound: failed calls and restarts

VARIABLES
  journey,   \* the closed journey: its receipts, and whether the guardian is still one to thank
  account,   \* the guardian's account: banners by the id of the receipt
  deleted,   \* people whom governance reports as deleted
  withdrawn, \* recognition for the journey was withdrawn by a correction
  caller, requests, failures

vars == <<journey, account, deleted, withdrawn, caller, requests, failures>>

People == {"rider", "guardian"}
Idle == [at |-> "idle"]
Nobody == [i \in {} |-> "none"]

Init ==
  /\ journey = [eligible |-> TRUE, receipts |-> <<>>]
  /\ account = [active |-> TRUE, banners |-> Nobody]
  /\ deleted = {} /\ withdrawn = FALSE /\ caller = [c \in Callers |-> Idle] /\ requests = 0 /\ failures = 0

Waits(c, w) == caller' = [caller EXCEPT ![c] = w]
Receipts(rs) == journey' = [journey EXCEPT !.receipts = rs]
NobodyElse == UNCHANGED <<deleted, withdrawn, requests, failures>>

(***************************************************************************)
(* sendGratitude: the people and the journal are asked, and the journey is *)
(* read again before a receipt is added.                                   *)
(***************************************************************************)
Ask(c, kind) ==
  /\ caller[c] = Idle /\ requests < MaxRequests /\ requests' = requests + 1 /\ journey.eligible
  /\ Waits(c, [at |-> "asking", kind |-> kind, seen |-> Len(journey.receipts)])
  /\ UNCHANGED <<journey, account, deleted, withdrawn, failures>>
Answered(c) ==
  /\ caller[c].at = "asking"
  /\ Waits(c, IF deleted = {} /\ account.active /\ ~withdrawn THEN [caller[c] EXCEPT !.at = "choosing"] ELSE Idle)
  /\ UNCHANGED <<journey, account>> /\ NobodyElse

\* Mutant: whether the guardian was thanked before is what the journey said at first.
thankedAtFirst(w) == w.seen > 0

thanked(w) == journey.receipts # <<>>
Choose(c) ==
  /\ caller[c].at = "choosing" /\ Waits(c, Idle)
  /\ IF journey.eligible /\ ~thanked(caller[c])
     THEN Receipts(Append(journey.receipts, [kind |-> caller[c].kind, status |-> "pending", held |-> FALSE]))
     ELSE UNCHANGED journey
  /\ UNCHANGED account /\ NobodyElse

(***************************************************************************)
(* deliverGratitude, from the rider's request or from the alarm.           *)
(***************************************************************************)
settled(i, status) == [journey.receipts EXCEPT ![i] = [@ EXCEPT !.status = status, !.held = FALSE]]
pending(i) == i \in DOMAIN journey.receipts /\ journey.receipts[i].status = "pending"
PickUp(c, i) ==
  /\ caller[c] = Idle /\ pending(i) /\ ~journey.receipts[i].held
  /\ IF journey.eligible
     THEN Receipts([journey.receipts EXCEPT ![i].held = TRUE]) /\ Waits(c, [at |-> "status", id |-> i])
     ELSE Receipts(settled(i, "cancelled")) /\ UNCHANGED caller
  /\ UNCHANGED account /\ NobodyElse
Status(c) ==
  /\ caller[c].at = "status"
  /\ Waits(c, [at |-> IF deleted = {} THEN "allowed" ELSE "refused", id |-> caller[c].id])
  /\ UNCHANGED <<journey, account>> /\ NobodyElse
Proceed(c) ==
  LET i == caller[c].id IN
  /\ caller[c].at \in {"allowed", "refused"}
  /\ IF pending(i) /\ caller[c].at = "allowed" THEN Waits(c, [at |-> "recording", id |-> i, kind |-> journey.receipts[i].kind])
     ELSE Waits(c, Idle)
  /\ IF pending(i) /\ caller[c].at = "refused" THEN Receipts(settled(i, "cancelled")) ELSE UNCHANGED journey
  /\ UNCHANGED account /\ NobodyElse

(* The account knows a receipt by its id.                                  *)
recordGratitude(id, kind) == [account EXCEPT !.banners = [j \in DOMAIN @ \cup {id} |-> IF j \in DOMAIN @ THEN @[j] ELSE kind]]
Record(c) ==
  LET i == caller[c].id IN
  /\ caller[c].at = "recording"
  /\ account' = IF account.active THEN recordGratitude(i, caller[c].kind) ELSE account
  /\ Waits(c, [at |-> IF account.active /\ account'.banners[i] = caller[c].kind THEN "accepted" ELSE "declined", id |-> i])
  /\ UNCHANGED journey /\ NobodyElse
conclude(c) == IF caller[c].at = "accepted" THEN "recorded" ELSE "cancelled"
Recorded(c) ==
  LET i == caller[c].id IN
  /\ caller[c].at \in {"accepted", "declined"} /\ Waits(c, Idle)
  /\ IF pending(i) THEN Receipts(settled(i, conclude(c))) ELSE UNCHANGED journey
  /\ UNCHANGED account /\ NobodyElse

\* Mutant: a call that failed gives the thanks up.
failedForGood(i) == settled(i, "cancelled")
failed(i) == settled(i, "pending")
(* A call fails, or is made but its answer is lost.                        *)
Fail(c) ==
  /\ caller[c].at \in {"status", "recording", "accepted"} /\ failures < MaxFailures /\ failures' = failures + 1
  /\ Waits(c, Idle)
  /\ IF pending(caller[c].id) THEN Receipts(failed(caller[c].id)) ELSE UNCHANGED journey
  /\ UNCHANGED <<account, deleted, withdrawn, requests>>
Restart == /\ failures < MaxFailures /\ failures' = failures + 1 /\ caller' = [c \in Callers |-> Idle]
           /\ UNCHANGED <<journey, account, deleted, withdrawn, requests>>
HoldEnds(i) == /\ pending(i) /\ journey.receipts[i].held
               /\ Receipts([journey.receipts EXCEPT ![i].held = FALSE]) /\ UNCHANGED <<account, caller>> /\ NobodyElse

(***************************************************************************)
(* Deletion and correction.                                                *)
(***************************************************************************)
Delete(p) == /\ p \notin deleted /\ deleted' = deleted \cup {p}
             /\ UNCHANGED <<journey, account, withdrawn, caller, requests, failures>>
EraseAccount == /\ "guardian" \in deleted /\ account.active
                /\ account' = [active |-> FALSE, banners |-> Nobody]
                /\ UNCHANGED <<journey, caller>> /\ NobodyElse
removed(rs) == [i \in DOMAIN rs |-> [rs[i] EXCEPT !.status = "removed", !.held = FALSE]]
(* scrubUser for the guardian, purge for the rider.                        *)
Scrub == /\ deleted # {} /\ journey.eligible
         /\ journey' = [eligible |-> FALSE, receipts |-> removed(journey.receipts)]
         /\ UNCHANGED <<account, caller>> /\ NobodyElse
Withdraw == /\ ~withdrawn /\ withdrawn' = TRUE
            /\ UNCHANGED <<journey, account, deleted, caller, requests, failures>>

Works(c) == Answered(c) \/ Choose(c) \/ Status(c) \/ Proceed(c) \/ Record(c) \/ Recorded(c)
            \/ \E i \in DOMAIN journey.receipts : PickUp(c, i)
Time == \E i \in DOMAIN journey.receipts : HoldEnds(i)
Next == \/ \E c \in Callers : Works(c) \/ Fail(c) \/ \E k \in Kinds : Ask(c, k)
        \/ Time \/ Restart \/ (\E p \in People : Delete(p)) \/ EraseAccount \/ Scrub \/ Withdraw
(* A call runs on, and the alarm is set to the end of every hold.          *)
Fairness == (\A c \in Callers : WF_vars(Works(c))) /\ WF_vars(Time)
Spec == Init /\ [][Next]_vars /\ Fairness

-----------------------------------------------------------------------------
(* The journey says recorded of what the guardian's account holds, and of  *)
(* that one banner only, however often and in whatever kind it was asked.  *)
OneBanner ==
  /\ \A i, j \in DOMAIN account.banners : i = j
  /\ \A i \in DOMAIN journey.receipts : journey.receipts[i].status = "recorded" =>
       ~account.active \/ (i \in DOMAIN account.banners /\ account.banners[i] = journey.receipts[i].kind)

(* Without a deletion no failure loses the thanks: a receipt is recorded.  *)
recorded == \E i \in DOMAIN journey.receipts : journey.receipts[i].status = "recorded"
EventuallyThanked == journey.receipts # <<>> ~> recorded \/ deleted # {}
=============================================================================
