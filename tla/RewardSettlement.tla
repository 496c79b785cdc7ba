-------------------------- MODULE RewardSettlement --------------------------
(***************************************************************************)
(* How one journey's contribution pool reaches the guardians' accounts:    *)
(* TripRoom.settleReward (src/worker/src/trips.ts), with Governance.status *)
(* and UserAccount.credit, each in a durable object of its own.            *)
(*                                                                         *)
(* Two settlements can run at once, that of the arrive request and that of *)
(* the alarm: at each call to another object they let others in, the call  *)
(* takes effect at some time before its answer, and a failed call or a     *)
(* restart ends the settlement anywhere, with the call perhaps still       *)
(* under way.  Everything between two calls is one step.                   *)
(*                                                                         *)
(* Guardians are numbers in the order the remainder is given out.  Points  *)
(* stand for reputation too, which is divided and credited alike.          *)
(***************************************************************************)
EXTENDS Integers, FiniteSets, FiniteSetsExt

CONSTANTS
  Guardians,    \* contributors of the journey
  Pool,         \* 25 points
  MaxFailures,  \* bound on failed calls and restarts
  MaxRulings    \* bound on moderators' suspensions and restorations

ASSUME RewardAssumption ==
  /\ Guardians \subseteq Nat /\ IsFiniteSet(Guardians)
  /\ Pool \in Nat /\ MaxFailures \in Nat /\ MaxRulings \in Nat

VARIABLES
  trip,        \* the stored journey, or Erased
  accounts,    \* UserAccount of each guardian
  governance,  \* Governance.status of each guardian
  runs,        \* settleReward in the arrive request and in the alarm
  orphans,     \* credit calls under way whose caller has failed
  allocation,  \* history: the shares fixed at closure
  barred,      \* history: guardians that were suspended or deleted at some time
  failures, rulings

vars == <<trip, accounts, governance, runs, orphans, allocation, barred, failures, rulings>>

Runs == {"act", "alarm"}
Contribution == [checkedIn: BOOLEAN, rewardStatus: {"pending", "credited", "ineligible"}, points: 0..Pool]
Trip == [status: {"active", "arrived", "cancelled"}, reward: {"pending", "credited", "ineligible"},
         contributions: [Guardians -> Contribution]]
Erased == [status |-> "erased"]

(* credited: the credits row keyed by this trip, which outlives deletion.  *)
Account == [active: BOOLEAN, purged: BOOLEAN, credited: BOOLEAN, points: Nat]

(* pc: at its first line, or before, at or after one of its two calls;     *)
(* ids are the guardians still to visit, amount the share read before the  *)
(* first call.                                                             *)
Run == [pc: {"idle", "called", "asking", "answered", "crediting", "returned"},
        ids: SUBSET Guardians, guardian: Guardians \cup {-1}, amount: 0..Pool, restricted: BOOLEAN]
Idle == [pc |-> "idle", ids |-> {}, guardian |-> -1, amount |-> 0, restricted |-> FALSE]

Credit == [guardian: Guardians, amount: 0..Pool]

----------------------------------------------------------------------------
(* allocateContributions: one pool, frozen at closure.                     *)

eligible(t) == {g \in Guardians : t.contributions[g].checkedIn}

index(g, among) == Cardinality({other \in among : other < g})

share(g, among) ==
  LET n == Cardinality(among) IN
  (Pool \div n) + (IF index(g, among) < Pool % n THEN 1 ELSE 0)

allocateContributions(t, outcome) ==
  LET rewarded == IF outcome = "arrived" THEN eligible(t) ELSE {} IN
  [status |-> outcome,
   reward |-> IF rewarded # {} THEN "pending" ELSE "ineligible",
   contributions |-> [g \in Guardians |->
     [checkedIn |-> t.contributions[g].checkedIn,
      rewardStatus |-> IF g \in rewarded THEN "pending" ELSE "ineligible",
      points |-> IF g \in rewarded THEN share(g, rewarded) ELSE 0]]]

settling(t) == t # Erased /\ t.status = "arrived" /\ t.reward = "pending"
Unsettled(t) == {g \in Guardians : t.contributions[g].rewardStatus = "pending"}

(* schedule() wakes the object in 15 seconds for as long as this holds.    *)
settlementDueWhileRunning(t) == settling(t) /\ t.status = "active"
settlementDue(t) == settling(t)

refused(t, g) ==
  [t EXCEPT !.contributions[g].rewardStatus = "ineligible", !.contributions[g].points = 0]

recorded(t, g) ==
  IF t.contributions[g].rewardStatus = "pending"
  THEN [t EXCEPT !.contributions[g].rewardStatus = "credited"] ELSE t

completed(t) == IF t.reward = "pending" /\ Unsettled(t) = {}
                THEN [t EXCEPT !.reward = "credited"] ELSE t

(* UserAccount.credit: one transaction.                                    *)
creditEveryCall(account, amount) ==
  IF account.active THEN [account EXCEPT !.credited = TRUE, !.points = @ + amount] ELSE account

credit(account, amount) ==
  IF account.active /\ ~account.credited
  THEN [account EXCEPT !.credited = TRUE, !.points = @ + amount] ELSE account

----------------------------------------------------------------------------
Init ==
  /\ \E checked \in SUBSET Guardians:
       trip = [status |-> "active", reward |-> "pending",
               contributions |-> [g \in Guardians |->
                 [checkedIn |-> g \in checked, rewardStatus |-> "pending", points |-> 0]]]
  /\ accounts = [g \in Guardians |->
       [active |-> TRUE, purged |-> FALSE, credited |-> FALSE, points |-> 0]]
  /\ governance = [g \in Guardians |-> [suspended |-> FALSE, deleted |-> FALSE]]
  /\ runs = [p \in Runs |-> Idle]
  /\ orphans = {} /\ barred = {} /\ failures = 0 /\ rulings = 0
  /\ allocation = [g \in Guardians |-> 0]

People == <<accounts, governance, orphans, barred, failures, rulings>>

(* The journey closes; the arrive request goes on to settle.               *)
Close(outcome) ==
  /\ trip # Erased /\ trip.status = "active"
  /\ \E t \in {allocateContributions(trip, outcome)}:
       /\ trip' = t
       /\ allocation' = [g \in Guardians |-> t.contributions[g].points]
  /\ runs' = [runs EXCEPT !["act"].pc = IF outcome = "arrived" THEN "called" ELSE "idle"]
  /\ UNCHANGED People

AlarmFires ==
  /\ settlementDue(trip) /\ runs["alarm"] = Idle
  /\ runs' = [runs EXCEPT !["alarm"].pc = "called"]
  /\ UNCHANGED <<trip, allocation>> /\ UNCHANGED People

(* The loop from one call to the next: t is the stored journey at that     *)
(* moment and ids the guardians run p still has to visit.                  *)
Loop(p, t, ids) ==
  IF t = Erased
  THEN trip' = t /\ runs' = [runs EXCEPT ![p] = Idle]
  ELSE \/ \E g \in ids \cap Unsettled(t):
            /\ trip' = t
            /\ runs' = [runs EXCEPT ![p] =
                 [pc |-> "asking", ids |-> ids \ {g}, guardian |-> g,
                  amount |-> t.contributions[g].points, restricted |-> FALSE]]
       \/ /\ ids \cap Unsettled(t) = {}
          /\ trip' = completed(t)
          /\ runs' = [runs EXCEPT ![p] = Idle]

Settle(p) ==
  /\ runs[p].pc = "called"
  /\ IF settling(trip) THEN Loop(p, trip, Unsettled(trip) \cap eligible(trip))
     ELSE runs' = [runs EXCEPT ![p] = Idle] /\ UNCHANGED trip
  /\ UNCHANGED allocation /\ UNCHANGED People

(* The status call takes effect in the governance object.                  *)
AnswerStatus(p) ==
  /\ runs[p].pc = "asking"
  /\ LET status == governance[runs[p].guardian] IN
     runs' = [runs EXCEPT ![p].pc = "answered",
                          ![p].restricted = status.suspended \/ status.deleted]
  /\ UNCHANGED <<trip, allocation>> /\ UNCHANGED People

Refuse(p) ==
  /\ runs[p].pc = "answered" /\ runs[p].restricted
  /\ Loop(p, IF trip = Erased THEN trip ELSE refused(trip, runs[p].guardian), runs[p].ids)
  /\ UNCHANGED allocation /\ UNCHANGED People

CallCredit(p) ==
  /\ runs[p].pc = "answered" /\ ~runs[p].restricted
  /\ runs' = [runs EXCEPT ![p].pc = "crediting"]
  /\ UNCHANGED <<trip, allocation>> /\ UNCHANGED People

AnswerCredit(p) ==
  /\ runs[p].pc = "crediting"
  /\ runs' = [runs EXCEPT ![p].pc = "returned"]
  /\ accounts' = [accounts EXCEPT ![runs[p].guardian] = credit(@, runs[p].amount)]
  /\ UNCHANGED <<trip, allocation, governance, orphans, barred, failures, rulings>>

(* credit's answer, false for an account that is not active, is not read.  *)
Record(p) ==
  /\ runs[p].pc = "returned"
  /\ Loop(p, IF trip = Erased THEN trip ELSE recorded(trip, runs[p].guardian), runs[p].ids)
  /\ UNCHANGED allocation /\ UNCHANGED People

(* A call throws or the object restarts.  A credit call already sent may   *)
(* still arrive.                                                           *)
Fail(p) ==
  /\ runs[p].pc # "idle" /\ failures < MaxFailures
  /\ runs' = [runs EXCEPT ![p] = Idle]
  /\ failures' = failures + 1
  /\ orphans' = IF runs[p].pc = "crediting"
                THEN orphans \cup {[guardian |-> runs[p].guardian, amount |-> runs[p].amount]}
                ELSE orphans
  /\ UNCHANGED <<trip, allocation, accounts, governance, barred, rulings>>

LateCredit(c) ==
  /\ orphans' = orphans \ {c}
  /\ accounts' = [accounts EXCEPT ![c.guardian] = credit(@, c.amount)]
  /\ UNCHANGED <<trip, allocation, governance, runs, barred, failures, rulings>>

----------------------------------------------------------------------------
(* Meanwhile moderators rule and accounts are deleted: the tombstone first,*)
(* then the account, then its private data.                                *)

SetSuspended(g, suspended) ==
  /\ rulings < MaxRulings /\ governance[g].suspended # suspended
  /\ governance' = [governance EXCEPT ![g].suspended = suspended]
  /\ barred' = IF suspended THEN barred \cup {g} ELSE barred
  /\ rulings' = rulings + 1
  /\ UNCHANGED <<trip, allocation, accounts, runs, orphans, failures>>

BeginDeletion(g) ==
  /\ ~governance[g].deleted
  /\ governance' = [governance EXCEPT ![g].deleted = TRUE]
  /\ barred' = barred \cup {g}
  /\ UNCHANGED <<trip, allocation, accounts, runs, orphans, failures, rulings>>

Deactivate(g) ==
  /\ governance[g].deleted /\ accounts[g].active
  /\ accounts' = [accounts EXCEPT ![g].active = FALSE]
  /\ UNCHANGED <<trip, allocation, governance, runs, orphans, barred, failures, rulings>>

PurgePrivate(g) ==
  /\ ~accounts[g].active /\ ~accounts[g].purged
  /\ accounts' = [accounts EXCEPT ![g].purged = TRUE, ![g].points = 0]
  /\ UNCHANGED <<trip, allocation, governance, runs, orphans, barred, failures, rulings>>

(* The rider may erase a closed journey while it is being settled.         *)
EraseForRider ==
  /\ trip # Erased /\ trip.status # "active"
  /\ trip' = Erased
  /\ UNCHANGED <<allocation, runs>> /\ UNCHANGED People

Step(p) == \/ Settle(p) \/ AnswerStatus(p) \/ Refuse(p)
           \/ CallCredit(p) \/ AnswerCredit(p) \/ Record(p)

Next == \/ \E outcome \in {"arrived", "cancelled"}: Close(outcome)
        \/ AlarmFires
        \/ \E p \in Runs: Step(p) \/ Fail(p)
        \/ \E c \in orphans: LateCredit(c)
        \/ \E g \in Guardians: \/ \E suspended \in BOOLEAN: SetSuspended(g, suspended)
                               \/ BeginDeletion(g) \/ Deactivate(g) \/ PurgePrivate(g)
        \/ EraseForRider

(* The platform runs what has been called and the alarm that was set.      *)
Spec == Init /\ [][Next]_vars /\ WF_vars(AlarmFires) /\ \A p \in Runs: WF_vars(Step(p))

----------------------------------------------------------------------------
(* The stored rows and the two settlements have the shape the code gives   *)
(* them.                                                                   *)
TypeOK ==
  /\ trip \in Trip \cup {Erased}
  /\ accounts \in [Guardians -> Account]
  /\ governance \in [Guardians -> [suspended: BOOLEAN, deleted: BOOLEAN]]
  /\ runs \in [Runs -> Run]
  /\ orphans \subseteq Credit
  /\ allocation \in [Guardians -> 0..Pool]
  /\ barred \subseteq Guardians
  /\ failures \in 0..MaxFailures /\ rulings \in 0..MaxRulings

(* Retries, two settlements at once and calls that outlive their caller    *)
(* never credit a share twice, nor another amount than was allocated.      *)
CreditedOnce ==
  \A g \in Guardians:
    accounts[g].points =
      IF accounts[g].credited /\ ~accounts[g].purged THEN allocation[g] ELSE 0

(* A deleted account stays at zero, whatever call was under way when it    *)
(* was erased.                                                             *)
DeletedEarnNothing ==
  [][\A g \in Guardians: ~accounts[g].active => accounts'[g].points <= accounts[g].points]_vars

(* The journey shows the pool as credited only when each guardian who      *)
(* checked in has the share, or was suspended or deleted at some time.     *)
NobodyForgotten ==
  trip # Erased /\ trip.status = "arrived" /\ trip.reward = "credited" =>
    \A g \in eligible(trip): accounts[g].credited \/ g \in barred

(* Every arrival is settled in the end, unless the rider erases it first.  *)
EventuallySettled == settling(trip) ~> ~settling(trip)

=============================================================================
