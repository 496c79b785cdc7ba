--------------------------- MODULE SafetyGuardV2 ---------------------------
(***************************************************************************)
(* One journey account of the Solana program                               *)
(* src/contracts/programs/safety-guard-v2, and the reputation accounts     *)
(* its rewards are claimed into.                                           *)
(*                                                                         *)
(* An instruction is atomic, but it is signed from what the signer saw and *)
(* may reach the chain after others: views keeps everything a signer can   *)
(* have seen, and an instruction bears the revision or the sequence of any *)
(* of them.  The program must refuse what was signed against another       *)
(* assignment.                                                             *)
(*                                                                         *)
(* Public keys are numbers, in the byte order the program ranks them by;   *)
(* Pubkey::default() is 0.  Times are absolute and start at 1, as 0 stands *)
(* for "not ended".                                                        *)
(***************************************************************************)
EXTENDS Integers, FiniteSets, FiniteSetsExt

CONSTANTS
  Rider, Guardians,   \* keys
  MaxGuardians,       \* MAX_GUARDIANS, 16
  PointsPool,         \* POINTS_POOL, 25
  ReputationPool,     \* REPUTATION_POOL, 10
  MaxDuration,        \* MAX_DURATION, 86 400 s
  ProposalDuration,   \* PROPOSAL_DURATION, 300 s
  CheckInCooldown,    \* CHECK_IN_COOLDOWN, 15 s
  MaxU32, MaxU64,     \* where the checked additions fail
  PriorPoints,        \* balances a reputation account may have before this journey
  MaxTime             \* bound on the clock

ASSUME SafetyGuardAssumption ==
  /\ Guardians \subseteq Nat \ {0} /\ IsFiniteSet(Guardians)
  /\ Rider \in Nat \ {0}
  /\ MaxGuardians \in Nat \ {0}
  /\ PointsPool \in Nat /\ ReputationPool \in Nat
  /\ MaxDuration \in Nat \ {0} /\ ProposalDuration \in Nat /\ CheckInCooldown \in Nat
  /\ MaxU32 \in Nat /\ MaxU64 \in Nat
  /\ PriorPoints \subseteq 0..MaxU64
  /\ MaxTime \in Nat

VARIABLES
  journey,     \* the JourneyV2 account
  reputation,  \* the ReputationV2 account of each guardian
  prior,       \* history: the balances before this journey
  views,       \* what signers may have read of the account, now or earlier
  now          \* Clock::get()?.unix_timestamp

vars == <<journey, reputation, prior, views, now>>

NoKey == 0
Keys == Guardians \cup {NoKey}
Running == {"Open", "Active"}
JourneyState == {"Absent", "Completed", "Cancelled"} \cup Running

(* joined says that the guardian has one of the first guardian_count slots. *)
Contribution == [
  joined: BOOLEAN, check_ins: 0..MaxU32, last_check_in_at: Nat,
  started_at: Nat, ended_at: Nat, points: Nat, reputation: Nat, claimed: BOOLEAN ]

Slot(isJoined, since) == [
  joined |-> isJoined, check_ins |-> 0, last_check_in_at |-> 0,
  started_at |-> since, ended_at |-> 0, points |-> 0, reputation |-> 0, claimed |-> FALSE ]

NoContribution == Slot(FALSE, 0)

JourneyV2 == [
  state: JourneyState, current_guardian: Keys, proposed_guardian: Keys,
  deadline: Nat, proposal_expires_at: Nat,
  assignment_revision: 0..MaxU32, sequence: 0..MaxU32,
  contributions: [Guardians -> Contribution] ]

(* The part of the account an instruction is signed against.               *)
Assignment(j) ==
  [state |-> j.state, current |-> j.current_guardian,
   proposed |-> j.proposed_guardian, expires |-> j.proposal_expires_at]

View(j) == [revision |-> j.assignment_revision, sequence |-> j.sequence,
            assignment |-> Assignment(j)]

Joined(j) == {g \in Guardians : j.contributions[g].joined}
Eligible(j) == {g \in Joined(j) : j.contributions[g].check_ins > 0}

----------------------------------------------------------------------------
(* Wallet byte order decides who gets the remainder of a pool.             *)

rank(g, eligible) == Cardinality({other \in eligible : other < g})
rankInclusive(g, eligible) == Cardinality({other \in eligible : other <= g})

shareFromRankOne(pool, g, eligible) ==
  LET n == Cardinality(eligible) IN
  (pool \div n) + (IF rankInclusive(g, eligible) < pool % n THEN 1 ELSE 0)

share(pool, g, eligible) ==
  LET n == Cardinality(eligible) IN
  (pool \div n) + (IF rank(g, eligible) < pool % n THEN 1 ELSE 0)

(* JourneyV2::revision: the state and the revision are checked together,   *)
(* and the next revision must exist.                                       *)
revision(j, expected) ==
  /\ j.state \in Running
  /\ j.assignment_revision = expected /\ expected < MaxU32

hasRoomFor(j, g) == j.contributions[g].joined \/ Cardinality(Joined(j)) < MaxGuardians

withoutProposal(j) ==
  [j EXCEPT !.proposed_guardian = NoKey, !.proposal_expires_at = 0,
            !.assignment_revision = @ + 1]

Earlier(a, b) == IF a <= b THEN a ELSE b

----------------------------------------------------------------------------
Init == /\ journey = [
             state |-> "Absent", current_guardian |-> NoKey, proposed_guardian |-> NoKey,
             deadline |-> 0, proposal_expires_at |-> 0,
             assignment_revision |-> 0, sequence |-> 0,
             contributions |-> [g \in Guardians |-> NoContribution] ]
        /\ prior \in [Guardians -> PriorPoints]
        /\ reputation = [g \in Guardians |->
             [points |-> prior[g], reputation |-> 0, completed |-> 0]]
        /\ views = {}
        /\ now = 1

Account(j) == /\ journey' = j /\ views' = views \cup {View(j)}
              /\ UNCHANGED <<reputation, prior, now>>

CreateJourney(deadline) ==
  /\ journey.state = "Absent"
  /\ deadline > now /\ deadline - now <= MaxDuration
  /\ Account([journey EXCEPT !.state = "Open", !.deadline = deadline])

(* The new proposal replaces whoever was proposed before.                  *)
ProposeGuardian(v, g) ==
  /\ revision(journey, v.revision)
  /\ now <= journey.deadline
  /\ g # Rider /\ g # journey.current_guardian
  /\ g # journey.proposed_guardian \/ now > journey.proposal_expires_at
  /\ hasRoomFor(journey, g)
  /\ Account([journey EXCEPT !.proposed_guardian = g,
       !.proposal_expires_at = Earlier(now + ProposalDuration, journey.deadline),
       !.assignment_revision = @ + 1])

(* Neither withdrawing a proposal nor ending the journey looks at the clock. *)
CancelProposal(v) ==
  /\ revision(journey, v.revision)
  /\ journey.proposed_guardian # NoKey
  /\ Account(withoutProposal(journey))

(* The former guardian's slot ends; a returning guardian gets the old slot  *)
(* back, its check-ins included.                                           *)
handover(j, g) ==
  [j EXCEPT !.contributions = [h \in Guardians |->
     IF h = g THEN IF @[h].joined THEN [@[h] EXCEPT !.ended_at = 0]
                   ELSE Slot(TRUE, now)
     ELSE IF h = j.current_guardian /\ @[h].joined THEN [@[h] EXCEPT !.ended_at = now]
     ELSE @[h]]]

AcceptGuardian(v, g) ==
  /\ revision(journey, v.revision)
  /\ g = journey.proposed_guardian
  /\ now <= journey.deadline /\ now <= journey.proposal_expires_at
  /\ journey.sequence < MaxU32
  /\ hasRoomFor(journey, g)
  /\ Account([withoutProposal(handover(journey, g)) EXCEPT
       !.current_guardian = g, !.sequence = @ + 1, !.state = "Active"])

mayCheckIn(c) ==
  /\ c.check_ins = 0 \/ now - c.last_check_in_at >= CheckInCooldown
  /\ c.check_ins < MaxU32

checkedIn(c) == [c EXCEPT !.check_ins = @ + 1, !.last_check_in_at = now]

CheckIn(v, g) ==
  /\ journey.state = "Active" /\ journey.sequence = v.sequence
  /\ g = journey.current_guardian /\ now <= journey.deadline
  /\ journey.contributions[g].joined /\ mayCheckIn(journey.contributions[g])
  /\ Account([journey EXCEPT !.contributions =
       [journey.contributions EXCEPT ![g] = checkedIn(journey.contributions[g])]])

endAll(j) ==
  [g \in Guardians |->
     IF j.contributions[g].joined /\ j.contributions[g].ended_at = 0
     THEN [j.contributions[g] EXCEPT !.ended_at = now] ELSE j.contributions[g]]

(* Late arrival may settle what was recorded before the deadline.          *)
settled(j) ==
  [g \in Guardians |->
     IF g \in Eligible(j)
     THEN [endAll(j)[g] EXCEPT !.points = share(PointsPool, g, Eligible(j)),
                               !.reputation = share(ReputationPool, g, Eligible(j))]
     ELSE endAll(j)[g]]

CompleteJourney(v) ==
  /\ revision(journey, v.revision)
  /\ journey.state = "Active" /\ Eligible(journey) # {}
  /\ Account([withoutProposal(journey) EXCEPT
       !.state = "Completed", !.contributions = settled(journey)])

CancelJourney(v) ==
  /\ revision(journey, v.revision)
  /\ Account([withoutProposal(journey) EXCEPT
       !.state = "Cancelled", !.contributions = endAll(journey)])

(* Anybody may pay for the claim of a guardian.  Each addition is checked  *)
(* before any field is written.                                            *)
claimed(j, g) == [j EXCEPT !.contributions[g].claimed = TRUE]

ClaimReward(g) ==
  LET c == journey.contributions[g]
      r == reputation[g]
  IN
  /\ journey.state = "Completed"
  /\ c.joined /\ c.check_ins > 0 /\ ~c.claimed
  /\ r.points + c.points <= MaxU64
  /\ r.reputation + c.reputation <= MaxU64 /\ r.completed < MaxU64
  /\ journey' = claimed(journey, g)
  /\ reputation' = [reputation EXCEPT ![g] =
       [points |-> r.points + c.points, reputation |-> r.reputation + c.reputation,
        completed |-> r.completed + 1]]
  /\ UNCHANGED <<prior, views, now>>

Tick == /\ now < MaxTime /\ now' = now + 1
        /\ UNCHANGED <<journey, reputation, prior, views>>

Next == \/ \E deadline \in 1..MaxTime: CreateJourney(deadline)
        \/ \E v \in views:
             \/ \E g \in Guardians: \/ ProposeGuardian(v, g) \/ AcceptGuardian(v, g)
                                    \/ CheckIn(v, g)
             \/ CancelProposal(v) \/ CompleteJourney(v) \/ CancelJourney(v)
        \/ \E g \in Guardians: ClaimReward(g)
        \/ Tick

Spec == Init /\ [][Next]_vars

----------------------------------------------------------------------------
(* The accounts have the shape the program declares, and no counter or     *)
(* balance wraps around its width.                                         *)
TypeOK ==
  /\ journey \in JourneyV2
  /\ reputation \in [Guardians ->
       [points: 0..MaxU64, reputation: 0..MaxU64, completed: 0..MaxU64]]
  /\ prior \in [Guardians -> 0..MaxU64]
  /\ now \in Nat \ {0}

(* A revision or a sequence is never used again for something else: what  *)
(* was signed against another assignment bears another number, so it       *)
(* cannot hijack the assignment, not even when the same people return.     *)
StaleSignaturesFail ==
  \A v \in views:
    /\ v.revision <= journey.assignment_revision
    /\ v.revision = journey.assignment_revision => v.assignment = Assignment(journey)
    /\ v.sequence = journey.sequence =>
         v.assignment.current = journey.current_guardian

(* Slots follow the assignment: while the journey runs, exactly the        *)
(* current guardian's slot is open, and none once it is over.              *)
SlotsFollowAssignment ==
  \A g \in Guardians:
    (journey.contributions[g].joined /\ journey.contributions[g].ended_at = 0)
      <=> journey.state = "Active" /\ g = journey.current_guardian

(* A proposal never waits for a place it cannot get, never outlives the    *)
(* journey, and is never for the rider or for whoever guards already.      *)
ProposalHasRoom ==
  journey.proposed_guardian # NoKey =>
    /\ journey.proposed_guardian \in Guardians
    /\ journey.proposed_guardian \notin {Rider, journey.current_guardian}
    /\ Cardinality(Joined(journey) \cup {journey.proposed_guardian}) <= MaxGuardians
    /\ journey.proposal_expires_at <= journey.deadline

(* Repeated handoffs and check-ins never enlarge or lose part of a pool.   *)
PoolsSharedExactly ==
  LET total(field(_)) == MapThenSumSet(field, Guardians)
      points(g) == journey.contributions[g].points
      rep(g) == journey.contributions[g].reputation
  IN IF journey.state = "Completed"
     THEN total(points) = PointsPool /\ total(rep) = ReputationPool
     ELSE total(points) = 0 /\ total(rep) = 0

(* A reputation account holds what it held before and this journey's       *)
(* share once, whoever submits the claim and however often.                *)
CreditedOnce ==
  \A g \in Guardians:
    LET c == journey.contributions[g] IN
    /\ ~c.claimed => reputation[g] = [points |-> prior[g], reputation |-> 0, completed |-> 0]
    /\ c.claimed =>
         /\ journey.state = "Completed" /\ c.check_ins > 0
         /\ reputation[g] = [points |-> prior[g] + c.points,
                             reputation |-> c.reputation, completed |-> 1]

(* Signed check-ins are apart by the cooldown through every handoff, so    *)
(* their number is bounded by the time since the guardian first joined.    *)
CheckInsAreSpaced ==
  \A g \in Guardians:
    LET c == journey.contributions[g] IN
    c.check_ins > 0 =>
      /\ c.started_at + (c.check_ins - 1) * CheckInCooldown <= c.last_check_in_at
      /\ c.last_check_in_at <= now /\ c.last_check_in_at <= journey.deadline

(* Completion and cancellation are final: afterwards a share can only turn *)
(* from unclaimed to claimed.                                              *)
Unclaimed(j) == [j EXCEPT !.contributions =
  [g \in Guardians |-> [j.contributions[g] EXCEPT !.claimed = FALSE]]]

SettledForever ==
  [][journey.state \in {"Completed", "Cancelled"} =>
       /\ Unclaimed(journey') = Unclaimed(journey)
       /\ \A g \in Guardians: journey.contributions[g].claimed
                                => journey'.contributions[g].claimed]_vars

=============================================================================
