---------------------------- MODULE ChainProofs ----------------------------
(***************************************************************************)
(* Safety of the V2 program for every number of guardians and every pool,  *)
(* and of a linked journey between its three homes for any number of       *)
(* members, calls and transactions.  The program's part is an inductive    *)
(* invariant of SafetyGuardV2; the second, LinkInv, is one of ChainSync,   *)
(* which MCChain has as Linked.  Then the first version of the program,    *)
(* SafetyGuard, as First, and at the end the sums of the shares of V2.     *)
(***************************************************************************)
EXTENDS MCChain, SequenceTheorems, FiniteSetTheorems, WellFoundedInduction, TLAPS

ViewType == [revision: 0..MaxU32, sequence: 0..MaxU32,
             assignment: [state: JourneyState, current: Keys, proposed: Keys, expires: Nat]]

(* What an instruction relies on and never checks: an account exists       *)
(* before it is seen, only running journeys have proposals, only Active    *)
(* ones owe their state to an assignment, and slots are started and        *)
(* checked into before now.                                                *)
Coherent ==
  /\ views \subseteq ViewType
  /\ \A v \in views: v.sequence <= journey.sequence
  /\ journey.state = "Absent" => views = {}
  /\ journey.state \in {"Absent", "Open"} =>
       journey.current_guardian = NoKey /\ \A g \in Guardians: ~journey.contributions[g].joined
  /\ journey.state = "Active" => journey.current_guardian \in Guardians
  /\ journey.state \notin Running => journey.proposed_guardian = NoKey
  /\ journey.proposed_guardian = NoKey => journey.proposal_expires_at = 0
  /\ Cardinality(Joined(journey)) <= MaxGuardians
  /\ \A g \in Guardians:
       LET c == journey.contributions[g] IN
       /\ ~c.joined => c = NoContribution
       /\ c.joined => c.started_at <= now
       /\ c.check_ins > 0 => c.joined

IInv == /\ TypeOK /\ Coherent
        /\ StaleSignaturesFail /\ SlotsFollowAssignment /\ ProposalHasRoom
        /\ CreditedOnce /\ CheckInsAreSpaced

LEMMA JoinedFinite == IsFiniteSet(Joined(journey)) /\ Cardinality(Joined(journey)) \in Nat
<1>1. Joined(journey) \in SUBSET Guardians
  BY DEF Joined
<1>2. IsFiniteSet(Joined(journey))
  BY <1>1, FS_Subset, SafetyGuardAssumption
<1> QED BY <1>2, FS_CardinalityType

(* A share is an amount whenever somebody is eligible.                     *)
LEMMA ShareType ==
  ASSUME NEW pool \in Nat, NEW g \in Guardians, NEW S \in SUBSET Guardians, S # {}
  PROVE  share(pool, g, S) \in Nat
<1>1. IsFiniteSet(S)
  BY FS_Subset, SafetyGuardAssumption
<1>2. Cardinality(S) \in Nat /\ Cardinality(S) # 0
  BY <1>1, FS_CardinalityType, FS_EmptySet
<1> DEFINE whole == pool \div Cardinality(S)
           extra == IF rank(g, S) < pool % Cardinality(S) THEN 1 ELSE 0
<1>3. whole \in Nat
  BY <1>2
<1>4. extra \in Nat
  OBVIOUS
<1>5. share(pool, g, S) = whole + extra
  BY DEF share
<1> HIDE DEF whole, extra
<1> QED BY <1>3, <1>4, <1>5

LEMMA InitSound == Init => IInv
<1> SUFFICES ASSUME Init PROVE IInv
  OBVIOUS
<1> USE DEF Init
<1>1. TypeOK
  <2>1. NoContribution \in Contribution
    BY SafetyGuardAssumption DEF NoContribution, Slot, Contribution
  <2>2. journey \in JourneyV2
    BY <2>1, SafetyGuardAssumption DEF JourneyV2, JourneyState, Keys, NoKey
  <2>3. \A g \in Guardians: prior[g] \in 0..MaxU64
    BY SafetyGuardAssumption
  <2>4. reputation \in [Guardians ->
          [points: 0..MaxU64, reputation: 0..MaxU64, completed: 0..MaxU64]]
    BY <2>3, SafetyGuardAssumption
  <2> QED BY <2>2, <2>3, <2>4, SafetyGuardAssumption DEF TypeOK
<1>2. Joined(journey) = {}
  BY DEF Init, Joined, NoContribution, Slot
<1>3. Cardinality(Joined(journey)) = 0
  BY <1>2, FS_EmptySet
<1>4. Coherent
  BY <1>1, <1>3, SafetyGuardAssumption DEF Init, Coherent, NoContribution, Slot, Running, NoKey
<1>5. StaleSignaturesFail /\ SlotsFollowAssignment /\ ProposalHasRoom
  BY DEF Init, StaleSignaturesFail, SlotsFollowAssignment, ProposalHasRoom, NoContribution, Slot
<1>6. CheckInsAreSpaced
  BY DEF CheckInsAreSpaced, NoContribution, Slot
<1>7. CreditedOnce
  <2>1. \A g \in Guardians: prior[g] \in Nat
    BY <1>1 DEF TypeOK
  <2> QED BY <2>1 DEF CreditedOnce, NoContribution, Slot
<1> QED BY <1>1, <1>4, <1>5, <1>6, <1>7 DEF IInv

----------------------------------------------------------------------------
(* A change of assignment that leaves every slot alone.                    *)
SameSlots(j) == j.contributions = journey.contributions

LEMMA SameJoined ==
  ASSUME NEW j, \A g \in Guardians: j.contributions[g].joined = journey.contributions[g].joined
  PROVE  Joined(j) = Joined(journey)
BY DEF Joined

(* The views stay sound when the account moves on with a fresh revision.   *)
LEMMA FreshRevision ==
  ASSUME IInv, NEW j \in JourneyV2, Account(j),
         j.assignment_revision = journey.assignment_revision + 1,
         \/ j.sequence = journey.sequence /\ j.current_guardian = journey.current_guardian
         \/ j.sequence = journey.sequence + 1
  PROVE  /\ views' \subseteq ViewType
         /\ \A v \in views': v.sequence <= j.sequence
         /\ StaleSignaturesFail'
<1> DEFINE w == View(j)
<1>1. journey \in JourneyV2 /\ views \subseteq ViewType
  BY DEF IInv, TypeOK, Coherent
<1>2. journey.assignment_revision \in Int /\ journey.sequence \in Int /\ j.sequence \in Int
  BY <1>1, SafetyGuardAssumption DEF JourneyV2
<1>3. /\ w \in ViewType /\ w.sequence = j.sequence
      /\ w.revision = j.assignment_revision /\ w.assignment = Assignment(j)
      /\ w.assignment.current = j.current_guardian
  BY DEF View, Assignment, ViewType, JourneyV2
<1>4. journey' = j /\ views' = views \cup {w}
  BY DEF Account
<1>5. \A v \in views: /\ v.revision \in Int /\ v.sequence \in Int
                      /\ v.revision <= journey.assignment_revision
                      /\ v.sequence <= journey.sequence
                      /\ v.sequence = journey.sequence => v.assignment.current = journey.current_guardian
  BY <1>1, SafetyGuardAssumption DEF IInv, Coherent, StaleSignaturesFail, ViewType
<1> HIDE DEF w
<1>6. \A v \in views: v.revision < j.assignment_revision /\ v.sequence <= j.sequence
  BY <1>2, <1>5
<1>7. \A v \in views: v.sequence = j.sequence => v.assignment.current = j.current_guardian
  BY <1>2, <1>5
<1> QED BY <1>1, <1>2, <1>3, <1>4, <1>5, <1>6, <1>7 DEF StaleSignaturesFail

(* A step that leaves slots, reputations and the clock alone leaves to     *)
(* check only what it does to the assignment.                              *)
LEMMA AssignmentStep ==
  ASSUME IInv, NEW j \in JourneyV2, Account(j), SameSlots(j),
         j.state \in Running, journey.state \in Running, j.state = journey.state,
         j.current_guardian = journey.current_guardian, j.deadline = journey.deadline,
         j.sequence = journey.sequence,
         j.assignment_revision = journey.assignment_revision + 1,
         j.proposed_guardian = NoKey => j.proposal_expires_at = 0,
         j.proposed_guardian # NoKey =>
           /\ j.proposed_guardian \in Guardians
           /\ j.proposed_guardian \notin {Rider, journey.current_guardian}
           /\ hasRoomFor(journey, j.proposed_guardian)
           /\ j.proposal_expires_at <= j.deadline
  PROVE  IInv'
<1>1. journey' = j /\ UNCHANGED <<reputation, prior, now>>
  BY DEF Account
<1>2. Joined(j) = Joined(journey)
  BY SameJoined DEF SameSlots
<1>3. TypeOK'
  BY <1>1 DEF IInv, TypeOK
<1>4. views' \subseteq ViewType /\ (\A v \in views': v.sequence <= j.sequence) /\ StaleSignaturesFail'
  BY FreshRevision
<1>5. Coherent'
  BY <1>1, <1>2, <1>4 DEF IInv, Coherent, SameSlots, Running
<1>6. SlotsFollowAssignment'
  BY <1>1 DEF IInv, SlotsFollowAssignment, SameSlots
<1>7. ProposalHasRoom'
  <2> DEFINE p == j.proposed_guardian
  <2> SUFFICES ASSUME p # NoKey
               PROVE  Cardinality(Joined(journey) \cup {p}) <= MaxGuardians
    BY <1>1, <1>2 DEF ProposalHasRoom
  <2>1. Cardinality(Joined(journey) \cup {p})
          = IF p \in Joined(journey) THEN Cardinality(Joined(journey)) ELSE Cardinality(Joined(journey)) + 1
    BY JoinedFinite, FS_AddElement
  <2>2. p \in Joined(journey) \/ Cardinality(Joined(journey)) < MaxGuardians
    BY DEF hasRoomFor, Joined
  <2> HIDE DEF p
  <2> QED BY <2>1, <2>2, JoinedFinite, SafetyGuardAssumption DEF IInv, Coherent
<1>8. CreditedOnce'
  BY <1>1 DEF IInv, CreditedOnce, SameSlots, Running
<1>9. CheckInsAreSpaced'
  BY <1>1 DEF IInv, CheckInsAreSpaced, SameSlots
<1> QED BY <1>3, <1>4, <1>5, <1>6, <1>7, <1>8, <1>9 DEF IInv

LEMMA ProposeStep ==
  ASSUME IInv, NEW v \in views, NEW g \in Guardians, ProposeGuardian(v, g)
  PROVE  IInv'
<1> DEFINE j == [journey EXCEPT !.proposed_guardian = g,
                   !.proposal_expires_at = Earlier(now + ProposalDuration, journey.deadline),
                   !.assignment_revision = @ + 1]
<1>1. journey \in JourneyV2 /\ now \in Nat
  BY DEF IInv, TypeOK
<1>2. Earlier(now + ProposalDuration, journey.deadline) \in Nat
      /\ Earlier(now + ProposalDuration, journey.deadline) <= journey.deadline
  BY <1>1, SafetyGuardAssumption DEF Earlier, JourneyV2
<1>3. journey.assignment_revision + 1 \in 0..MaxU32
  BY <1>1, SafetyGuardAssumption DEF ProposeGuardian, revision, JourneyV2
<1>4. j \in JourneyV2
  BY <1>1, <1>2, <1>3 DEF JourneyV2, Keys
<1>5. g # NoKey
  BY SafetyGuardAssumption DEF NoKey
<1>6. Account(j) /\ hasRoomFor(journey, g) /\ g \notin {Rider, journey.current_guardian} /\ journey.state \in Running
  BY DEF ProposeGuardian, revision
<1>7. /\ SameSlots(j) /\ j.state = journey.state /\ j.current_guardian = journey.current_guardian
      /\ j.deadline = journey.deadline /\ j.sequence = journey.sequence
      /\ j.assignment_revision = journey.assignment_revision + 1
      /\ j.proposed_guardian = g /\ j.proposal_expires_at <= j.deadline
  BY <1>1, <1>2 DEF SameSlots, JourneyV2
<1> HIDE DEF j
<1> QED BY <1>4, <1>5, <1>6, <1>7, AssignmentStep

LEMMA WithoutProposalType ==
  ASSUME journey \in JourneyV2, journey.assignment_revision < MaxU32
  PROVE  /\ withoutProposal(journey) \in JourneyV2
         /\ SameSlots(withoutProposal(journey))
         /\ withoutProposal(journey).proposed_guardian = NoKey
         /\ withoutProposal(journey).proposal_expires_at = 0
         /\ withoutProposal(journey).assignment_revision = journey.assignment_revision + 1
         /\ withoutProposal(journey).state = journey.state
         /\ withoutProposal(journey).current_guardian = journey.current_guardian
         /\ withoutProposal(journey).deadline = journey.deadline
         /\ withoutProposal(journey).sequence = journey.sequence
<1>1. journey.assignment_revision + 1 \in 0..MaxU32
  BY SafetyGuardAssumption DEF JourneyV2
<1>2. NoKey \in Keys /\ 0 \in Nat
  BY DEF Keys
<1> QED BY <1>1, <1>2 DEF withoutProposal, JourneyV2, SameSlots

LEMMA CancelProposalStep ==
  ASSUME IInv, NEW v \in views, CancelProposal(v)
  PROVE  IInv'
<1>1. journey \in JourneyV2
  BY DEF IInv, TypeOK
<1>2. Account(withoutProposal(journey)) /\ journey.state \in Running /\ journey.assignment_revision < MaxU32
  BY DEF CancelProposal, revision
<1> QED BY <1>1, <1>2, WithoutProposalType, AssignmentStep

LEMMA CreateStep ==
  ASSUME IInv, NEW deadline \in 1..MaxTime, CreateJourney(deadline)
  PROVE  IInv'
<1> DEFINE j == [journey EXCEPT !.state = "Open", !.deadline = deadline]
<1>1. journey \in JourneyV2 /\ views = {} /\ journey.state = "Absent"
  BY DEF IInv, TypeOK, Coherent, CreateJourney
<1>2. deadline \in Nat
  BY SafetyGuardAssumption
<1>3. j \in JourneyV2
  BY <1>1, <1>2 DEF JourneyV2, JourneyState, Running
<1>4. /\ SameSlots(j) /\ j.state = "Open" /\ j.current_guardian = journey.current_guardian
      /\ j.sequence = journey.sequence /\ j.assignment_revision = journey.assignment_revision
      /\ j.proposed_guardian = journey.proposed_guardian
      /\ j.proposal_expires_at = journey.proposal_expires_at
  BY <1>1 DEF SameSlots, JourneyV2
<1>5. journey' = j /\ views' = {View(j)} /\ UNCHANGED <<reputation, prior, now>>
  BY <1>1 DEF CreateJourney, Account
<1>6. journey.proposed_guardian = NoKey /\ journey.current_guardian = NoKey
      /\ \A g \in Guardians: ~journey.contributions[g].joined
  BY <1>1 DEF IInv, Coherent, Running
<1> HIDE DEF j
<1>7. Joined(j) = Joined(journey)
  BY <1>4, SameJoined DEF SameSlots
<1>8. TypeOK'
  BY <1>3, <1>5 DEF IInv, TypeOK
<1>9. View(j) \in ViewType /\ View(j).sequence = j.sequence /\ View(j).revision = j.assignment_revision
      /\ View(j).assignment = Assignment(j) /\ View(j).assignment.current = j.current_guardian
  BY <1>3 DEF View, Assignment, ViewType, JourneyV2
<1>10. j.sequence \in Int /\ j.assignment_revision \in Int
  BY <1>3, SafetyGuardAssumption DEF JourneyV2
<1>11. StaleSignaturesFail'
  BY <1>5, <1>9, <1>10 DEF StaleSignaturesFail
<1>12. Coherent'
  BY <1>4, <1>5, <1>6, <1>7, <1>9, <1>10 DEF IInv, Coherent, SameSlots, Running
<1>13. SlotsFollowAssignment'
  BY <1>4, <1>5, <1>6 DEF SlotsFollowAssignment, SameSlots
<1>14. ProposalHasRoom'
  BY <1>4, <1>5, <1>6 DEF ProposalHasRoom
<1>15. CreditedOnce'
  BY <1>1, <1>4, <1>5 DEF IInv, CreditedOnce, SameSlots
<1>16. CheckInsAreSpaced'
  <2>1. \A g \in Guardians: journey.contributions[g].check_ins = 0
    BY <1>6 DEF IInv, Coherent, NoContribution, Slot
  <2> QED BY <1>4, <1>5, <2>1 DEF CheckInsAreSpaced, SameSlots
<1> QED BY <1>8, <1>11, <1>12, <1>13, <1>14, <1>15, <1>16 DEF IInv

(* What an accepted proposal makes of the slots.                           *)
HandedOver(C, g) ==
  [h \in Guardians |->
     IF h = g THEN IF C[h].joined THEN [C[h] EXCEPT !.ended_at = 0]
                   ELSE Slot(TRUE, now)
     ELSE IF h = journey.current_guardian /\ C[h].joined THEN [C[h] EXCEPT !.ended_at = now]
     ELSE C[h]]

Fresh == Slot(TRUE, now)
Ended(c, t) == [c EXCEPT !.ended_at = t]

LEMMA EndedFields ==
  ASSUME NEW c \in Contribution, NEW t \in Nat
  PROVE  /\ Ended(c, t) \in Contribution /\ Ended(c, t).ended_at = t
         /\ (Ended(c, t).joined <=> c.joined) /\ Ended(c, t).check_ins = c.check_ins
         /\ Ended(c, t).last_check_in_at = c.last_check_in_at
         /\ Ended(c, t).started_at = c.started_at /\ Ended(c, t).points = c.points
         /\ Ended(c, t).reputation = c.reputation /\ (Ended(c, t).claimed <=> c.claimed)
BY DEF Ended, Contribution

LEMMA FreshFields ==
  ASSUME now \in Nat
  PROVE  /\ Fresh \in Contribution /\ Fresh.ended_at = 0 /\ Fresh.joined
         /\ Fresh.check_ins = 0 /\ Fresh.last_check_in_at = 0 /\ Fresh.started_at = now
         /\ Fresh.points = 0 /\ Fresh.reputation = 0 /\ ~Fresh.claimed
<1>1. Fresh = [joined |-> TRUE, check_ins |-> 0, last_check_in_at |-> 0,
                started_at |-> now, ended_at |-> 0, points |-> 0, reputation |-> 0, claimed |-> FALSE]
  BY DEF Fresh, Slot
<1>2. 0 \in 0..MaxU32 /\ 0 \in Nat
  BY SafetyGuardAssumption
<1> QED BY <1>1, <1>2 DEF Contribution

LEMMA HandoverSlots ==
  ASSUME IInv, NEW g \in Guardians
  PROVE  LET C == journey.contributions
             D == HandedOver(C, g) IN
         /\ D \in [Guardians -> Contribution]
         /\ D[g].joined /\ D[g].ended_at = 0
         /\ \A h \in Guardians:
              /\ D[h].check_ins = C[h].check_ins
              /\ D[h].last_check_in_at = C[h].last_check_in_at
              /\ C[h].joined => D[h].started_at = C[h].started_at
              /\ D[h].joined => D[h].started_at <= now
              /\ D[h].points = C[h].points /\ D[h].reputation = C[h].reputation
              /\ (D[h].claimed <=> C[h].claimed)
              /\ h # g => /\ (D[h].joined <=> C[h].joined)
                          /\ D[h].joined => D[h].ended_at # 0
                          /\ ~C[h].joined => D[h] = C[h]
<1> DEFINE C == journey.contributions
           D == HandedOver(C, g)
<1>1. C \in [Guardians -> Contribution] /\ now \in Nat \ {0} /\ 0 \in 0..MaxU32 /\ 0 \in Nat
  BY SafetyGuardAssumption DEF IInv, TypeOK, JourneyV2
<1>2. \A h \in Guardians: C[h].joined /\ C[h].ended_at = 0 => h = journey.current_guardian
  BY DEF IInv, SlotsFollowAssignment
<1>3. \A h \in Guardians: /\ ~C[h].joined => C[h] = NoContribution
                          /\ C[h].joined => C[h].started_at <= now
  BY DEF IInv, Coherent
<1> HIDE DEF C
<1>4. ASSUME NEW h \in Guardians
      PROVE  D[h] = IF h = g THEN IF C[h].joined THEN Ended(C[h], 0) ELSE Fresh
                    ELSE IF h = journey.current_guardian /\ C[h].joined THEN Ended(C[h], now)
                    ELSE C[h]
  BY DEF HandedOver, Ended, Fresh
<1>5. D = [h \in Guardians |-> D[h]]
  BY DEF HandedOver
<1> HIDE DEF D
<1>6. \A h \in Guardians: D[h] \in Contribution
  BY <1>1, <1>4, EndedFields, FreshFields
<1>7. D \in [Guardians -> Contribution]
  BY <1>5, <1>6
<1>8. D[g].joined /\ D[g].ended_at = 0
  BY <1>1, <1>4, EndedFields, FreshFields
<1>9. ASSUME NEW h \in Guardians
      PROVE  /\ D[h].check_ins = C[h].check_ins
             /\ D[h].last_check_in_at = C[h].last_check_in_at
             /\ C[h].joined => D[h].started_at = C[h].started_at
             /\ D[h].joined => D[h].started_at <= now
             /\ D[h].points = C[h].points /\ D[h].reputation = C[h].reputation
             /\ (D[h].claimed <=> C[h].claimed)
  BY <1>1, <1>3, <1>4, EndedFields, FreshFields DEF NoContribution, Slot
<1>10. ASSUME NEW h \in Guardians, h # g
      PROVE  /\ (D[h].joined <=> C[h].joined)
             /\ D[h].joined => D[h].ended_at # 0
             /\ ~C[h].joined => D[h] = C[h]
  BY <1>1, <1>2, <1>4, <1>10, EndedFields
<1> QED BY <1>7, <1>8, <1>9, <1>10 DEF C, D

LEMMA AcceptStep ==
  ASSUME IInv, NEW v \in views, NEW g \in Guardians, AcceptGuardian(v, g)
  PROVE  IInv'
<1> DEFINE C == journey.contributions
           D == HandedOver(C, g)
           j == [withoutProposal(handover(journey, g)) EXCEPT
                   !.current_guardian = g, !.sequence = @ + 1, !.state = "Active"]
<1>1. journey \in JourneyV2 /\ now \in Nat
  BY DEF IInv, TypeOK
<1>2. journey.state \in Running /\ journey.proposed_guardian = g /\ Account(j)
      /\ journey.assignment_revision + 1 \in 0..MaxU32 /\ journey.sequence + 1 \in 0..MaxU32
  BY <1>1, SafetyGuardAssumption DEF AcceptGuardian, revision, JourneyV2
<1>3. handover(journey, g) = [journey EXCEPT !.contributions = D]
  BY <1>1 DEF handover, HandedOver, JourneyV2
<1>4. D \in [Guardians -> Contribution]
  BY HandoverSlots
<1>5. /\ g \in Keys /\ NoKey \in Keys /\ 0 \in Nat /\ "Active" \in JourneyState
  BY DEF Keys, JourneyState, Running
<1> HIDE DEF D
<1>6. /\ j \in JourneyV2
      /\ j.contributions = D /\ j.state = "Active" /\ j.current_guardian = g
      /\ j.proposed_guardian = NoKey /\ j.proposal_expires_at = 0
      /\ j.sequence = journey.sequence + 1
      /\ j.assignment_revision = journey.assignment_revision + 1
      /\ j.deadline = journey.deadline
  BY <1>1, <1>2, <1>3, <1>4, <1>5 DEF withoutProposal, JourneyV2
<1> HIDE DEF j
<1>7. journey' = j /\ UNCHANGED <<reputation, prior, now>>
  BY <1>2 DEF Account
<1>8. TypeOK'
  BY <1>6, <1>7 DEF IInv, TypeOK
<1>9. views' \subseteq ViewType /\ (\A w \in views': w.sequence <= j.sequence) /\ StaleSignaturesFail'
  BY <1>2, <1>6, FreshRevision
<1>10. /\ D[g].joined /\ D[g].ended_at = 0
       /\ \A h \in Guardians:
              /\ D[h].check_ins = C[h].check_ins
              /\ D[h].last_check_in_at = C[h].last_check_in_at
              /\ C[h].joined => D[h].started_at = C[h].started_at
              /\ D[h].joined => D[h].started_at <= now
              /\ D[h].points = C[h].points /\ D[h].reputation = C[h].reputation
              /\ (D[h].claimed <=> C[h].claimed)
              /\ h # g => /\ (D[h].joined <=> C[h].joined)
                          /\ D[h].joined => D[h].ended_at # 0
                          /\ ~C[h].joined => D[h] = C[h]
  BY HandoverSlots DEF D
<1>11. \A h \in Guardians: /\ ~C[h].joined => C[h] = NoContribution
                           /\ C[h].check_ins > 0 => C[h].joined
                           /\ ~C[h].claimed
  BY <1>2 DEF IInv, Coherent, CreditedOnce, Running
<1>12. Cardinality(Joined(j)) <= MaxGuardians
  <2>1. Joined(j) = Joined(journey) \cup {g}
    BY <1>6, <1>10 DEF Joined
  <2>2. g # NoKey
    BY SafetyGuardAssumption DEF NoKey
  <2> QED BY <1>2, <2>1, <2>2 DEF IInv, ProposalHasRoom
<1>13. Coherent'
  <2>1. \A h \in Guardians: /\ ~D[h].joined => D[h] = NoContribution
                            /\ D[h].joined => D[h].started_at <= now
                            /\ D[h].check_ins > 0 => D[h].joined
    BY <1>10, <1>11
  <2> QED BY <1>6, <1>7, <1>9, <1>12, <2>1 DEF Coherent, Running
<1>14. SlotsFollowAssignment'
  BY <1>6, <1>7, <1>10 DEF SlotsFollowAssignment
<1>15. ProposalHasRoom'
  BY <1>6, <1>7 DEF ProposalHasRoom
<1>16. CreditedOnce'
  BY <1>6, <1>7, <1>10, <1>11 DEF IInv, CreditedOnce
<1>17. CheckInsAreSpaced'
  BY <1>6, <1>7, <1>10, <1>11 DEF IInv, CheckInsAreSpaced
<1> QED BY <1>8, <1>9, <1>13, <1>14, <1>15, <1>16, <1>17 DEF IInv

LEMMA CheckedInFields ==
  ASSUME NEW c \in Contribution, c.check_ins + 1 \in 0..MaxU32, now \in Nat
  PROVE  /\ checkedIn(c) \in Contribution /\ checkedIn(c).check_ins = c.check_ins + 1
         /\ checkedIn(c).last_check_in_at = now
         /\ checkedIn(c).started_at = c.started_at /\ checkedIn(c).ended_at = c.ended_at
         /\ checkedIn(c).points = c.points /\ checkedIn(c).reputation = c.reputation
         /\ (checkedIn(c).joined <=> c.joined) /\ (checkedIn(c).claimed <=> c.claimed)
BY DEF checkedIn, Contribution

LEMMA CheckInStep ==
  ASSUME IInv, NEW v \in views, NEW g \in Guardians, CheckIn(v, g)
  PROVE  IInv'
<1> DEFINE C == journey.contributions
           d == checkedIn(C[g])
           D == [C EXCEPT ![g] = d]
           j == [journey EXCEPT !.contributions = D]
<1>1. journey \in JourneyV2 /\ now \in Nat \ {0} /\ C[g] \in Contribution
  BY DEF IInv, TypeOK, JourneyV2
<1>2. /\ C[g].check_ins + 1 \in 0..MaxU32 /\ C[g].joined /\ journey.state = "Active"
      /\ now <= journey.deadline
      /\ C[g].check_ins = 0 \/ now - C[g].last_check_in_at >= CheckInCooldown
  BY <1>1, SafetyGuardAssumption DEF CheckIn, mayCheckIn, Contribution
<1>3. /\ d \in Contribution /\ d.check_ins = C[g].check_ins + 1 /\ d.last_check_in_at = now
      /\ d.started_at = C[g].started_at /\ d.ended_at = C[g].ended_at
      /\ d.points = C[g].points /\ d.reputation = C[g].reputation
      /\ (d.joined <=> C[g].joined) /\ (d.claimed <=> C[g].claimed)
  <2> HIDE DEF C
  <2>1. now \in Nat
    BY <1>1
  <2> QED BY <1>1, <1>2, <2>1, CheckedInFields
<1>4. journey' = j /\ views' = views \cup {View(j)} /\ UNCHANGED <<reputation, prior, now>>
  BY DEF CheckIn, Account
<1> HIDE DEF d
<1>5. C \in [Guardians -> Contribution]
  BY <1>1 DEF JourneyV2
<1>6. D \in [Guardians -> Contribution] /\ D[g] = d /\ \A h \in Guardians: h # g => D[h] = C[h]
  BY <1>3, <1>5
<1> HIDE DEF D
<1>7. /\ j \in JourneyV2 /\ j.contributions = D /\ j.state = journey.state
      /\ j.current_guardian = journey.current_guardian /\ j.proposed_guardian = journey.proposed_guardian
      /\ j.proposal_expires_at = journey.proposal_expires_at /\ j.deadline = journey.deadline
      /\ j.sequence = journey.sequence /\ j.assignment_revision = journey.assignment_revision
  BY <1>1, <1>6 DEF JourneyV2
<1> HIDE DEF j
<1>8. TypeOK'
  BY <1>4, <1>7 DEF IInv, TypeOK
<1>9. /\ View(j) \in ViewType /\ View(j).sequence = j.sequence /\ View(j).revision = j.assignment_revision
      /\ View(j).assignment = Assignment(j) /\ View(j).assignment.current = j.current_guardian
  BY <1>7 DEF View, Assignment, ViewType, JourneyV2
<1>10. j.sequence \in Int /\ j.assignment_revision \in Int /\ Assignment(j) = Assignment(journey)
  BY <1>7, SafetyGuardAssumption DEF JourneyV2, Assignment
<1>11. StaleSignaturesFail'
  BY <1>4, <1>7, <1>9, <1>10 DEF IInv, StaleSignaturesFail
<1>12. Joined(j) = Joined(journey)
  BY <1>3, <1>6, <1>7 DEF Joined
<1>13. \A h \in Guardians: /\ (D[h].joined <=> C[h].joined) /\ (D[h].claimed <=> C[h].claimed)
                           /\ D[h].started_at = C[h].started_at /\ D[h].ended_at = C[h].ended_at
                           /\ ~D[h].joined => D[h] = C[h]
  BY <1>2, <1>3, <1>6
<1>14. Coherent'
  <2>1. \A h \in Guardians: /\ ~D[h].joined => D[h] = NoContribution
                            /\ D[h].joined => D[h].started_at <= now
                            /\ D[h].check_ins > 0 => D[h].joined
    BY <1>2, <1>3, <1>6, <1>13 DEF IInv, Coherent
  <2>2. /\ views' \subseteq ViewType /\ \A w \in views': w.sequence <= j.sequence
    BY <1>4, <1>7, <1>9, <1>10 DEF IInv, Coherent
  <2> QED BY <1>2, <1>4, <1>7, <1>12, <2>1, <2>2 DEF IInv, Coherent, Running
<1>15. SlotsFollowAssignment'
  BY <1>4, <1>7, <1>13 DEF IInv, SlotsFollowAssignment
<1>16. ProposalHasRoom'
  BY <1>4, <1>7, <1>12 DEF IInv, ProposalHasRoom
<1>17. CreditedOnce'
  BY <1>2, <1>4, <1>7, <1>13 DEF IInv, CreditedOnce
<1>18. CheckInsAreSpaced'
  <2>1. ASSUME C[g].check_ins = 0
        PROVE  d.started_at + (d.check_ins - 1) * CheckInCooldown <= now
    <3>1. (d.check_ins - 1) * CheckInCooldown = 0
      BY <1>3, <2>1, SafetyGuardAssumption
    <3>2. d.started_at <= now /\ d.started_at \in Nat
      BY <1>2, <1>3 DEF IInv, Coherent, Contribution
    <3> QED BY <3>1, <3>2
  <2>2. ASSUME C[g].check_ins > 0
        PROVE  d.started_at + (d.check_ins - 1) * CheckInCooldown <= now
    <3> DEFINE n == C[g].check_ins  last == C[g].last_check_in_at  since == C[g].started_at
               spent == (n - 1) * CheckInCooldown
    <3>1. n \in Nat /\ last \in Nat /\ since \in Nat
      BY <1>1, SafetyGuardAssumption DEF Contribution
    <3>2. since + spent <= last /\ now - last >= CheckInCooldown
      BY <1>2, <2>2, <3>1 DEF IInv, CheckInsAreSpaced
    <3>3. n * CheckInCooldown = spent + CheckInCooldown
      BY <3>1, SafetyGuardAssumption
    <3>4. (d.check_ins - 1) * CheckInCooldown = n * CheckInCooldown
      BY <1>3, <3>1
    <3>5. spent \in Int
      BY <3>1, SafetyGuardAssumption
    <3> HIDE DEF n, last, since, spent
    <3>6. since + (spent + CheckInCooldown) <= now
      BY <1>1, <3>1, <3>2, <3>5, SafetyGuardAssumption
    <3> QED BY <1>3, <3>3, <3>4, <3>6 DEF since
  <2>3. C[g].check_ins \in Nat
    BY <1>1, SafetyGuardAssumption DEF Contribution
  <2>4. d.started_at + (d.check_ins - 1) * CheckInCooldown <= now
    BY <2>1, <2>2, <2>3
  <2> QED BY <1>1, <1>2, <1>3, <1>4, <1>6, <1>7, <2>4 DEF IInv, CheckInsAreSpaced
<1> QED BY <1>8, <1>11, <1>14, <1>15, <1>16, <1>17, <1>18 DEF IInv

(* Ending the journey: whatever the shares, every open slot is closed and  *)
(* nothing else about participation changes.                               *)
LEMMA EndStep ==
  ASSUME IInv, NEW D \in [Guardians -> Contribution], NEW outcome \in {"Completed", "Cancelled"},
         journey.state \in Running, journey.assignment_revision < MaxU32,
         Account([withoutProposal(journey) EXCEPT !.state = outcome, !.contributions = D]),
         \A h \in Guardians:
           LET c == journey.contributions[h] IN
           /\ (D[h].joined <=> c.joined) /\ (D[h].claimed <=> c.claimed)
           /\ D[h].check_ins = c.check_ins /\ D[h].last_check_in_at = c.last_check_in_at
           /\ D[h].started_at = c.started_at
           /\ D[h].joined => D[h].ended_at # 0
           /\ ~c.joined => D[h] = c
  PROVE  IInv'
<1> DEFINE w == withoutProposal(journey)
           j == [w EXCEPT !.state = outcome, !.contributions = D]
<1>1. journey \in JourneyV2
  BY DEF IInv, TypeOK
<1>2. w \in JourneyV2 /\ outcome \in JourneyState
  BY <1>1, WithoutProposalType DEF JourneyState
<1>3. /\ j \in JourneyV2 /\ j.contributions = D /\ j.state = outcome
      /\ j.current_guardian = w.current_guardian /\ j.proposed_guardian = w.proposed_guardian
      /\ j.proposal_expires_at = w.proposal_expires_at /\ j.deadline = w.deadline
      /\ j.sequence = w.sequence /\ j.assignment_revision = w.assignment_revision
  BY <1>2 DEF JourneyV2
<1>4. Account(j)
  OBVIOUS
<1> HIDE DEF j, w
<1>5. /\ j.current_guardian = journey.current_guardian /\ j.proposed_guardian = NoKey
      /\ j.proposal_expires_at = 0 /\ j.deadline = journey.deadline
      /\ j.sequence = journey.sequence /\ j.assignment_revision = journey.assignment_revision + 1
  BY <1>1, <1>3, WithoutProposalType DEF w
<1>6. journey' = j /\ UNCHANGED <<reputation, prior, now>>
  BY <1>4 DEF Account
<1>7. TypeOK'
  BY <1>3, <1>6 DEF IInv, TypeOK
<1>8. views' \subseteq ViewType /\ (\A v \in views': v.sequence <= j.sequence) /\ StaleSignaturesFail'
  BY <1>3, <1>4, <1>5, FreshRevision
<1>9. Joined(j) = Joined(journey)
  BY <1>3 DEF Joined
<1>10. Coherent'
  BY <1>3, <1>5, <1>6, <1>8, <1>9 DEF IInv, Coherent, Running
<1>11. SlotsFollowAssignment'
  BY <1>3, <1>6 DEF SlotsFollowAssignment
<1>12. ProposalHasRoom'
  BY <1>5, <1>6 DEF ProposalHasRoom
<1>13. CreditedOnce'
  BY <1>3, <1>6 DEF IInv, CreditedOnce, Running
<1>14. CheckInsAreSpaced'
  BY <1>3, <1>5, <1>6 DEF IInv, CheckInsAreSpaced
<1> QED BY <1>7, <1>8, <1>10, <1>11, <1>12, <1>13, <1>14 DEF IInv

LEMMA EndAllSlots ==
  ASSUME IInv
  PROVE  /\ endAll(journey) \in [Guardians -> Contribution]
         /\ \A h \in Guardians:
              LET c == journey.contributions[h]
                  e == endAll(journey)[h] IN
              /\ (e.joined <=> c.joined) /\ (e.claimed <=> c.claimed)
              /\ e.check_ins = c.check_ins /\ e.last_check_in_at = c.last_check_in_at
              /\ e.started_at = c.started_at
              /\ e.joined => e.ended_at # 0
              /\ ~c.joined => e = c
<1>1. now \in Nat \ {0} /\ \A h \in Guardians: journey.contributions[h] \in Contribution
  BY DEF IInv, TypeOK, JourneyV2
<1>2. \A h \in Guardians: endAll(journey)[h] =
        IF journey.contributions[h].joined /\ journey.contributions[h].ended_at = 0
        THEN Ended(journey.contributions[h], now) ELSE journey.contributions[h]
  BY DEF endAll, Ended
<1>3. \A h \in Guardians: endAll(journey)[h] \in Contribution
  BY <1>1, <1>2, EndedFields
<1>4. endAll(journey) \in [Guardians -> Contribution]
  BY <1>3 DEF endAll
<1> QED BY <1>1, <1>2, <1>4, EndedFields

LEMMA CancelStep ==
  ASSUME IInv, NEW v \in views, CancelJourney(v)
  PROVE  IInv'
<1>1. journey.state \in Running /\ journey.assignment_revision < MaxU32
      /\ Account([withoutProposal(journey) EXCEPT !.state = "Cancelled", !.contributions = endAll(journey)])
  BY DEF CancelJourney, revision
<1> QED BY <1>1, EndAllSlots, EndStep

LEMMA SettledSlots ==
  ASSUME IInv, Eligible(journey) # {}
  PROVE  /\ settled(journey) \in [Guardians -> Contribution]
         /\ \A h \in Guardians:
              LET c == journey.contributions[h]
                  e == settled(journey)[h] IN
              /\ (e.joined <=> c.joined) /\ (e.claimed <=> c.claimed)
              /\ e.check_ins = c.check_ins /\ e.last_check_in_at = c.last_check_in_at
              /\ e.started_at = c.started_at
              /\ e.joined => e.ended_at # 0
              /\ ~c.joined => e = c
<1> DEFINE Shared(c, p, r) == [c EXCEPT !.points = p, !.reputation = r]
           e(h) == endAll(journey)[h]
<1>1. Eligible(journey) \in SUBSET Guardians /\ Eligible(journey) \subseteq Joined(journey)
  BY DEF Eligible, Joined
<1>2. \A h \in Guardians: /\ share(PointsPool, h, Eligible(journey)) \in Nat
                          /\ share(ReputationPool, h, Eligible(journey)) \in Nat
  BY <1>1, ShareType, SafetyGuardAssumption
<1>3. ASSUME NEW c \in Contribution, NEW p \in Nat, NEW r \in Nat
      PROVE  /\ Shared(c, p, r) \in Contribution
             /\ (Shared(c, p, r).joined <=> c.joined) /\ (Shared(c, p, r).claimed <=> c.claimed)
             /\ Shared(c, p, r).check_ins = c.check_ins
             /\ Shared(c, p, r).last_check_in_at = c.last_check_in_at
             /\ Shared(c, p, r).started_at = c.started_at /\ Shared(c, p, r).ended_at = c.ended_at
  BY DEF Contribution
<1>4. \A h \in Guardians: settled(journey)[h] =
        IF h \in Eligible(journey)
        THEN Shared(e(h), share(PointsPool, h, Eligible(journey)), share(ReputationPool, h, Eligible(journey)))
        ELSE e(h)
  BY DEF settled
<1>5. \A h \in Guardians: h \in Eligible(journey) => journey.contributions[h].joined
  BY <1>1 DEF Joined
<1>6. endAll(journey) \in [Guardians -> Contribution]
      /\ \A h \in Guardians:
              LET c == journey.contributions[h] IN
              /\ (e(h).joined <=> c.joined) /\ (e(h).claimed <=> c.claimed)
              /\ e(h).check_ins = c.check_ins /\ e(h).last_check_in_at = c.last_check_in_at
              /\ e(h).started_at = c.started_at
              /\ e(h).joined => e(h).ended_at # 0
              /\ ~c.joined => e(h) = c
  BY EndAllSlots
<1>7. \A h \in Guardians: e(h) \in Contribution
  BY <1>6
<1> HIDE DEF Shared, e
<1>8. \A h \in Guardians: settled(journey)[h] \in Contribution
  BY <1>2, <1>3, <1>4, <1>7
<1>9. settled(journey) \in [Guardians -> Contribution]
  BY <1>8 DEF settled
<1>10. ASSUME NEW h \in Guardians
       PROVE  LET c == journey.contributions[h]
                  s == settled(journey)[h] IN
              /\ (s.joined <=> c.joined) /\ (s.claimed <=> c.claimed)
              /\ s.check_ins = c.check_ins /\ s.last_check_in_at = c.last_check_in_at
              /\ s.started_at = c.started_at
              /\ s.joined => s.ended_at # 0
              /\ ~c.joined => s = c
  <2> DEFINE c == journey.contributions[h]
             s == settled(journey)[h]
  <2>1. /\ (s.joined <=> e(h).joined) /\ (s.claimed <=> e(h).claimed)
        /\ s.check_ins = e(h).check_ins /\ s.last_check_in_at = e(h).last_check_in_at
        /\ s.started_at = e(h).started_at /\ s.ended_at = e(h).ended_at
    BY <1>2, <1>3, <1>4, <1>7
  <2>2. ~c.joined => s = e(h)
    BY <1>4, <1>5
  <2> QED BY <1>6, <2>1, <2>2
<1> QED BY <1>9, <1>10

LEMMA CompleteStep ==
  ASSUME IInv, NEW v \in views, CompleteJourney(v)
  PROVE  IInv'
<1>1. journey.state \in Running /\ journey.assignment_revision < MaxU32 /\ Eligible(journey) # {}
      /\ Account([withoutProposal(journey) EXCEPT !.state = "Completed", !.contributions = settled(journey)])
  BY DEF CompleteJourney, revision
<1> QED BY <1>1, SettledSlots, EndStep

LEMMA ClaimedFields ==
  ASSUME NEW c \in Contribution
  PROVE  LET d == [c EXCEPT !.claimed = TRUE] IN
         /\ d \in Contribution /\ d.claimed /\ (d.joined <=> c.joined)
         /\ d.check_ins = c.check_ins /\ d.last_check_in_at = c.last_check_in_at
         /\ d.started_at = c.started_at /\ d.ended_at = c.ended_at
         /\ d.points = c.points /\ d.reputation = c.reputation
         /\ [d EXCEPT !.claimed = FALSE] = [c EXCEPT !.claimed = FALSE]
<1> DEFINE d == [c EXCEPT !.claimed = TRUE]
<1>1. /\ d \in Contribution /\ d.claimed /\ (d.joined <=> c.joined)
      /\ d.check_ins = c.check_ins /\ d.last_check_in_at = c.last_check_in_at
      /\ d.started_at = c.started_at /\ d.ended_at = c.ended_at
      /\ d.points = c.points /\ d.reputation = c.reputation
  BY DEF Contribution
<1>2. [d EXCEPT !.claimed = FALSE] = [c EXCEPT !.claimed = FALSE]
  BY DEF Contribution
<1> QED BY <1>1, <1>2

LEMMA ClaimStep ==
  ASSUME IInv, NEW g \in Guardians, ClaimReward(g)
  PROVE  IInv' /\ Unclaimed(journey') = Unclaimed(journey)
         /\ \A h \in Guardians: journey.contributions[h].claimed => journey'.contributions[h].claimed
<1> DEFINE C == journey.contributions
           d == [C[g] EXCEPT !.claimed = TRUE]
           D == [C EXCEPT ![g] = d]
           r == [points |-> reputation[g].points + C[g].points,
                 reputation |-> reputation[g].reputation + C[g].reputation,
                 completed |-> reputation[g].completed + 1]
<1>1. journey \in JourneyV2 /\ C \in [Guardians -> Contribution] /\ C[g] \in Contribution
  BY DEF IInv, TypeOK, JourneyV2
<1>2. journey' = [journey EXCEPT !.contributions = D] /\ UNCHANGED <<prior, views, now>>
      /\ reputation' = [reputation EXCEPT ![g] = r]
  BY <1>1 DEF ClaimReward, claimed, JourneyV2
<1>3. /\ journey.state = "Completed" /\ C[g].check_ins > 0 /\ ~C[g].claimed /\ C[g].joined
      /\ r \in [points: 0..MaxU64, reputation: 0..MaxU64, completed: 0..MaxU64]
  BY <1>1, SafetyGuardAssumption DEF IInv, TypeOK, ClaimReward, Contribution
<1>4. r = [points |-> prior[g] + C[g].points, reputation |-> C[g].reputation, completed |-> 1]
  <2>1. reputation[g] = [points |-> prior[g], reputation |-> 0, completed |-> 0]
    BY <1>3 DEF IInv, CreditedOnce
  <2>2. reputation[g].points = prior[g] /\ reputation[g].reputation = 0 /\ reputation[g].completed = 0
    BY <2>1
  <2>3. C[g].reputation \in Nat
    BY <1>1 DEF Contribution
  <2>4. 0 + C[g].reputation = C[g].reputation /\ 0 + 1 = 1
    BY <2>3
  <2> QED BY <2>2, <2>4
<1>5. /\ d \in Contribution /\ d.claimed /\ (d.joined <=> C[g].joined)
      /\ d.check_ins = C[g].check_ins /\ d.last_check_in_at = C[g].last_check_in_at
      /\ d.started_at = C[g].started_at /\ d.ended_at = C[g].ended_at
      /\ d.points = C[g].points /\ d.reputation = C[g].reputation
      /\ [d EXCEPT !.claimed = FALSE] = [C[g] EXCEPT !.claimed = FALSE]
  BY <1>1, ClaimedFields
<1>6. D \in [Guardians -> Contribution] /\ D[g] = d /\ \A h \in Guardians: h # g => D[h] = C[h]
  BY <1>1, <1>5
<1> HIDE DEF d, D, r
<1>7. /\ journey' \in JourneyV2 /\ journey'.contributions = D /\ journey'.state = journey.state
      /\ journey'.current_guardian = journey.current_guardian
      /\ journey'.proposed_guardian = journey.proposed_guardian
      /\ journey'.proposal_expires_at = journey.proposal_expires_at /\ journey'.deadline = journey.deadline
      /\ journey'.sequence = journey.sequence
      /\ journey'.assignment_revision = journey.assignment_revision
  BY <1>1, <1>2, <1>6 DEF JourneyV2
<1>8. \A h \in Guardians: /\ (D[h].joined <=> C[h].joined)
                          /\ D[h].check_ins = C[h].check_ins
                          /\ D[h].last_check_in_at = C[h].last_check_in_at
                          /\ D[h].started_at = C[h].started_at /\ D[h].ended_at = C[h].ended_at
                          /\ ~D[h].joined => D[h] = C[h]
                          /\ C[h].claimed => D[h].claimed
  BY <1>3, <1>5, <1>6
<1>9. TypeOK'
  BY <1>2, <1>3, <1>7 DEF IInv, TypeOK
<1>10. Joined(journey') = Joined(journey) /\ Assignment(journey') = Assignment(journey)
  BY <1>7, <1>8 DEF Joined, Assignment
<1>11. Coherent'
  BY <1>2, <1>3, <1>7, <1>8, <1>10 DEF IInv, Coherent, Running
<1>12. StaleSignaturesFail' /\ SlotsFollowAssignment' /\ ProposalHasRoom'
  <2>1. StaleSignaturesFail'
    BY <1>2, <1>7, <1>10 DEF IInv, StaleSignaturesFail
  <2>2. SlotsFollowAssignment'
    BY <1>3, <1>7, <1>8 DEF IInv, SlotsFollowAssignment
  <2>3. ProposalHasRoom'
    BY <1>7, <1>10 DEF IInv, ProposalHasRoom
  <2> QED BY <2>1, <2>2, <2>3
<1>13. CreditedOnce'
  <2>1. reputation'[g] = r /\ \A h \in Guardians: h # g => reputation'[h] = reputation[h]
    BY <1>2 DEF IInv, TypeOK
  <2>2. journey'.state = "Completed" /\ D[g].check_ins > 0 /\ D[g].claimed
        /\ r = [points |-> prior[g] + D[g].points, reputation |-> D[g].reputation, completed |-> 1]
    BY <1>3, <1>4, <1>5, <1>6, <1>7
  <2> QED BY <1>2, <1>3, <1>6, <1>7, <2>1, <2>2 DEF IInv, CreditedOnce
<1>14. CheckInsAreSpaced'
  BY <1>2, <1>7, <1>8 DEF IInv, CheckInsAreSpaced
<1>15. Unclaimed(journey') = Unclaimed(journey)
  <2> DEFINE U == [h \in Guardians |-> [C[h] EXCEPT !.claimed = FALSE]]
  <2>1. \A h \in Guardians: [D[h] EXCEPT !.claimed = FALSE] = [C[h] EXCEPT !.claimed = FALSE]
    BY <1>5, <1>6
  <2>2. [h \in Guardians |-> [D[h] EXCEPT !.claimed = FALSE]] = U
    BY <2>1
  <2> HIDE DEF U
  <2>3. Unclaimed(journey') = [journey' EXCEPT !.contributions = U]
    BY <1>7, <2>2 DEF Unclaimed
  <2>4. Unclaimed(journey) = [journey EXCEPT !.contributions = U]
    BY DEF Unclaimed, U
  <2> QED BY <1>1, <1>2, <2>3, <2>4 DEF JourneyV2
<1> QED BY <1>7, <1>8, <1>9, <1>11, <1>12, <1>13, <1>14, <1>15 DEF IInv

LEMMA TickStep ==
  ASSUME IInv, Tick
  PROVE  IInv'
<1>1. UNCHANGED <<journey, reputation, prior, views>> /\ now' = now + 1 /\ now \in Nat \ {0}
  BY DEF Tick, IInv, TypeOK
<1>2. journey \in JourneyV2 /\ \A g \in Guardians: journey.contributions[g] \in Contribution
  BY DEF IInv, TypeOK, JourneyV2
<1>3. TypeOK'
  BY <1>1 DEF IInv, TypeOK
<1>4. Coherent'
  BY <1>1, <1>2 DEF IInv, Coherent, Joined, Contribution
<1>5. StaleSignaturesFail' /\ SlotsFollowAssignment' /\ ProposalHasRoom' /\ CreditedOnce'
  BY <1>1 DEF IInv, StaleSignaturesFail, SlotsFollowAssignment, ProposalHasRoom, CreditedOnce, Assignment, Joined
<1>6. CheckInsAreSpaced'
  BY <1>1, <1>2 DEF IInv, CheckInsAreSpaced, Contribution
<1> QED BY <1>3, <1>4, <1>5, <1>6 DEF IInv

LEMMA StepSound == IInv /\ [Next]_vars => IInv'
<1> SUFFICES ASSUME IInv, [Next]_vars PROVE IInv'
  OBVIOUS
<1>1. ASSUME NEW deadline \in 1..MaxTime, CreateJourney(deadline) PROVE IInv'
  BY <1>1, CreateStep
<1>2. ASSUME NEW v \in views, NEW g \in Guardians, ProposeGuardian(v, g) PROVE IInv'
  BY <1>2, ProposeStep
<1>3. ASSUME NEW v \in views, NEW g \in Guardians, AcceptGuardian(v, g) PROVE IInv'
  BY <1>3, AcceptStep
<1>4. ASSUME NEW v \in views, NEW g \in Guardians, CheckIn(v, g) PROVE IInv'
  BY <1>4, CheckInStep
<1>5. ASSUME NEW v \in views, CancelProposal(v) PROVE IInv'
  BY <1>5, CancelProposalStep
<1>6. ASSUME NEW v \in views, CompleteJourney(v) PROVE IInv'
  BY <1>6, CompleteStep
<1>7. ASSUME NEW v \in views, CancelJourney(v) PROVE IInv'
  BY <1>7, CancelStep
<1>8. ASSUME NEW g \in Guardians, ClaimReward(g) PROVE IInv'
  BY <1>8, ClaimStep
<1>9. CASE Tick
  BY <1>9, TickStep
<1>10. CASE UNCHANGED vars
  BY <1>10 DEF vars, IInv, TypeOK, Coherent, StaleSignaturesFail, SlotsFollowAssignment,
       ProposalHasRoom, CreditedOnce, CheckInsAreSpaced, Joined, Assignment
<1> QED BY <1>1, <1>2, <1>3, <1>4, <1>5, <1>6, <1>7, <1>8, <1>9, <1>10 DEF Next

----------------------------------------------------------------------------
(* Results                                                                 *)

LEMMA Invariance == Spec => []IInv
BY InitSound, StepSound, PTL DEF Spec

(* Counters and balances keep their widths, and the account its shape.     *)
THEOREM TypeCorrect == Spec => []TypeOK
<1>1. IInv => TypeOK
  BY DEF IInv
<1> QED BY <1>1, Invariance, PTL

(* An instruction signed against an earlier assignment never finds its     *)
(* revision or its sequence current again.                                 *)
THEOREM SignatureSafety == Spec => []StaleSignaturesFail
<1>1. IInv => StaleSignaturesFail
  BY DEF IInv
<1> QED BY <1>1, Invariance, PTL

(* Exactly the current guardian of an active journey has an open slot.     *)
THEOREM SlotSafety == Spec => []SlotsFollowAssignment
<1>1. IInv => SlotsFollowAssignment
  BY DEF IInv
<1> QED BY <1>1, Invariance, PTL

(* A pending proposal can be accepted without exceeding the slot limit.    *)
THEOREM ProposalSafety == Spec => []ProposalHasRoom
<1>1. IInv => ProposalHasRoom
  BY DEF IInv
<1> QED BY <1>1, Invariance, PTL

(* A share reaches its guardian's reputation account at most once.         *)
THEOREM CreditSafety == Spec => []CreditedOnce
<1>1. IInv => CreditedOnce
  BY DEF IInv
<1> QED BY <1>1, Invariance, PTL

(* The cooldown bounds the number of check-ins across handoffs.            *)
THEOREM CheckInSafety == Spec => []CheckInsAreSpaced
<1>1. IInv => CheckInsAreSpaced
  BY DEF IInv
<1> QED BY <1>1, Invariance, PTL

(* Once completed or cancelled, an account changes only by claims.         *)
THEOREM Finality == Spec => SettledForever
<1> DEFINE Final == journey.state \in {"Completed", "Cancelled"} =>
              /\ Unclaimed(journey') = Unclaimed(journey)
              /\ \A g \in Guardians: journey.contributions[g].claimed
                                       => journey'.contributions[g].claimed
<1>1. ASSUME IInv, [Next]_vars, journey.state \in {"Completed", "Cancelled"}
      PROVE  Final
  <2>1. CASE \E g \in Guardians: ClaimReward(g)
    BY <1>1, <2>1, ClaimStep
  <2>2. CASE Tick \/ UNCHANGED vars
    BY <2>2 DEF Tick, vars
  <2>3. \A v \in views: \A g \in Guardians:
          /\ ~ProposeGuardian(v, g) /\ ~AcceptGuardian(v, g) /\ ~CheckIn(v, g)
          /\ ~CancelProposal(v) /\ ~CompleteJourney(v) /\ ~CancelJourney(v)
    BY <1>1 DEF ProposeGuardian, AcceptGuardian, CheckIn, CancelProposal,
         CompleteJourney, CancelJourney, revision, Running
  <2>4. \A v \in views: ~CancelProposal(v) /\ ~CompleteJourney(v) /\ ~CancelJourney(v)
    BY <1>1 DEF CancelProposal, CompleteJourney, CancelJourney, revision, Running
  <2>5. \A deadline \in 1..MaxTime: ~CreateJourney(deadline)
    BY <1>1 DEF CreateJourney
  <2> QED BY <1>1, <2>1, <2>2, <2>3, <2>4, <2>5 DEF Next
<1>2. IInv /\ [Next]_vars => [Final]_vars
  BY <1>1
<1> QED BY <1>2, Invariance, PTL DEF Spec, SettledForever

-----------------------------------------------------------------------------
(***************************************************************************)
(* A linked journey: the outbox, the cluster and the room.                 *)
(***************************************************************************)
Who == Members \cup {NoOne}
Version == [state : {"uncreated", "open", "active", "completed", "cancelled"}, guardian : Who, proposed : Who,
            revision : Nat, sequence : Nat]
Binding == [slot : Nat, proposal : Nat, members : SUBSET Who, lease : Callers \cup {NoOne}, leaseOver : BOOLEAN]
Intent == [op : Linked!Operations, who : Who, revision : Nat, status : {"prepared", "submitted"} \cup Linked!Settled, lapsed : BOOLEAN]
Fate == [tx : {"unsent", "sent", "processed", "finalized", "rejected"}, passed : BOOLEAN]
Application == [who : Who, pending : BOOLEAN, consent : {"none", "kept", "revoked"}]
LinkedRoom == [status : {"going", "arrived", "cancelled"}, guardian : Who, applications : Seq(Application),
               slot : Nat, sequence : Nat]
Authorized == [at : {"authorized"}, op : Linked!Operations, who : Who, app : Nat, stale : BOOLEAN]
Leased == [at : {"leased"}, op : Linked!Operations, who : Who, app : Nat, seen : Version, proposal : Nat]
Signed == [at : {"signed"}, intent : Nat, stale : BOOLEAN]
Calling == {Linked!Idle} \cup Authorized \cup Leased \cup Signed
Watching == [at : {"status", "receipt", "send"}, intent : Nat] \cup [at : {"height"}, intent : Nat, known : BOOLEAN]
Syncing == {Linked!Idle} \cup {[at |-> "account"]} \cup [at : {"applying"}, slot : Nat] \cup Watching
Delivery == [at : {"sent", "asking"}, slot : Nat, app : Nat, members : SUBSET Who]

LinkTypeOK ==
  /\ program \in Seq(Version) /\ program # <<>>
  /\ binding \in Binding /\ binding.slot \in DOMAIN program
  /\ intents \in Seq(Intent) /\ cluster \in Seq(Fate) /\ Len(cluster) = Len(intents)
  /\ room \in LinkedRoom /\ call \in [Callers -> Calling] /\ sync \in Syncing
  /\ applying \subseteq Delivery /\ \A a \in applying : a.slot \in DOMAIN program

(* The copy of the binding that a call holds is stale once anything of the *)
(* outbox was saved; so whoever authorized a transaction on a fresh one,   *)
(* and whoever holds the lease, finds nothing in anybody's hands.          *)
Waits(x) == x.status = "submitted" \/ (x.status = "prepared" /\ ~x.lapsed)
None(is) == \A i \in DOMAIN is : ~Waits(is[i])
Single(is) == \A i, j \in DOMAIN is : Waits(is[i]) /\ Waits(is[j]) => i = j
Clear(w, c, b) == (w.at = "authorized" /\ ~w.stale) \/ (w.at = "leased" /\ b.lease = c)
Exclusive(is, b, w) == Single(is) /\ (\A c \in Callers : Clear(w[c], c, b) => None(is))

(* What the outbox says of a transaction, and what has become of it.       *)
Agrees(x, t) ==
  /\ x.status = "confirmed" => t.tx = "finalized"
  /\ x.status = "failed" => t.tx = "rejected"
  /\ x.status = "expired" /\ t.tx # "unsent" => t.tx = "sent" /\ t.passed
  /\ x.status = "prepared" => t.tx = "unsent"
  /\ t.passed => t.tx \in {"unsent", "sent"}
Finished(t) == t.tx \in {"finalized", "rejected"}
(* A reconciliation follows what was submitted, and asks for a receipt     *)
(* only once nothing more can come of it.                                  *)
Follows(s, is, cl) ==
  s \in Watching => /\ s.intent \in DOMAIN is /\ is[s.intent].status # "prepared"
                    /\ s.at = "receipt" => cl[s.intent].passed \/ Finished(cl[s.intent])
Agreeing == \A i \in DOMAIN intents : Agrees(intents[i], cluster[i])
LinkInv == LinkTypeOK /\ Exclusive(intents, binding, call) /\ Agreeing /\ Follows(sync, intents, cluster)

LEMMA CallIs ==
  ASSUME NEW w \in Calling
  PROVE  /\ w.at \in {"idle", "authorized", "leased", "signed"}
         /\ w.at = "authorized" => w \in Authorized
         /\ w.at = "leased" => w \in Leased
         /\ w.at = "signed" => w \in Signed
<1>1. CASE w = Linked!Idle
  BY <1>1 DEF Linked!Idle
<1>2. CASE w \in Authorized
  BY <1>2 DEF Authorized
<1>3. CASE w \in Leased
  BY <1>3 DEF Leased
<1>4. CASE w \in Signed
  BY <1>4 DEF Signed
<1> QED BY <1>1, <1>2, <1>3, <1>4 DEF Calling

LEMMA SyncIs ==
  ASSUME NEW s \in Syncing
  PROVE  /\ s.at \in {"status", "receipt", "send", "height"} <=> s \in Watching
         /\ s \in Watching => s.intent \in Nat
         /\ s.at = "applying" => s.slot \in Nat
         /\ s.at = "height" => s.known \in BOOLEAN
<1>1. CASE s = Linked!Idle
  BY <1>1 DEF Linked!Idle, Watching
<1>2. CASE s = [at |-> "account"]
  BY <1>2 DEF Watching
<1>3. CASE s \in [at : {"applying"}, slot : Nat]
  BY <1>3 DEF Watching
<1>4. CASE s \in [at : {"status", "receipt", "send"}, intent : Nat]
  BY <1>4 DEF Watching
<1>5. CASE s \in [at : {"height"}, intent : Nat, known : BOOLEAN]
  BY <1>5 DEF Watching
<1> QED BY <1>1, <1>2, <1>3, <1>4, <1>5 DEF Syncing, Watching

LEMMA SavedIs ==
  ASSUME LinkTypeOK, NEW b \in Binding, NEW w \in [Callers -> Calling], Linked!Saved(b, w)
  PROVE  /\ binding' = b /\ call' \in [Callers -> Calling]
         /\ \A c \in Callers : Clear(call'[c], c, b) => w[c].at = "leased" /\ b.lease = c
<1>1. binding' = b
  BY DEF Linked!Saved
<1>2. ASSUME NEW c \in Callers
      PROVE  call'[c] \in Calling /\ (Clear(call'[c], c, b) => w[c].at = "leased" /\ b.lease = c)
  <2>1. w[c] \in Calling
    OBVIOUS
  <2>2. CASE w[c].at = "authorized"
    <3>1. w[c] \in Authorized /\ call'[c] = [w[c] EXCEPT !.stale = TRUE]
      BY <2>1, <2>2, CallIs DEF Linked!Saved
    <3> QED BY <3>1 DEF Authorized, Calling, Clear
  <2>3. CASE w[c].at = "signed"
    <3>1. w[c] \in Signed /\ call'[c] = [w[c] EXCEPT !.stale = TRUE]
      BY <2>1, <2>3, CallIs DEF Linked!Saved
    <3> QED BY <3>1 DEF Signed, Calling, Clear
  <2>4. CASE w[c].at \notin {"authorized", "signed"}
    BY <2>1, <2>4 DEF Linked!Saved, Clear
  <2> QED BY <2>2, <2>3, <2>4
<1>3. call' = [c \in Callers |-> call'[c]]
  BY DEF Linked!Saved
<1>4. call' \in [Callers -> Calling]
  BY <1>2, <1>3
<1> QED BY <1>1, <1>2, <1>4

(* Nobody is clear to prepare who was not, unless nothing is waiting.      *)
LEMMA Quieter ==
  ASSUME NEW is, NEW js, NEW b, NEW d, NEW w, NEW v, Exclusive(is, b, w), DOMAIN js = DOMAIN is,
         \A i \in DOMAIN is : Waits(js[i]) => Waits(is[i]),
         \A c \in Callers : Clear(v[c], c, d) => Clear(w[c], c, b) \/ None(is)
  PROVE  Exclusive(js, d, v)
BY DEF Exclusive, Single, None

LEMMA LapsedIs ==
  ASSUME NEW is \in Seq(Intent)
  PROVE  /\ Linked!Lapsed(is) \in Seq(Intent) /\ Len(Linked!Lapsed(is)) = Len(is) /\ DOMAIN Linked!Lapsed(is) = DOMAIN is
         /\ \A i \in DOMAIN is : \/ Linked!Lapsed(is)[i] = is[i]
                                 \/ is[i].status = "prepared" /\ Linked!Lapsed(is)[i].status = "expired"
<1>1. DOMAIN is = 1..Len(is) /\ Len(is) \in Nat /\ \A i \in DOMAIN is : is[i] \in Intent
  OBVIOUS
<1>2. ASSUME NEW i \in DOMAIN is
      PROVE  /\ Linked!Lapsed(is)[i] \in Intent
             /\ \/ Linked!Lapsed(is)[i] = is[i]
                \/ is[i].status = "prepared" /\ Linked!Lapsed(is)[i].status = "expired"
  <2>1. Linked!Lapsed(is)[i] = IF is[i].status = "prepared" /\ is[i].lapsed
                        THEN [is[i] EXCEPT !.status = "expired", !.lapsed = FALSE] ELSE is[i]
    BY DEF Linked!Lapsed
  <2>2. is[i] \in Intent
    BY <1>1
  <2> QED BY <2>1, <2>2 DEF Intent, Linked!Settled
<1>3. Linked!Lapsed(is) = [i \in 1..Len(is) |-> Linked!Lapsed(is)[i]]
  BY <1>1 DEF Linked!Lapsed
<1>4. Linked!Lapsed(is) \in [1..Len(is) -> Intent]
  BY <1>1, <1>2, <1>3
<1>5. Linked!Lapsed(is) \in Seq(Intent)
  BY <1>1, <1>4, SeqDef
<1>6. Len(Linked!Lapsed(is)) = Len(is)
  BY <1>1, <1>4, <1>5
<1> QED BY <1>1, <1>2, <1>4, <1>5, <1>6

LEMMA BecomesIs ==
  ASSUME LinkTypeOK, NEW i \in DOMAIN intents, NEW tx \in {"unsent", "sent", "processed", "finalized", "rejected"}, Linked!Becomes(i, tx)
  PROVE  /\ cluster' \in Seq(Fate) /\ Len(cluster') = Len(intents)
         /\ cluster'[i].tx = tx /\ cluster'[i].passed = cluster[i].passed
         /\ \A j \in DOMAIN intents : j # i => cluster'[j] = cluster[j]
<1>1. i \in DOMAIN cluster /\ cluster \in Seq(Fate) /\ cluster[i] \in Fate /\ DOMAIN cluster = DOMAIN intents
  BY DEF LinkTypeOK
<1> DEFINE t == [cluster[i] EXCEPT !.tx = tx]
<1>2. t \in Fate /\ t.tx = tx /\ t.passed = cluster[i].passed
  BY <1>1 DEF Fate
<1>3. cluster' = [cluster EXCEPT ![i] = t]
  BY DEF Linked!Becomes
<1> HIDE DEF t
<1>4. cluster' \in Seq(Fate) /\ Len(cluster') = Len(cluster) /\ cluster'[i] = t
  BY <1>1, <1>2, <1>3, ExceptSeq
<1> QED BY <1>1, <1>2, <1>3, <1>4 DEF LinkTypeOK

LEMMA TakenIs ==
  ASSUME NEW a \in Version, NEW i, i.op \in Linked!Operations, i.who \in Who
  PROVE  Linked!taken(a, i) \in Version
<1> DEFINE r == a.revision + 1
           q == a.sequence + 1
           u == [a EXCEPT !.proposed = NoOne, !.revision = r]
<1>1. r \in Nat /\ q \in Nat /\ NoOne \in Who
  BY DEF Version, Who
<1>2. Linked!unproposed(a) = u
  BY DEF Linked!unproposed
<1>3. Linked!taken(a, i) \in {a, u} \cup {[a EXCEPT !.state = "open"], [a EXCEPT !.proposed = i.who, !.revision = r],
                                   [u EXCEPT !.state = "active", !.guardian = i.who, !.sequence = q],
                                   [u EXCEPT !.state = "completed"], [u EXCEPT !.state = "cancelled"]}
  <2>1. u.sequence = a.sequence
    BY DEF Version
  <2> HIDE DEF r
  <2> QED BY <1>2, <2>1 DEF Linked!taken, Linked!Operations, r
<1> HIDE DEF r, q
<1>4. u \in Version
  BY <1>1 DEF Version
<1> HIDE DEF u
<1> QED BY <1>1, <1>3, <1>4 DEF Version, u

-----------------------------------------------------------------------------
(* The cluster: what it makes final stays so, and what it can no longer    *)
(* take never comes to it.                                                 *)
LEMMA ProgramGrows ==
  ASSUME LinkTypeOK, NEW a \in Version, program' = Append(program, a), UNCHANGED <<binding, applying>>
  PROVE  /\ program' \in Seq(Version) /\ program' # <<>> /\ binding'.slot \in DOMAIN program'
         /\ \A d \in applying' : d.slot \in DOMAIN program'
<1>1. program \in Seq(Version) /\ binding.slot \in DOMAIN program /\ \A d \in applying : d.slot \in DOMAIN program
  BY DEF LinkTypeOK
<1>2. /\ program' \in Seq(Version) /\ Len(program') = Len(program) + 1 /\ Len(program) \in Nat
      /\ DOMAIN program' = 1..Len(program') /\ DOMAIN program = 1..Len(program)
  BY <1>1, AppendProperties
<1>3. DOMAIN program \subseteq DOMAIN program' /\ program' # <<>>
  BY <1>2
<1> QED BY <1>1, <1>2, <1>3

LEMMA ClusterKeeps ==
  ASSUME LinkInv, NEW i \in DOMAIN intents, Linked!Cluster(i)
  PROVE  LinkInv'
<1>1. /\ LinkTypeOK /\ Linked!Offchain /\ UNCHANGED <<binding, intents, room, barred, call, sync, applying>>
      /\ cluster[i] \in Fate /\ DOMAIN cluster = DOMAIN intents /\ Agrees(intents[i], cluster[i]) /\ intents[i] \in Intent
  BY DEF LinkInv, LinkTypeOK, Agreeing, Linked!Cluster, Linked!Include, Linked!Fork, Linked!Pass, Linked!Finalize, Linked!Offchain
<1>2. ASSUME cluster' \in Seq(Fate), Len(cluster') = Len(intents), Agrees(intents[i], cluster'[i]),
             \A j \in DOMAIN intents : j # i => cluster'[j] = cluster[j],
             cluster[i].passed \/ Finished(cluster[i]) => cluster'[i].passed \/ Finished(cluster'[i]),
             \/ UNCHANGED program
             \/ \E a \in Version : program' = Append(program, a)
      PROVE  LinkInv'
  <2>1. /\ program' \in Seq(Version) /\ program' # <<>> /\ binding'.slot \in DOMAIN program'
        /\ \A d \in applying' : d.slot \in DOMAIN program'
    BY <1>1, <1>2, ProgramGrows DEF LinkTypeOK
  <2>2. LinkTypeOK'
    BY <1>1, <1>2, <2>1 DEF LinkTypeOK
  <2>3. Agreeing'
    BY <1>1, <1>2 DEF Agreeing, LinkInv
  <2>4. Follows(sync', intents', cluster')
    BY <1>1, <1>2 DEF LinkInv, Follows
  <2> QED BY <1>1, <2>2, <2>3, <2>4 DEF LinkInv
<1>3. CASE Linked!Include(i)
  BY <1>1, <1>2, <1>3, BecomesIs DEF Linked!Include, Agrees, Finished
<1>4. CASE Linked!Fork(i)
  BY <1>1, <1>2, <1>4, BecomesIs DEF Linked!Fork, Agrees, Finished
<1>5. CASE Linked!Pass(i)
  <2> DEFINE t == [cluster[i] EXCEPT !.passed = TRUE]
  <2>1. t \in Fate /\ t.tx = cluster[i].tx /\ t.passed /\ cluster' = [cluster EXCEPT ![i] = t] /\ UNCHANGED program
        /\ intents[i].status = "submitted" /\ cluster[i].tx \in {"unsent", "sent"}
    BY <1>1, <1>5 DEF Linked!Pass, Fate
  <2> HIDE DEF t
  <2>2. cluster' \in Seq(Fate) /\ Len(cluster') = Len(cluster) /\ cluster'[i] = t
    BY <1>1, <2>1, ExceptSeq DEF LinkTypeOK
  <2> QED BY <1>1, <1>2, <2>1, <2>2 DEF Agrees, LinkTypeOK
<1>6. ASSUME NEW ok \in BOOLEAN, Linked!Finalize(i, ok) PROVE LinkInv'
  <2>1. Linked!taken(Linked!Last(program), intents[i]) \in Version
    <3>1. Linked!Last(program) \in Version
      BY <1>1 DEF LinkTypeOK, Linked!Last
    <3> QED BY <1>1, <3>1, TakenIs DEF Intent
  <2>2. \/ UNCHANGED program
        \/ \E a \in Version : program' = Append(program, a)
    BY <1>6, <2>1 DEF Linked!Finalize
  <2>3. cluster[i].tx = "processed" /\ Linked!Becomes(i, IF ok THEN "finalized" ELSE "rejected")
    BY <1>6 DEF Linked!Finalize
  <2> QED BY <1>1, <1>2, <2>2, <2>3, BecomesIs DEF Agrees, Finished
<1> QED BY <1>3, <1>4, <1>5, <1>6 DEF Linked!Cluster

(* Wallets used without the application.                                   *)
LEMMA DirectKeeps ==
  ASSUME LinkInv, NEW op \in Linked!Operations, NEW g \in Members, Linked!Direct(op, g)
  PROVE  LinkInv'
<1>1. LinkTypeOK /\ UNCHANGED <<binding, intents, cluster, room, barred, call, sync, applying>>
  BY DEF LinkInv, Linked!Direct, Linked!Offchain
<1>2. PICK i : i.op = op /\ i.who = g /\ program' = Append(program, Linked!taken(Linked!Last(program), i))
  BY DEF Linked!Direct
<1>3. Linked!taken(Linked!Last(program), i) \in Version
  <2>1. Linked!Last(program) \in Version
    BY <1>1 DEF LinkTypeOK, Linked!Last
  <2> QED BY <1>2, <2>1, TakenIs DEF Who
<1>4. LinkTypeOK'
  BY <1>1, <1>2, <1>3, ProgramGrows DEF LinkTypeOK
<1> QED BY <1>1, <1>4 DEF LinkInv, Agreeing

(* What happens in the room leaves the outbox alone.                       *)
LEMMA NonePendingIs ==
  ASSUME NEW as \in Seq(Application)
  PROVE  Linked!nonePending(as) \in Seq(Application) /\ [n \in DOMAIN as |-> Linked!revoked(as[n])] \in Seq(Application)
<1>1. DOMAIN as = 1..Len(as) /\ Len(as) \in Nat /\ \A n \in DOMAIN as : as[n] \in Application
  OBVIOUS
<1>2. \A a \in Application : [a EXCEPT !.pending = FALSE] \in Application /\ Linked!revoked(a) \in Application
  BY DEF Application, Linked!revoked
<1>3. Linked!nonePending(as) \in [1..Len(as) -> Application] /\ [n \in DOMAIN as |-> Linked!revoked(as[n])] \in [1..Len(as) -> Application]
  BY <1>1, <1>2 DEF Linked!nonePending
<1> QED BY <1>1, <1>3, SeqDef

LEMMA RoomKeeps ==
  ASSUME LinkInv, room' \in LinkedRoom, UNCHANGED <<program, binding, intents, cluster, call, sync, applying>>
  PROVE  LinkInv'
BY DEF LinkInv, LinkTypeOK, Agreeing

LEMMA RoomsKeep ==
  ASSUME LinkInv,
         \/ \E g \in Members : Linked!Apply(g) \/ Linked!Bar(g)
         \/ \E n \in DOMAIN room.applications : Linked!Withdraw(n) \/ Linked!Expire(n)
         \/ Linked!CancelRelay \/ Linked!Close("arrived") \/ Linked!Close("cancelled")
  PROVE  LinkInv'
<1>1. room \in LinkedRoom /\ room.applications \in Seq(Application)
  BY DEF LinkInv, LinkTypeOK, LinkedRoom
<1>2. ASSUME NEW as \in Seq(Application), room' = [room EXCEPT !.applications = as] PROVE room' \in LinkedRoom
  BY <1>1, <1>2 DEF LinkedRoom
<1>3. ASSUME NEW g \in Members, Linked!Apply(g) PROVE LinkInv'
  <2> DEFINE as == Append(room.applications, [who |-> g, pending |-> TRUE, consent |-> "none"])
  <2>1. [who |-> g, pending |-> TRUE, consent |-> "none"] \in Application
    BY DEF Application, Who
  <2>2. as \in Seq(Application)
    BY <1>1, <2>1
  <2>3. room' = [room EXCEPT !.applications = as] /\ Linked!Rooms
    BY <1>3 DEF Linked!Apply
  <2> HIDE DEF as
  <2> QED BY <1>2, <2>2, <2>3, RoomKeeps DEF Linked!Rooms
<1>4. ASSUME NEW g \in Members, Linked!Bar(g) PROVE LinkInv'
  BY <1>1, <1>4, RoomKeeps DEF Linked!Bar, Linked!Rooms
<1>5. ASSUME NEW n \in DOMAIN room.applications, Linked!Withdraw(n) \/ Linked!Expire(n) PROVE LinkInv'
  <2> DEFINE a == IF Linked!Withdraw(n) THEN Linked!revoked(room.applications[n]) ELSE [room.applications[n] EXCEPT !.pending = FALSE]
             as == [room.applications EXCEPT ![n] = a]
  <2>0. room.applications[n] \in Application
    BY <1>1
  <2>1. a \in Application
    BY <2>0 DEF Application, Linked!revoked
  <2>2. room' = [room EXCEPT !.applications = as] /\ Linked!Rooms
    BY <1>5 DEF Linked!Withdraw, Linked!Expire
  <2> HIDE DEF a
  <2>3. as \in Seq(Application)
    BY <1>1, <2>1, ExceptSeq
  <2> HIDE DEF as
  <2> QED BY <1>2, <2>2, <2>3, RoomKeeps DEF Linked!Rooms
<1>6. CASE Linked!CancelRelay
  <2> DEFINE as == [n \in DOMAIN room.applications |-> Linked!revoked(room.applications[n])]
  <2>1. as \in Seq(Application) /\ room' = [room EXCEPT !.applications = as] /\ Linked!Rooms
    BY <1>1, <1>6, NonePendingIs DEF Linked!CancelRelay
  <2> HIDE DEF as
  <2> QED BY <1>2, <2>1, RoomKeeps DEF Linked!Rooms
<1>7. ASSUME NEW how \in {"arrived", "cancelled"}, Linked!Close(how) PROVE LinkInv'
  <2> DEFINE as == Linked!nonePending(room.applications)
  <2>1. as \in Seq(Application) /\ room' = [room EXCEPT !.status = how, !.applications = as] /\ Linked!Rooms
    BY <1>1, <1>7, NonePendingIs DEF Linked!Close
  <2> HIDE DEF as
  <2>2. room' \in LinkedRoom
    BY <1>1, <2>1 DEF LinkedRoom
  <2> QED BY <2>1, <2>2, RoomKeeps DEF Linked!Rooms
<1> QED BY <1>3, <1>4, <1>5, <1>6, <1>7

-----------------------------------------------------------------------------
(* prepare and submit.                                                      *)
LEMMA CallKeeps ==
  ASSUME LinkInv, NEW c \in Callers, NEW w \in Calling, Linked!Calls(c, w), Clear(w, c, binding) => None(intents),
         UNCHANGED <<program, binding, intents, cluster, sync, applying>>, room' \in LinkedRoom
  PROVE  LinkInv'
<1>1. call' \in [Callers -> Calling] /\ call'[c] = w /\ \A d \in Callers : d # c => call'[d] = call[d]
  BY DEF Linked!Calls, LinkInv, LinkTypeOK
<1>2. LinkTypeOK'
  BY <1>1 DEF LinkInv, LinkTypeOK
<1>3. Exclusive(intents, binding, call')
  BY <1>1, Quieter DEF LinkInv
<1> QED BY <1>2, <1>3 DEF LinkInv, Agreeing

LEMMA IdleIs == Linked!Idle \in Calling /\ \A c, b : ~Clear(Linked!Idle, c, b)
  BY DEF Linked!Idle, Calling, Clear

LEMMA BeginPrepareKeeps ==
  ASSUME LinkInv, NEW c \in Callers, NEW op \in Linked!Operations, NEW who \in Who, NEW app \in Nat, Linked!BeginPrepare(c, op, who, app)
  PROVE  LinkInv'
<1> DEFINE w == [at |-> "authorized", op |-> op, who |-> who, app |-> app, stale |-> FALSE]
<1>1. w \in Calling /\ Linked!Calls(c, w) /\ UNCHANGED <<program, binding, intents, cluster, sync, applying, room>>
  BY DEF Linked!BeginPrepare, Calling, Authorized, Linked!Chain
<1>2. None(intents)
  BY DEF Linked!BeginPrepare, None, Waits, Linked!waiting
<1> HIDE DEF w
<1> QED BY <1>1, <1>2, CallKeeps DEF LinkInv, LinkTypeOK

LEMMA SaveKeeps ==
  ASSUME LinkInv, NEW b \in Binding, b.slot \in DOMAIN program, NEW w \in [Callers -> Calling], Linked!Saved(b, w),
         \A c \in Callers : w[c].at = "leased" /\ b.lease = c => None(intents),
         intents' \in Seq(Intent), Len(intents') = Len(intents),
         \A i \in DOMAIN intents : Waits(intents'[i]) => Waits(intents[i]),
         \A i \in DOMAIN intents : Agrees(intents'[i], cluster[i]),
         \A i \in DOMAIN intents : intents'[i].status = "prepared" => intents[i].status = "prepared",
         room' \in LinkedRoom, UNCHANGED <<program, cluster, sync, applying>>
  PROVE  LinkInv'
<1>1. binding' = b /\ call' \in [Callers -> Calling]
      /\ \A c \in Callers : Clear(call'[c], c, b) => w[c].at = "leased" /\ b.lease = c
  BY SavedIs DEF LinkInv
<1>2. DOMAIN intents' = DOMAIN intents
  BY DEF LinkInv, LinkTypeOK
<1>3. LinkTypeOK'
  BY <1>1, <1>2 DEF LinkInv, LinkTypeOK
<1>4. Exclusive(intents', b, call')
  BY <1>1, <1>2, Quieter DEF LinkInv
<1>5. Agreeing' /\ Follows(sync', intents', cluster')
  BY <1>2 DEF LinkInv, Agreeing, Follows
<1> QED BY <1>1, <1>3, <1>4, <1>5 DEF LinkInv

LEMMA LeaseKeeps ==
  ASSUME LinkInv, NEW c \in Callers, Linked!Lease(c)
  PROVE  LinkInv'
<1> DEFINE w == call[c]
           reserves == w.op = "propose"
           proposal == IF reserves THEN w.app ELSE binding.proposal
           members == IF reserves THEN binding.members \cup {w.who} ELSE binding.members
           b == [binding EXCEPT !.proposal = proposal, !.lease = c, !.leaseOver = FALSE, !.members = members]
           l == [at |-> "leased", op |-> w.op, who |-> w.who, app |-> w.app, seen |-> Linked!snapshot, proposal |-> proposal]
<1>1. w \in Authorized /\ LinkTypeOK /\ UNCHANGED <<program, intents, cluster, sync, applying>>
  BY CallIs DEF Linked!Lease, LinkInv, LinkTypeOK, Linked!Chain
<1>2. room' \in LinkedRoom
  <2>1. CASE UNCHANGED room
    BY <1>1, <2>1 DEF LinkTypeOK
  <2>2. CASE Linked!reservable(w.app) /\ room' = [room EXCEPT !.applications[w.app].consent = "kept"]
    <3> DEFINE a == [room.applications[w.app] EXCEPT !.consent = "kept"]
               as == [room.applications EXCEPT ![w.app] = a]
    <3>1. room \in LinkedRoom /\ room.applications \in Seq(Application) /\ w.app \in DOMAIN room.applications
      BY <1>1, <2>2 DEF LinkTypeOK, LinkedRoom, Linked!reservable
    <3>0. room.applications[w.app] \in Application
      BY <3>1
    <3>2. a \in Application
      BY <3>0 DEF Application
    <3>3. room' = [room EXCEPT !.applications = as]
      BY <2>2
    <3> HIDE DEF a
    <3>4. as \in Seq(Application)
      BY <3>1, <3>2, ExceptSeq
    <3> HIDE DEF as
    <3> QED BY <3>1, <3>3, <3>4 DEF LinkedRoom
  <2> QED BY <2>1, <2>2 DEF Linked!Lease
<1>3. CASE Linked!Calls(c, Linked!Idle) /\ UNCHANGED binding
  BY <1>1, <1>2, <1>3, CallKeeps, IdleIs
<1>4. CASE Linked!Saved(b, [call EXCEPT ![c] = l]) /\ Linked!unchanged(c)
  <2>1. None(intents)
    BY <1>1, <1>4 DEF LinkInv, Exclusive, Clear, Linked!unchanged, Authorized
  <2>2. Linked!snapshot \in Version
    BY <1>1 DEF LinkTypeOK, Linked!snapshot
  <2>3. proposal \in Nat /\ members \in SUBSET Who
    BY <1>1 DEF LinkTypeOK, Binding, Authorized
  <2> HIDE DEF proposal, members
  <2>4. l \in Calling
    BY <1>1, <2>2, <2>3 DEF Calling, Leased, Authorized
  <2>5. b \in Binding /\ b.slot = binding.slot
    BY <1>1, <2>3 DEF LinkTypeOK, Binding
  <2> HIDE DEF l, b, w
  <2>6. [call EXCEPT ![c] = l] \in [Callers -> Calling]
    BY <1>1, <2>4 DEF LinkTypeOK
  <2> QED BY <1>1, <1>2, <1>4, <2>1, <2>5, <2>6, SaveKeeps DEF LinkTypeOK, LinkInv, Agreeing
<1> QED BY <1>3, <1>4 DEF Linked!Lease

LEMMA PreparedKeeps ==
  ASSUME LinkInv, NEW c \in Callers, NEW ok \in BOOLEAN, Linked!Prepared(c, ok)
  PROVE  LinkInv'
<1> DEFINE w == call[c]
           x == [op |-> w.op, who |-> w.who, revision |-> Linked!snapshot.revision, status |-> "prepared", lapsed |-> FALSE]
           t == [tx |-> "unsent", passed |-> FALSE]
<1>1. w \in Leased /\ LinkTypeOK /\ UNCHANGED <<program, room, sync, applying>>
  BY CallIs DEF Linked!Prepared, LinkInv, LinkTypeOK, Linked!Chain
<1>2. Linked!released \in Binding /\ Linked!released.slot = binding.slot /\ Linked!released.lease = NoOne
  BY <1>1 DEF LinkTypeOK, Binding, Linked!released
<1>3. [call EXCEPT ![c] = Linked!Idle] \in [Callers -> Calling]
  BY <1>1, IdleIs DEF LinkTypeOK
<1>4. CASE /\ UNCHANGED <<intents, cluster>>
           /\ IF binding.lease = c THEN Linked!Saved(Linked!released, [call EXCEPT ![c] = Linked!Idle]) ELSE Linked!Calls(c, Linked!Idle) /\ UNCHANGED binding
  <2>1. CASE binding.lease = c
    BY <1>1, <1>2, <1>3, <1>4, <2>1, SaveKeeps, ChainAssumption DEF LinkTypeOK, LinkInv, Agreeing
  <2>2. CASE binding.lease # c
    BY <1>1, <1>4, <2>2, CallKeeps, IdleIs DEF LinkTypeOK
  <2> QED BY <2>1, <2>2
<1>5. CASE /\ Linked!holdsLease(c) /\ intents' = Append(Linked!Lapsed(intents), x) /\ cluster' = Append(cluster, t)
           /\ Linked!Saved(Linked!released, [call EXCEPT ![c] = Linked!Idle])
  <2> DEFINE is == Linked!Lapsed(intents)
  <2>1. /\ is \in Seq(Intent) /\ Len(is) = Len(intents) /\ DOMAIN is = DOMAIN intents
        /\ \A i \in DOMAIN intents : \/ is[i] = intents[i]
                                     \/ intents[i].status = "prepared" /\ is[i].status = "expired"
    BY <1>1, LapsedIs DEF LinkTypeOK
  <2>2. intents' = Append(is, x)
    BY <1>5
  <2> HIDE DEF is
  <2>3. x \in Intent /\ Waits(x) /\ x.status = "prepared"
    <3>1. Linked!snapshot \in Version
      BY <1>1 DEF LinkTypeOK, Linked!snapshot
    <3> QED BY <1>1, <3>1 DEF Leased, Version, Intent, Waits
  <2>4. t \in Fate /\ Agrees(x, t)
    BY DEF Fate, Agrees
  <2> HIDE DEF x, t
  <2>5. /\ intents' \in Seq(Intent) /\ Len(intents') = Len(intents) + 1 /\ intents'[Len(intents) + 1] = x
        /\ \A i \in DOMAIN intents : intents'[i] = is[i]
    BY <2>1, <2>2, <2>3, AppendProperties
  <2>6. /\ cluster' \in Seq(Fate) /\ Len(cluster') = Len(intents) + 1 /\ cluster'[Len(intents) + 1] = t
        /\ \A i \in DOMAIN intents : cluster'[i] = cluster[i]
    <3>1. cluster' = Append(cluster, t) /\ cluster \in Seq(Fate) /\ Len(cluster) = Len(intents) /\ DOMAIN intents = DOMAIN cluster
      BY <1>1, <1>5 DEF LinkTypeOK
    <3> QED BY <2>4, <3>1, AppendProperties
  <2>7. /\ Len(intents) \in Nat /\ DOMAIN intents = 1..Len(intents)
        /\ DOMAIN intents' = DOMAIN intents \cup {Len(intents) + 1} /\ Len(intents) + 1 \notin DOMAIN intents
    BY <1>1, <2>5 DEF LinkTypeOK
  <2>8. binding' = Linked!released /\ call' \in [Callers -> Calling] /\ \A d \in Callers : ~Clear(call'[d], d, Linked!released)
    <3>1. /\ binding' = Linked!released /\ call' \in [Callers -> Calling]
          /\ \A d \in Callers : Clear(call'[d], d, Linked!released) => Linked!released.lease = d
      BY <1>1, <1>2, <1>3, <1>5, SavedIs
    <3> QED BY <1>2, <3>1, ChainAssumption
  <2>9. LinkTypeOK'
    BY <1>1, <1>2, <2>5, <2>6, <2>8 DEF LinkTypeOK
  <2>10. None(intents)
    BY <1>1, <1>5 DEF LinkInv, Exclusive, Clear, Linked!holdsLease, Leased
  <2>11. \A i \in DOMAIN intents : ~Waits(intents'[i])
    BY <2>1, <2>5, <2>10 DEF None, Waits
  <2>12. Exclusive(intents', Linked!released, call')
    BY <2>7, <2>8, <2>11 DEF Exclusive, Single
  <2>13. Agreeing'
    <3>1. ASSUME NEW i \in DOMAIN intents PROVE Agrees(intents'[i], cluster'[i])
      BY <2>1, <2>5, <2>6 DEF LinkInv, Agreeing, Agrees
    <3> QED BY <2>4, <2>5, <2>6, <2>7, <3>1 DEF Agreeing
  <2>14. Follows(sync', intents', cluster')
    BY <1>1, <2>1, <2>5, <2>6, <2>7 DEF LinkInv, Follows
  <2> QED BY <2>8, <2>9, <2>12, <2>13, <2>14 DEF LinkInv
<1> QED BY <1>4, <1>5 DEF Linked!Prepared

(* One intent takes another status, or is no longer valid.                 *)
LEMMA IntentIs ==
  ASSUME LinkTypeOK, NEW i \in DOMAIN intents, NEW x \in Intent, intents' = [intents EXCEPT ![i] = x]
  PROVE  /\ intents' \in Seq(Intent) /\ Len(intents') = Len(intents) /\ intents'[i] = x
         /\ \A j \in DOMAIN intents : j # i => intents'[j] = intents[j]
BY ExceptSeq DEF LinkTypeOK

LEMMA SettlesKeeps ==
  ASSUME LinkInv, NEW i \in DOMAIN intents, NEW status \in {"submitted"} \cup Linked!Settled,
         intents' = [intents EXCEPT ![i].status = status], NEW w \in [Callers -> Calling], Linked!Saved(binding, w),
         \A c \in Callers : w[c] = call[c] \/ w[c] = Linked!Idle,
         Waits([intents[i] EXCEPT !.status = status]) => Waits(intents[i]),
         Agrees([intents[i] EXCEPT !.status = status], cluster[i]),
         UNCHANGED <<program, room, cluster, sync, applying>>
  PROVE  LinkInv'
<1> DEFINE x == [intents[i] EXCEPT !.status = status]
<1>1. intents[i] \in Intent /\ LinkTypeOK
  BY DEF LinkInv, LinkTypeOK
<1>2. x \in Intent /\ x.status # "prepared"
  BY <1>1 DEF Intent, Linked!Settled
<1>3. intents' = [intents EXCEPT ![i] = x]
  OBVIOUS
<1> HIDE DEF x
<1>4. /\ intents' \in Seq(Intent) /\ Len(intents') = Len(intents) /\ intents'[i] = x
      /\ \A j \in DOMAIN intents : j # i => intents'[j] = intents[j]
  BY <1>1, <1>2, <1>3, IntentIs
<1>5. \A c \in Callers : w[c].at = "leased" /\ binding.lease = c => None(intents)
  BY DEF LinkInv, Exclusive, Clear, Linked!Idle
<1>6. binding \in Binding /\ binding.slot \in DOMAIN program /\ room' \in LinkedRoom
  BY <1>1 DEF LinkTypeOK
<1>7. Waits(x) => Waits(intents[i])
  BY DEF x
<1>8. Agrees(x, cluster[i])
  BY DEF x
<1>9. \A j \in DOMAIN intents : /\ Waits(intents'[j]) => Waits(intents[j])
                                /\ Agrees(intents'[j], cluster[j])
                                /\ intents'[j].status = "prepared" => intents[j].status = "prepared"
  BY <1>2, <1>4, <1>7, <1>8 DEF LinkInv, Agreeing
<1> QED BY <1>4, <1>5, <1>6, <1>9, SaveKeeps

LEMMA OutboxKeeps ==
  ASSUME LinkInv
  PROVE  /\ Linked!LeaseLapses => LinkInv'
         /\ \A i \in DOMAIN intents : Linked!Lapse(i) \/ Linked!Discard(i) => LinkInv'
         /\ \A c \in Callers, i \in DOMAIN intents : Linked!BeginSubmit(c, i) => LinkInv'
         /\ \A c \in Callers : Linked!Submit(c) => LinkInv'
<1>0. LinkTypeOK /\ room \in LinkedRoom /\ call \in [Callers -> Calling] /\ binding \in Binding /\ binding.slot \in DOMAIN program
  BY DEF LinkInv, LinkTypeOK
<1>1. CASE Linked!LeaseLapses
  <2>1. binding' = [binding EXCEPT !.leaseOver = TRUE] /\ UNCHANGED <<intents, cluster, room, sync, call, program, applying>>
    BY <1>1 DEF Linked!LeaseLapses, Linked!Chain
  <2>2. binding' \in Binding /\ binding'.slot = binding.slot /\ binding'.lease = binding.lease
    BY <1>0, <2>1 DEF Binding
  <2>3. Exclusive(intents, binding', call)
    BY <2>2 DEF LinkInv, Exclusive, Clear
  <2> QED BY <2>1, <2>2, <2>3 DEF LinkInv, LinkTypeOK, Agreeing
<1>2. ASSUME NEW i \in DOMAIN intents, Linked!Lapse(i) PROVE LinkInv'
  <2> DEFINE x == [intents[i] EXCEPT !.lapsed = TRUE]
  <2>1. intents[i] \in Intent /\ intents[i].status = "prepared"
    BY <1>0, <1>2 DEF LinkTypeOK, Linked!Lapse
  <2>2. x \in Intent /\ x.status = intents[i].status /\ x.lapsed
    BY <2>1 DEF Intent
  <2>3. intents' = [intents EXCEPT ![i] = x] /\ UNCHANGED <<binding, cluster, room, sync, call, program, applying>>
    BY <1>2 DEF Linked!Lapse, Linked!Chain
  <2> HIDE DEF x
  <2>4. /\ intents' \in Seq(Intent) /\ Len(intents') = Len(intents) /\ intents'[i] = x
        /\ \A j \in DOMAIN intents : j # i => intents'[j] = intents[j]
    BY <1>0, <2>2, <2>3, IntentIs
  <2>5. LinkTypeOK' /\ DOMAIN intents' = DOMAIN intents
    BY <1>0, <2>3, <2>4 DEF LinkTypeOK
  <2>6. Exclusive(intents', binding, call)
    BY <2>1, <2>2, <2>4, <2>5, Quieter DEF LinkInv, Waits
  <2>7. Agreeing' /\ Follows(sync', intents', cluster')
    BY <2>1, <2>2, <2>3, <2>4, <2>5 DEF LinkInv, Agreeing, Agrees, Follows
  <2> QED BY <2>3, <2>5, <2>6, <2>7 DEF LinkInv
<1>3. ASSUME NEW i \in DOMAIN intents, Linked!Discard(i) PROVE LinkInv'
  <2>1. /\ intents[i].status = "prepared" /\ intents' = [intents EXCEPT ![i].status = "expired"] /\ Linked!Saved(binding, call)
        /\ UNCHANGED <<cluster, room, sync, program, applying>> /\ intents[i] \in Intent /\ Agrees(intents[i], cluster[i])
    BY <1>0, <1>3 DEF Linked!Discard, Linked!Chain, LinkTypeOK, LinkInv, Agreeing
  <2>2. /\ ~Waits([intents[i] EXCEPT !.status = "expired"])
        /\ Agrees([intents[i] EXCEPT !.status = "expired"], cluster[i])
    BY <2>1 DEF Waits, Agrees, Intent
  <2> QED BY <1>0, <2>1, <2>2, SettlesKeeps DEF Linked!Settled
<1>4. ASSUME NEW c \in Callers, NEW i \in DOMAIN intents, Linked!BeginSubmit(c, i) PROVE LinkInv'
  <2> DEFINE w == [at |-> "signed", intent |-> i, stale |-> FALSE]
  <2>1. Linked!Calls(c, w) /\ UNCHANGED <<program, binding, intents, cluster, sync, applying, room>>
    BY <1>4 DEF Linked!BeginSubmit, Linked!Chain
  <2>2. i \in Nat
    BY <1>0 DEF LinkTypeOK
  <2>3. w \in Calling /\ ~Clear(w, c, binding)
    BY <2>2 DEF Calling, Signed, Clear
  <2> HIDE DEF w
  <2> QED BY <1>0, <2>1, <2>3, CallKeeps
<1>5. ASSUME NEW c \in Callers, Linked!Submit(c) PROVE LinkInv'
  <2> DEFINE i == call[c].intent
  <2>1. UNCHANGED <<program, cluster, room, sync, applying>>
    BY <1>5 DEF Linked!Submit, Linked!Chain
  <2>2. CASE Linked!Calls(c, Linked!Idle) /\ UNCHANGED <<binding, intents>>
    BY <1>0, <2>1, <2>2, CallKeeps, IdleIs
  <2>3. CASE /\ intents[i].status = "prepared" /\ ~intents[i].lapsed
             /\ intents' = [intents EXCEPT ![i].status = "submitted"] /\ Linked!Saved(binding, [call EXCEPT ![c] = Linked!Idle])
    <3>1. CASE i \in DOMAIN intents
      <4>1. intents[i] \in Intent /\ Agrees(intents[i], cluster[i])
        BY <1>0, <3>1 DEF LinkTypeOK, LinkInv, Agreeing
      <4>2. Waits(intents[i]) /\ Agrees([intents[i] EXCEPT !.status = "submitted"], cluster[i])
        BY <2>3, <4>1 DEF Waits, Agrees, Intent
      <4>3. [call EXCEPT ![c] = Linked!Idle] \in [Callers -> Calling]
        BY <1>0, IdleIs
      <4> HIDE DEF i
      <4> QED BY <1>0, <2>1, <2>3, <3>1, <4>2, <4>3, SettlesKeeps
    <3>2. CASE i \notin DOMAIN intents
      <4>1. intents' = intents
        BY <1>0, <2>3, <3>2 DEF LinkTypeOK
      <4>2. [call EXCEPT ![c] = Linked!Idle] \in [Callers -> Calling]
        BY <1>0, IdleIs
      <4>3. \A d \in Callers : [call EXCEPT ![c] = Linked!Idle][d].at = "leased" /\ binding.lease = d => None(intents)
        BY <1>0 DEF LinkInv, Exclusive, Clear, Linked!Idle
      <4> QED BY <1>0, <2>1, <2>3, <4>1, <4>2, <4>3, SaveKeeps DEF LinkInv, LinkTypeOK, Agreeing
    <3> QED BY <3>1, <3>2
  <2> QED BY <1>5, <2>2, <2>3 DEF Linked!Submit
<1> QED BY <1>1, <1>2, <1>3, <1>4, <1>5

-----------------------------------------------------------------------------
(* The reconciliation.                                                      *)
LEMMA GoesKeeps ==
  ASSUME LinkInv, sync' \in Syncing, Follows(sync', intents, cluster),
         UNCHANGED <<program, binding, intents, cluster, room, call, applying>>
  PROVE  LinkInv'
BY DEF LinkInv, LinkTypeOK, Agreeing

LEMMA OnIs ==
  ASSUME NEW i \in Nat, NEW known \in BOOLEAN
  PROVE  /\ {Linked!Idle, [at |-> "account"]} \subseteq Syncing \ Watching
         /\ {[at |-> "status", intent |-> i], [at |-> "receipt", intent |-> i], [at |-> "send", intent |-> i],
             [at |-> "height", intent |-> i, known |-> known]} \subseteq Syncing \cap Watching
         /\ [at |-> "applying", slot |-> i] \in Syncing \ Watching
BY DEF Linked!Idle, Syncing, Watching

LEMMA StartKeeps == ASSUME LinkInv, Linked!Start PROVE LinkInv'
<1> DEFINE is == Linked!Lapsed(intents)
<1>1. /\ LinkTypeOK /\ intents' = is /\ Linked!Saved(binding, call) /\ UNCHANGED <<program, room, cluster, applying>>
      /\ binding \in Binding /\ binding.slot \in DOMAIN program /\ call \in [Callers -> Calling] /\ room \in LinkedRoom
  BY DEF LinkInv, LinkTypeOK, Linked!Start, Linked!Reconciles
<1>2. /\ is \in Seq(Intent) /\ Len(is) = Len(intents) /\ DOMAIN is = DOMAIN intents
      /\ \A i \in DOMAIN intents : \/ is[i] = intents[i]
                                   \/ intents[i].status = "prepared" /\ is[i].status = "expired"
  BY <1>1, LapsedIs DEF LinkTypeOK
<1> HIDE DEF is
<1>3. \A c \in Callers : call[c].at = "leased" /\ binding.lease = c => None(intents)
  BY DEF LinkInv, Exclusive, Clear
<1>4. \A i \in DOMAIN intents : /\ Waits(is[i]) => Waits(intents[i])
                                /\ Agrees(is[i], cluster[i])
                                /\ is[i].status = "prepared" => intents[i].status = "prepared"
  BY <1>2 DEF Waits, LinkInv, Agreeing, Agrees
<1>5. /\ binding' = binding /\ call' \in [Callers -> Calling]
      /\ \A c \in Callers : Clear(call'[c], c, binding) => call[c].at = "leased" /\ binding.lease = c
  BY <1>1, SavedIs
<1>6. sync' \in Syncing /\ Follows(sync', is, cluster)
  <2>1. CASE \E i \in Linked!submitted(intents) : Linked!Goes([at |-> "status", intent |-> i])
    <3>1. PICK i \in DOMAIN intents : intents[i].status = "submitted" /\ sync' = [at |-> "status", intent |-> i]
      BY <2>1 DEF Linked!submitted, Linked!Goes
    <3>2. i \in Nat
      BY <1>1 DEF LinkTypeOK
    <3> QED BY <1>2, <3>1, <3>2, OnIs DEF Follows
  <2>2. CASE Linked!Goes([at |-> "account"])
    BY <2>2, OnIs DEF Follows, Linked!Goes
  <2> QED BY <2>1, <2>2 DEF Linked!Start
<1>7. LinkTypeOK'
  BY <1>1, <1>2, <1>5, <1>6 DEF LinkTypeOK
<1>8. Exclusive(intents', binding, call')
  BY <1>1, <1>2, <1>3, <1>4, <1>5, Quieter DEF LinkInv
<1>9. Agreeing'
  BY <1>1, <1>2, <1>4 DEF Agreeing
<1> QED BY <1>1, <1>5, <1>6, <1>7, <1>8, <1>9 DEF LinkInv

(* It ends the wait for a transaction with what it has learnt.             *)
LEMMA LearnsKeeps ==
  ASSUME LinkInv, NEW i \in DOMAIN intents, NEW status \in {"confirmed", "failed", "expired"}, Linked!Settles(i, status),
         intents[i].status = "submitted", Agrees([intents[i] EXCEPT !.status = status], cluster[i]),
         Linked!Goes([at |-> "account"]), UNCHANGED <<program, room, cluster, applying>>
  PROVE  LinkInv'
<1> DEFINE x == [intents[i] EXCEPT !.status = status]
<1>1. /\ LinkTypeOK /\ intents' = [intents EXCEPT ![i] = x] /\ Linked!Saved(binding, call)
      /\ binding \in Binding /\ binding.slot \in DOMAIN program /\ call \in [Callers -> Calling] /\ room \in LinkedRoom
  BY DEF LinkInv, LinkTypeOK, Linked!Settles
<1>2. x \in Intent /\ ~Waits(x) /\ x.status # "prepared" /\ Agrees(x, cluster[i])
  <2>1. intents[i] \in Intent
    BY <1>1 DEF LinkTypeOK
  <2> QED BY <2>1 DEF Intent, Linked!Settled, Waits
<1> HIDE DEF x
<1>3. /\ intents' \in Seq(Intent) /\ Len(intents') = Len(intents) /\ intents'[i] = x
      /\ \A j \in DOMAIN intents : j # i => intents'[j] = intents[j]
  BY <1>1, <1>2, IntentIs
<1>4. /\ binding' = binding /\ call' \in [Callers -> Calling]
      /\ \A c \in Callers : Clear(call'[c], c, binding) => call[c].at = "leased" /\ binding.lease = c
  BY <1>1, SavedIs
<1>5. sync' \in Syncing /\ sync' \notin Watching
  BY OnIs DEF Linked!Goes
<1>6. LinkTypeOK' /\ DOMAIN intents' = DOMAIN intents
  BY <1>1, <1>3, <1>4, <1>5 DEF LinkTypeOK
<1>7. \A c \in Callers : call[c].at = "leased" /\ binding.lease = c => None(intents)
  BY DEF LinkInv, Exclusive, Clear
<1>8. \A j \in DOMAIN intents : Waits(intents'[j]) => Waits(intents[j])
  BY <1>2, <1>3
<1>9. Exclusive(intents', binding, call')
  BY <1>4, <1>6, <1>7, <1>8, Quieter DEF LinkInv
<1>10. Agreeing'
  BY <1>2, <1>3, <1>6 DEF LinkInv, Agreeing
<1> QED BY <1>4, <1>5, <1>6, <1>9, <1>10 DEF LinkInv, Follows

LEMMA ReconcilingKeeps ==
  ASSUME LinkInv, NEW i \in DOMAIN intents, Linked!Status(i) \/ Linked!Height(i) \/ Linked!Receipt(i) \/ Linked!Send(i)
  PROVE  LinkInv'
<1>1. /\ LinkTypeOK /\ i \in Nat /\ intents[i] \in Intent /\ cluster[i] \in Fate /\ Agrees(intents[i], cluster[i])
      /\ sync \in Watching /\ sync.intent = i /\ UNCHANGED <<program, room, applying>>
      /\ (intents[i].status # "prepared") /\ (sync.at = "height" => sync.known \in BOOLEAN)
      /\ (sync.at = "receipt" => cluster[i].passed \/ Finished(cluster[i]))
  <2>1. LinkTypeOK /\ i \in Nat /\ intents[i] \in Intent /\ cluster[i] \in Fate /\ Agrees(intents[i], cluster[i]) /\ sync \in Syncing
    BY DEF LinkInv, LinkTypeOK, Agreeing
  <2>2. sync.at \in {"status", "height", "receipt", "send"} /\ sync.intent = i /\ UNCHANGED <<program, room, applying>>
    BY DEF Linked!Status, Linked!Height, Linked!Receipt, Linked!Send, Linked!Reconciles
  <2> QED BY <2>1, <2>2, SyncIs DEF LinkInv, Follows
<1>2. intents[i].status \notin Linked!Settled => intents[i].status = "submitted"
  BY <1>1 DEF Intent
<1>3. CASE Linked!Goes([at |-> "account"]) /\ UNCHANGED <<intents, cluster, binding, call>>
  BY <1>1, <1>3, OnIs, GoesKeeps DEF Linked!Goes, Follows
<1>4. CASE Linked!Status(i)
  <2>1. CASE Linked!final(i) /\ intents[i].status \notin Linked!Settled
    <3>1. Linked!Settles(i, Linked!verdict(cluster[i].tx)) /\ Linked!Goes([at |-> "account"]) /\ UNCHANGED cluster
      BY <1>4, <2>1 DEF Linked!Status
    <3>2. Linked!verdict(cluster[i].tx) \in {"confirmed", "failed", "expired"}
          /\ Agrees([intents[i] EXCEPT !.status = Linked!verdict(cluster[i].tx)], cluster[i])
      BY <1>1, <2>1 DEF Linked!verdict, Linked!final, Agrees, Intent
    <3> QED BY <1>1, <1>2, <2>1, <3>1, <3>2, LearnsKeeps
  <2>2. CASE ~Linked!final(i) /\ intents[i].status \notin Linked!Settled
    <3>1. sync' = [at |-> "height", intent |-> i, known |-> cluster[i].tx = "processed"] /\ UNCHANGED <<intents, cluster, binding, call>>
      BY <1>4, <2>2 DEF Linked!Status, Linked!Goes, Linked!Kept
    <3>2. (cluster[i].tx = "processed") \in BOOLEAN
      OBVIOUS
    <3>3. sync' \in Syncing /\ sync'.intent = i /\ sync'.at = "height"
      BY <1>1, <3>1, <3>2, OnIs
    <3> QED BY <1>1, <3>1, <3>3, GoesKeeps DEF Follows
  <2>3. CASE intents[i].status \in Linked!Settled
    BY <1>3, <1>4, <2>3 DEF Linked!Status, Linked!Kept
  <2> QED BY <2>1, <2>2, <2>3
<1>5. CASE Linked!Height(i)
  <2>1. UNCHANGED <<intents, cluster, binding, call>>
    BY <1>5 DEF Linked!Height, Linked!Kept
  <2>2. CASE cluster[i].passed \/ Linked!final(i)
    <3>1. sync' = [at |-> "receipt", intent |-> i]
      BY <1>5, <2>2 DEF Linked!Height, Linked!Goes
    <3> QED BY <1>1, <2>1, <2>2, <3>1, OnIs, GoesKeeps DEF Follows, Linked!final, Finished
  <2>3. CASE ~(cluster[i].passed \/ Linked!final(i)) /\ ~sync.known
    <3>1. sync' = [at |-> "send", intent |-> i]
      BY <1>5, <2>3 DEF Linked!Height, Linked!Goes
    <3> QED BY <1>1, <2>1, <3>1, OnIs, GoesKeeps DEF Follows
  <2>4. CASE ~(cluster[i].passed \/ Linked!final(i)) /\ sync.known
    BY <1>3, <1>5, <2>1, <2>4 DEF Linked!Height
  <2> QED BY <2>2, <2>3, <2>4
<1>6. CASE Linked!Receipt(i)
  <2>1. CASE intents[i].status \in Linked!Settled
    BY <1>3, <1>6, <2>1 DEF Linked!Receipt, Linked!Kept
  <2>2. CASE intents[i].status \notin Linked!Settled
    <3>1. Linked!Settles(i, Linked!receipt(i)) /\ Linked!Goes([at |-> "account"]) /\ UNCHANGED cluster /\ sync.at = "receipt"
      BY <1>6, <2>2 DEF Linked!Receipt
    <3>2. Linked!receipt(i) \in {"confirmed", "failed", "expired"} /\ Agrees([intents[i] EXCEPT !.status = Linked!receipt(i)], cluster[i])
      BY <1>1, <3>1 DEF Linked!receipt, Linked!verdict, Linked!final, Finished, Agrees, Intent
    <3> QED BY <1>1, <1>2, <2>2, <3>1, <3>2, LearnsKeeps
  <2> QED BY <2>1, <2>2
<1>7. CASE Linked!Send(i)
  <2>1. CASE UNCHANGED cluster
    BY <1>3, <1>7, <2>1 DEF Linked!Send, Linked!Kept
  <2>2. CASE Linked!Becomes(i, "sent") /\ intents[i].status \notin Linked!Settled /\ cluster[i].tx = "unsent"
    <3>1. sync' = [at |-> "account"] /\ UNCHANGED <<intents, binding, call>>
      BY <1>7 DEF Linked!Send, Linked!Goes, Linked!Kept
    <3>2. /\ cluster' \in Seq(Fate) /\ Len(cluster') = Len(intents) /\ cluster'[i].tx = "sent" /\ cluster'[i].passed = cluster[i].passed
          /\ \A j \in DOMAIN intents : j # i => cluster'[j] = cluster[j]
      BY <1>1, <2>2, BecomesIs
    <3>3. LinkTypeOK' /\ sync' \notin Watching
      BY <1>1, <3>1, <3>2, OnIs DEF LinkTypeOK
    <3>4. Agreeing'
      BY <1>2, <2>2, <3>1, <3>2 DEF LinkInv, Agreeing, Agrees
    <3> QED BY <3>1, <3>3, <3>4 DEF LinkInv, Follows
  <2> QED BY <1>7, <2>1, <2>2 DEF Linked!Send
<1> QED BY <1>4, <1>5, <1>6, <1>7

LEMMA AccountKeeps ==
  ASSUME LinkInv, NEW slot \in binding.slot..Len(program), Linked!Account(slot)
  PROVE  LinkInv'
<1> DEFINE b == [binding EXCEPT !.slot = slot]
           d == [at |-> "sent", slot |-> slot, app |-> binding.proposal, members |-> binding.members]
<1>1. /\ LinkTypeOK /\ UNCHANGED <<program, room, cluster, intents>> /\ binding \in Binding /\ binding.slot \in DOMAIN program
      /\ DOMAIN program = 1..Len(program) /\ Len(program) \in Nat /\ call \in [Callers -> Calling] /\ room \in LinkedRoom
  BY DEF LinkInv, LinkTypeOK, Linked!Account, Linked!Reconciles
<1>2. slot \in DOMAIN program /\ slot \in Nat
  BY <1>1
<1>3. CASE UNCHANGED <<binding, call, applying>> /\ Linked!Goes(Linked!Idle)
  BY <1>1, <1>3, OnIs, GoesKeeps DEF Linked!Goes, Follows
<1>4. CASE Linked!Saved(b, call) /\ Linked!Goes([at |-> "applying", slot |-> slot]) /\ applying' = applying \cup {d}
  <2>1. b \in Binding /\ b.slot = slot /\ b.lease = binding.lease
    BY <1>1, <1>2 DEF Binding
  <2>2. d \in Delivery /\ d.slot = slot
    BY <1>1, <1>2 DEF Delivery, Binding
  <2> HIDE DEF b, d
  <2>3. /\ binding' = b /\ call' \in [Callers -> Calling]
        /\ \A c \in Callers : Clear(call'[c], c, b) => call[c].at = "leased" /\ b.lease = c
    BY <1>1, <1>4, <2>1, SavedIs
  <2>4. sync' \in Syncing /\ sync' \notin Watching
    BY <1>2, <1>4, OnIs DEF Linked!Goes
  <2>5. LinkTypeOK'
    BY <1>1, <1>2, <1>4, <2>1, <2>2, <2>3, <2>4 DEF LinkTypeOK
  <2>6. Exclusive(intents, b, call')
    BY <2>1, <2>3, Quieter DEF LinkInv, Clear
  <2> QED BY <1>1, <2>3, <2>4, <2>5, <2>6 DEF LinkInv, Agreeing, Follows
<1> QED BY <1>3, <1>4 DEF Linked!Account, Linked!Kept

LEMMA EndsKeeps ==
  ASSUME LinkInv, Linked!Applied \/ Linked!Fails
  PROVE  LinkInv'
<1>1. sync' = Linked!Idle /\ UNCHANGED <<program, binding, intents, cluster, room, call, applying>>
  BY DEF Linked!Applied, Linked!Fails, Linked!Goes, Linked!Kept, Linked!Reconciles
<1> QED BY <1>1, OnIs, GoesKeeps DEF Follows

-----------------------------------------------------------------------------
(* A snapshot in the room.                                                  *)
LEMMA RecordedIs ==
  ASSUME NEW r \in LinkedRoom, NEW a \in Delivery, program[a.slot] \in Version
  PROVE  /\ Linked!recorded(r, a) \in LinkedRoom /\ Linked!recorded(r, a).guardian = r.guardian
         /\ Linked!recorded(r, a).slot = a.slot /\ Linked!recorded(r, a).sequence = program[a.slot].sequence
<1> DEFINE s == program[a.slot]
           ends == CASE s.state = "completed" -> "arrived" [] s.state = "cancelled" -> "cancelled" [] OTHER -> r.status
           marked == [r EXCEPT !.slot = a.slot, !.sequence = s.sequence]
           as == Linked!nonePending(marked.applications)
<1>1. marked \in LinkedRoom /\ marked.guardian = r.guardian /\ marked.slot = a.slot /\ marked.sequence = s.sequence
  BY DEF LinkedRoom, Delivery, Version
<1>2. ends \in {"going", "arrived", "cancelled"}
  BY DEF LinkedRoom
<1>3. Linked!recorded(r, a) = marked \/ Linked!recorded(r, a) = [marked EXCEPT !.status = ends, !.applications = as]
  BY DEF Linked!recorded
<1> HIDE DEF marked, ends
<1>4. as \in Seq(Application)
  BY <1>1, NonePendingIs DEF LinkedRoom
<1> HIDE DEF as
<1>5. [marked EXCEPT !.status = ends, !.applications = as] \in LinkedRoom
  BY <1>1, <1>2, <1>4 DEF LinkedRoom
<1> QED BY <1>1, <1>3, <1>5 DEF LinkedRoom

LEMMA InsideKeeps ==
  ASSUME LinkInv, NEW a \in applying, Linked!Arrives(a) \/ Linked!HandsOver(a)
  PROVE  LinkInv'
<1>1. /\ LinkTypeOK /\ UNCHANGED <<program, binding, intents, cluster, call, sync>> /\ a \in Delivery /\ a.slot \in DOMAIN program
      /\ program[a.slot] \in Version /\ room \in LinkedRoom
  BY DEF LinkInv, LinkTypeOK, Linked!Arrives, Linked!HandsOver, Linked!InRoom
<1>2. room' \in LinkedRoom
  <2> DEFINE as == Linked!nonePending(room.applications)
             r == [room EXCEPT !.guardian = program[a.slot].guardian, !.applications = as]
  <2>1. as \in Seq(Application)
    BY <1>1, NonePendingIs DEF LinkedRoom
  <2>2. room' \in {room, Linked!recorded(room, a), Linked!recorded(r, a)}
    BY DEF Linked!Arrives, Linked!HandsOver
  <2> HIDE DEF as
  <2>3. r \in LinkedRoom
    BY <1>1, <2>1 DEF LinkedRoom, Version
  <2> HIDE DEF r
  <2> QED BY <1>1, <2>2, <2>3, RecordedIs
<1>3. \A d \in applying' : d \in Delivery /\ d.slot \in DOMAIN program
  <2>1. [a EXCEPT !.at = "asking"] \in Delivery /\ [a EXCEPT !.at = "asking"].slot = a.slot
    BY <1>1 DEF Delivery
  <2> QED BY <1>1, <2>1 DEF Linked!Arrives, Linked!HandsOver, Linked!Gone, LinkTypeOK
<1> QED BY <1>1, <1>2, <1>3 DEF LinkInv, LinkTypeOK, Agreeing

-----------------------------------------------------------------------------
LEMMA LinkStarts == Linked!Init => LinkInv
<1> SUFFICES ASSUME Linked!Init PROVE LinkInv
  OBVIOUS
<1>1. intents = <<>> /\ cluster = <<>> /\ call = [c \in Callers |-> Linked!Idle]
  BY DEF Linked!Init
<1>2. Linked!unmade \in Version
  BY DEF Linked!unmade, Version, Who
<1>3. /\ program \in Seq(Version) /\ program # <<>> /\ binding \in Binding /\ binding.slot \in DOMAIN program
      /\ room \in LinkedRoom /\ sync \in Syncing /\ sync \notin Watching
      /\ applying \subseteq Delivery /\ \A a \in applying : a.slot \in DOMAIN program
  <2>1. CASE /\ program = <<Linked!unmade>>
             /\ binding = [slot |-> 1, proposal |-> 0, members |-> {}, lease |-> NoOne, leaseOver |-> FALSE]
             /\ room = [status |-> "going", guardian |-> NoOne, applications |-> <<>>, slot |-> 0, sequence |-> 0]
             /\ sync = Linked!Idle /\ applying = {}
    <3>1. sync \in Syncing /\ sync \notin Watching
      BY <2>1 DEF Linked!Idle, Syncing, Watching
    <3>2. <<Linked!unmade>> \in Seq(Version) /\ DOMAIN <<Linked!unmade>> = {1} /\ <<Linked!unmade>> # <<>>
      BY <1>2
    <3>3. room \in LinkedRoom
      BY <2>1 DEF LinkedRoom, Who
    <3>4. binding \in Binding /\ binding.slot = 1
      BY <2>1 DEF Binding, Who
    <3> QED BY <2>1, <3>1, <3>2, <3>3, <3>4
  <2>2. ASSUME NEW g \in Members,
               program = << [Linked!unmade EXCEPT !.state = "active", !.guardian = g, !.revision = 2, !.sequence = 1] >>,
               binding = [slot |-> 1, proposal |-> 1, members |-> {g}, lease |-> NoOne, leaseOver |-> FALSE],
               room = [status |-> "going", guardian |-> NoOne, slot |-> 0, sequence |-> 0,
                       applications |-> << [who |-> g, pending |-> TRUE, consent |-> "kept"] >>],
               sync = [at |-> "applying", slot |-> 1],
               applying = {[at |-> "sent", slot |-> 1, app |-> 1, members |-> {g}]}
        PROVE  /\ program \in Seq(Version) /\ program # <<>> /\ binding \in Binding /\ binding.slot \in DOMAIN program
               /\ room \in LinkedRoom /\ sync \in Syncing /\ sync \notin Watching
               /\ applying \subseteq Delivery /\ \A a \in applying : a.slot \in DOMAIN program
    <3> DEFINE v == [Linked!unmade EXCEPT !.state = "active", !.guardian = g, !.revision = 2, !.sequence = 1]
               p == [who |-> g, pending |-> TRUE, consent |-> "kept"]
    <3>1. v \in Version /\ p \in Application
      BY DEF Linked!unmade, Version, Who, Application
    <3>2. program = <<v>> /\ room = [status |-> "going", guardian |-> NoOne, slot |-> 0, sequence |-> 0, applications |-> <<p>>]
      BY <2>2
    <3> HIDE DEF v, p
    <3>3. <<v>> \in Seq(Version) /\ <<p>> \in Seq(Application) /\ DOMAIN <<v>> = {1} /\ <<v>> # <<>>
      BY <3>1
    <3>4. room \in LinkedRoom
      BY <3>2, <3>3 DEF LinkedRoom, Who
    <3>5. binding \in Binding /\ binding.slot = 1
      BY <2>2 DEF Binding, Who
    <3>6. sync \in Syncing /\ sync \notin Watching
      BY <2>2, OnIs
    <3>7. applying \subseteq Delivery /\ \A a \in applying : a.slot = 1
      BY <2>2 DEF Delivery, Who
    <3> QED BY <3>2, <3>3, <3>4, <3>5, <3>6, <3>7
  <2> QED BY <2>1, <2>2 DEF Linked!Init
<1>4. call \in [Callers -> Calling] /\ \A c \in Callers : ~Clear(call[c], c, binding)
  BY <1>1, IdleIs
<1>5. LinkTypeOK
  BY <1>1, <1>3, <1>4 DEF LinkTypeOK
<1> QED BY <1>1, <1>3, <1>4, <1>5 DEF LinkInv, Exclusive, Single, Agreeing, Follows

LEMMA LinkStep == LinkInv /\ [Linked!Next]_Linked!vars => LinkInv'
<1> SUFFICES ASSUME LinkInv, [Linked!Next]_Linked!vars PROVE LinkInv'
  OBVIOUS
<1>1. CASE UNCHANGED Linked!vars
  BY <1>1 DEF Linked!vars, LinkInv, LinkTypeOK, Agreeing
<1>2. ASSUME NEW c \in Callers,
             \/ \E op \in {"create", "cancel-proposal", "complete", "cancel"} : Linked!BeginPrepare(c, op, NoOne, 0)
             \/ \E n \in DOMAIN room.applications : Linked!BeginPrepare(c, "propose", room.applications[n].who, n)
             \/ \E g \in Members : Linked!BeginPrepare(c, "accept", g, 0)
      PROVE  LinkInv'
  <2>1. \A n \in DOMAIN room.applications : room.applications[n].who \in Who /\ n \in Nat
    <3>1. room.applications \in Seq(Application)
      BY DEF LinkInv, LinkTypeOK, LinkedRoom
    <3>2. ASSUME NEW n \in DOMAIN room.applications PROVE room.applications[n] \in Application /\ n \in Nat
      BY <3>1
    <3> QED BY <3>2 DEF Application
  <2> QED BY <1>2, <2>1, BeginPrepareKeeps DEF Linked!Operations, Who
<1>3. CASE Linked!Runs
  BY <1>3, ReconcilingKeeps, EndsKeeps, AccountKeeps DEF Linked!Runs, Linked!Reconciling
<1>4. CASE Linked!InsideRoom
  BY <1>4, InsideKeeps DEF Linked!InsideRoom
<1> QED BY <1>1, <1>2, <1>3, <1>4, ClusterKeeps, DirectKeeps, RoomsKeep, LeaseKeeps, PreparedKeeps, OutboxKeeps, StartKeeps, EndsKeeps DEF Linked!Next

LEMMA OneFollows == LinkInv => Linked!OneTransaction
<1> SUFFICES ASSUME LinkInv PROVE Linked!OneTransaction
  OBVIOUS
<1> DEFINE W == {i \in DOMAIN intents : Linked!waiting(i)}
<1>1. \A i, j \in W : i = j
  BY DEF LinkInv, Exclusive, Single, Waits, Linked!waiting
<1>2. W = {} \/ \E i \in W : W = {i}
  BY <1>1
<1> HIDE DEF W
<1>3. Cardinality(W) \in {0, 1}
  BY <1>2, FS_EmptySet, FS_Singleton
<1>4. Linked!Cardinality(W) = Cardinality(W)
  BY DEF Linked!Cardinality, Cardinality
<1> QED BY <1>3, <1>4 DEF Linked!OneTransaction, W

LEMMA SettledFollows == LinkInv => Linked!SettledAsOnChain
  BY DEF LinkInv, Agreeing, Agrees, Linked!SettledAsOnChain

LEMMA HandoverFollows ==
  ASSUME LinkInv, [Linked!Next]_Linked!vars, room'.guardian # room.guardian
  PROVE  /\ room'.sequence > room.sequence /\ room'.slot >= room.slot
         /\ program[room'.slot].guardian = room'.guardian
         /\ \E n \in DOMAIN room.applications :
              room.applications[n].who = room'.guardian /\ room.applications[n].consent = "kept"
<1>0. room \in LinkedRoom /\ LinkTypeOK
  BY DEF LinkInv, LinkTypeOK
<1>1. \A a \in applying : Linked!Arrives(a) => room'.guardian = room.guardian
  <2> SUFFICES ASSUME NEW a \in applying, Linked!Arrives(a) PROVE room'.guardian = room.guardian
    OBVIOUS
  <2>1. a \in Delivery /\ program[a.slot] \in Version
    BY <1>0 DEF LinkTypeOK
  <2> QED BY <1>0, <2>1, RecordedIs DEF Linked!Arrives
<1>2. PICK a \in applying : Linked!HandsOver(a)
  <2>1. UNCHANGED room => FALSE
    OBVIOUS
  <2>2. \A as : [room EXCEPT !.applications = as].guardian = room.guardian
    BY <1>0 DEF LinkedRoom
  <2>3. \A as, how : [room EXCEPT !.status = how, !.applications = as].guardian = room.guardian
    BY <1>0 DEF LinkedRoom
  <2>4. ASSUME NEW g \in Members, Linked!Apply(g) \/ Linked!Bar(g) PROVE FALSE
    BY <2>1, <2>2, <2>4 DEF Linked!Apply, Linked!Bar
  <2>5. ASSUME NEW n \in DOMAIN room.applications, Linked!Withdraw(n) \/ Linked!Expire(n) PROVE FALSE
    <3>1. \E as : room' = [room EXCEPT !.applications = as]
      BY <2>5 DEF Linked!Withdraw, Linked!Expire
    <3> QED BY <2>2, <3>1
  <2>6. ~Linked!CancelRelay
    BY <2>2 DEF Linked!CancelRelay
  <2>7. ~Linked!Close("arrived") /\ ~Linked!Close("cancelled")
    BY <2>3 DEF Linked!Close
  <2>8. ASSUME NEW c \in Callers, Linked!Lease(c) PROVE FALSE
    <3>1. room' = room \/ \E as : room' = [room EXCEPT !.applications = as]
      BY <2>8 DEF Linked!Lease
    <3> QED BY <2>1, <2>2, <3>1
  <2>9. ASSUME NEW c \in Callers, NEW ok \in BOOLEAN, Linked!Submit(c) \/ Linked!Prepared(c, ok) PROVE FALSE
    BY <2>1, <2>9 DEF Linked!Submit, Linked!Prepared
  <2>10. ASSUME NEW i \in DOMAIN intents, Linked!Cluster(i) \/ Linked!Lapse(i) \/ Linked!Discard(i) \/ (\E c \in Callers : Linked!BeginSubmit(c, i)) PROVE FALSE
    BY <2>1, <2>10 DEF Linked!Cluster, Linked!Include, Linked!Fork, Linked!Pass, Linked!Finalize, Linked!Offchain, Linked!Lapse, Linked!Discard, Linked!BeginSubmit
  <2>11. ASSUME NEW op, NEW g, Linked!Direct(op, g) PROVE FALSE
    BY <2>1, <2>11 DEF Linked!Direct, Linked!Offchain
  <2>12. ASSUME NEW c, NEW op, NEW who, NEW app, Linked!BeginPrepare(c, op, who, app) PROVE FALSE
    BY <2>1, <2>12 DEF Linked!BeginPrepare
  <2>13. ~Linked!LeaseLapses /\ ~Linked!Start /\ ~Linked!Runs /\ ~Linked!Fails
    BY <2>1 DEF Linked!LeaseLapses, Linked!Start, Linked!Runs, Linked!Reconciling, Linked!Status, Linked!Height, Linked!Receipt, Linked!Send, Linked!Applied, Linked!Account, Linked!Fails, Linked!Reconciles
  <2>14. ~UNCHANGED Linked!vars
    BY <2>1 DEF Linked!vars
  <2> QED BY <1>1, <2>4, <2>5, <2>6, <2>7, <2>8, <2>9, <2>10, <2>11, <2>12, <2>13, <2>14 DEF Linked!Next, Linked!InsideRoom
<1> DEFINE r == [room EXCEPT !.guardian = program[a.slot].guardian, !.applications = Linked!nonePending(@)]
<1>3. room' = Linked!recorded(r, a) /\ Linked!current(a) /\ Linked!stillApproved(a)
  BY <1>2 DEF Linked!HandsOver
<1>4. a \in Delivery /\ program[a.slot] \in Version
  BY <1>0 DEF LinkTypeOK
<1>5. r \in LinkedRoom /\ r.guardian = program[a.slot].guardian
  <2>1. Linked!nonePending(room.applications) \in Seq(Application)
    BY <1>0, NonePendingIs DEF LinkedRoom
  <2> QED BY <1>0, <1>4, <2>1 DEF LinkedRoom, Version
<1> HIDE DEF r
<1>6. room'.guardian = program[a.slot].guardian /\ room'.slot = a.slot /\ room'.sequence = program[a.slot].sequence
  BY <1>3, <1>4, <1>5, RecordedIs
<1> QED BY <1>3, <1>6 DEF Linked!current, Linked!stillApproved, Linked!approved

-----------------------------------------------------------------------------
(* What MCChain runs is a behaviour of ChainSync beside the program's.      *)
LEMMA LinkInvariance == Chain => []LinkInv
<1>1. Chain => Linked!Init /\ [][Linked!Next]_linkedVars
  <2>1. [/\ UNCHANGED linked
         /\ \/ linked /\ Linked!Next /\ UNCHANGED vars
            \/ ~linked /\ Next /\ UNCHANGED linkedVars]_<<vars, linked, linkedVars>>
        => [Linked!Next]_linkedVars
    BY DEF linkedVars
  <2> QED BY <2>1, PTL DEF Chain
<1>2. LinkInv /\ [Linked!Next]_linkedVars => LinkInv'
  BY LinkStep DEF linkedVars, Linked!vars
<1> QED BY <1>1, <1>2, LinkStarts, PTL

(* One transaction of a journey at a time is in somebody's hands, however  *)
(* calls, lapsed leases, overlapping saves and the reconciliation meet.    *)
THEOREM OneTransactionHolds == Chain => []OneTransaction
<1>1. LinkInv => OneTransaction
  BY OneFollows DEF OneTransaction
<1> QED BY <1>1, LinkInvariance, PTL

(* The outbox never settles a transaction other than as the chain does:    *)
(* what it takes to have expired is not on chain and never will be.        *)
THEOREM SettledAsOnChainHolds == Chain => []SettledAsOnChain
<1>1. LinkInv => SettledAsOnChain
  BY SettledFollows DEF SettledAsOnChain
<1> QED BY <1>1, LinkInvariance, PTL

(* A snapshot on its way, however old, never takes access back from the    *)
(* guardian of a later assignment, nor gives it without the rider's        *)
(* approval.                                                               *)
THEOREM HandoverMovesForwardHolds == Chain => HandoverMovesForward
<1> DEFINE Forward ==
       room'.guardian # room.guardian =>
         /\ room'.sequence > room.sequence /\ room'.slot >= room.slot
         /\ program[room'.slot].guardian = room'.guardian
         /\ \E n \in DOMAIN room.applications :
              room.applications[n].who = room'.guardian /\ room.applications[n].consent = "kept"
<1>1. LinkInv /\ [/\ UNCHANGED linked
         /\ \/ linked /\ Linked!Next /\ UNCHANGED vars
            \/ ~linked /\ Next /\ UNCHANGED linkedVars]_<<vars, linked, linkedVars>>
      => [Forward]_Linked!vars
  BY HandoverFollows DEF linkedVars, Linked!vars
<1> QED BY <1>1, LinkInvariance, PTL DEF Chain, HandoverMovesForward, Linked!HandoverMovesForward

-----------------------------------------------------------------------------
(***************************************************************************)
(* The first version of the program, for any keys, trips and widths.       *)
(***************************************************************************)
CONSTANTS AnyKeys, TripIds, RewardPoints, LongestTask, Pause, Narrow, Wide
VARIABLES tasks, rewards, clock

First == INSTANCE SafetyGuard WITH Keys <- AnyKeys, MaxDuration <- LongestTask,
  Cooldown <- Pause, MaxU32 <- Narrow, MaxU64 <- Wide, now <- clock, reputation <- rewards

Parameters == /\ {RewardPoints, LongestTask, Pause, Narrow, Wide} \subseteq Nat

LEMMA TypeStep ==
  ASSUME Parameters, First!TypeOK, [First!Next]_First!vars
  PROVE  First!TypeOK'
<1> USE DEF First!TypeOK, Parameters
<1> CASE UNCHANGED First!vars
  BY DEF First!vars
<1> CASE First!Tick
  BY DEF First!Tick
<1> ASSUME NEW id \in First!TaskIds, NEW g \in AnyKeys, NEW d \in Nat, First!create_task(id, g, d)
    PROVE  First!TypeOK'
  <2>1. [guardian |-> g, createdAt |-> clock, deadline |-> d, acceptedAt |-> 0, lastCheckInAt |-> 0,
         checkInCount |-> 0, state |-> "pending"] \in First!Task
    BY DEF First!Task
  <2> QED BY <2>1 DEF First!create_task
<1> ASSUME NEW id \in First!TaskIds,
           First!accept_task(id) \/ First!check_in(id) \/ First!complete_task(id) \/ First!cancel_task(id)
    PROVE  First!TypeOK'
  <2>1. tasks[id] \in First!Task
    BY DEF First!accept_task, First!check_in, First!complete_task, First!cancel_task, First!Absent
  <2>2. CASE First!accept_task(id)
    BY <2>1, <2>2 DEF First!accept_task, First!Task
  <2>3. CASE First!check_in(id)
    <3>1. tasks[id].checkInCount + 1 \in 0..Narrow
      BY <2>1, <2>3 DEF First!check_in, First!Task
    <3>2. [tasks[id] EXCEPT !.checkInCount = tasks[id].checkInCount + 1, !.lastCheckInAt = clock] \in First!Task
      BY <2>1, <3>1 DEF First!Task
    <3> QED BY <2>3, <3>2 DEF First!check_in
  <2>4. CASE First!complete_task(id)
    BY <2>1, <2>4 DEF First!complete_task, First!Task, First!Reputation
  <2>5. CASE First!cancel_task(id)
    BY <2>1, <2>5 DEF First!cancel_task, First!Task
  <2> QED BY <2>2, <2>3, <2>4, <2>5
<1> QED BY DEF First!Next

(* The accounts of the program keep their types, whatever is signed when.  *)
THEOREM TaskTypeCorrect ==
  ASSUME Parameters
  PROVE  First!Spec => []First!TypeOK
<1>1. First!Init => First!TypeOK
  BY DEF First!Init, First!TypeOK, First!Reputation, Parameters
<1>2. First!TypeOK /\ [First!Next]_First!vars => First!TypeOK'
  BY TypeStep
<1> QED BY <1>1, <1>2, PTL DEF First!Spec

Finite == \A g \in AnyKeys : IsFiniteSet(First!completedBy(tasks, g))
Paid == Finite /\ First!PaidPerTask

(* A completion adds one task and one reward, for one guardian.            *)
LEMMA PaymentStep ==
  ASSUME Parameters, First!TypeOK, Paid, NEW id \in First!TaskIds, First!complete_task(id)
  PROVE  Paid'
<1>1. tasks[id] \in First!Task /\ tasks[id].guardian \in AnyKeys /\ tasks[id].state = "active"
  BY DEF First!complete_task, First!TypeOK, First!Absent, First!Task
<1>2. \A j \in First!TaskIds : j # id => tasks'[j] = tasks[j]
  BY DEF First!complete_task, First!TypeOK
<1>3. tasks'[id].state = "completed" /\ tasks'[id].guardian = tasks[id].guardian
  BY <1>1 DEF First!complete_task, First!TypeOK, First!Task
<1>4. SUFFICES ASSUME NEW h \in AnyKeys
               PROVE  /\ IsFiniteSet(First!completedBy(tasks', h))
                      /\ rewards'[h].completedTasks = Cardinality(First!completedBy(tasks', h))
                      /\ rewards'[h].points = RewardPoints * rewards'[h].completedTasks
  BY DEF Paid, Finite, First!PaidPerTask, First!Cardinality, Cardinality
<1>5. /\ IsFiniteSet(First!completedBy(tasks, h)) /\ rewards[h] \in First!Reputation
      /\ rewards[h].completedTasks = Cardinality(First!completedBy(tasks, h))
      /\ rewards[h].points = RewardPoints * rewards[h].completedTasks
  BY DEF Paid, Finite, First!PaidPerTask, First!TypeOK, First!Cardinality, Cardinality
<1>6. CASE h = tasks[id].guardian
  <2>1. First!completedBy(tasks', h) = First!completedBy(tasks, h) \cup {id} /\ id \notin First!completedBy(tasks, h)
    BY <1>1, <1>2, <1>3, <1>6 DEF First!completedBy
  <2>2. /\ IsFiniteSet(First!completedBy(tasks', h))
        /\ Cardinality(First!completedBy(tasks', h)) = Cardinality(First!completedBy(tasks, h)) + 1
    BY <1>5, <2>1, FS_AddElement
  <2>3. /\ rewards'[h].points = rewards[h].points + RewardPoints
        /\ rewards'[h].completedTasks = rewards[h].completedTasks + 1
    BY <1>1, <1>6 DEF First!complete_task, First!TypeOK
  <2>4. RewardPoints * rewards[h].completedTasks + RewardPoints
          = RewardPoints * (rewards[h].completedTasks + 1)
    BY <1>5 DEF First!Reputation, Parameters
  <2> QED BY <1>5, <2>2, <2>3, <2>4
<1>7. CASE h # tasks[id].guardian
  <2>1. First!completedBy(tasks', h) = First!completedBy(tasks, h)
    BY <1>1, <1>2, <1>3, <1>7 DEF First!completedBy
  <2>2. rewards'[h] = rewards[h]
    BY <1>1, <1>7 DEF First!complete_task, First!TypeOK
  <2> QED BY <1>5, <2>1, <2>2
<1> QED BY <1>6, <1>7

LEMMA PaidStep ==
  ASSUME Parameters, First!TypeOK, Paid, [First!Next]_First!vars
  PROVE  Paid'
<1> USE DEF Paid, Finite, First!PaidPerTask
<1>1. ASSUME rewards' = rewards,
             \A g \in AnyKeys : First!completedBy(tasks', g) = First!completedBy(tasks, g)
      PROVE  Paid'
  BY <1>1
<1>2. CASE UNCHANGED First!vars
  BY <1>1, <1>2 DEF First!vars, First!completedBy
<1>3. CASE First!Tick
  BY <1>1, <1>3 DEF First!Tick, First!completedBy
<1>4. ASSUME NEW id \in First!TaskIds, NEW g \in AnyKeys, NEW d \in Nat, First!create_task(id, g, d)
      PROVE  Paid'
  <2>1. tasks'[id].state = "pending" /\ tasks[id].state = "absent"
    BY <1>4 DEF First!create_task, First!TypeOK, First!Absent
  <2>2. \A j \in First!TaskIds : j # id => tasks'[j] = tasks[j]
    BY <1>4 DEF First!create_task, First!TypeOK
  <2> QED BY <1>1, <1>4, <2>1, <2>2 DEF First!create_task, First!completedBy
<1>5. ASSUME NEW id \in First!TaskIds, First!accept_task(id) \/ First!check_in(id) \/ First!cancel_task(id)
      PROVE  Paid'
  <2>1. tasks'[id].state # "completed" /\ tasks[id].state # "completed"
    <3>1. tasks[id] \in First!Task
      BY <1>5 DEF First!accept_task, First!check_in, First!cancel_task, First!TypeOK, First!Absent
    <3> QED BY <1>5, <3>1 DEF First!accept_task, First!check_in, First!cancel_task, First!TypeOK, First!Task
  <2>2. \A j \in First!TaskIds : j # id => tasks'[j] = tasks[j]
    BY <1>5 DEF First!accept_task, First!check_in, First!cancel_task, First!TypeOK
  <2>3. rewards' = rewards
    BY <1>5 DEF First!accept_task, First!check_in, First!cancel_task
  <2> QED BY <1>1, <2>1, <2>2, <2>3 DEF First!completedBy
<1>6. ASSUME NEW id \in First!TaskIds, First!complete_task(id)
      PROVE  Paid'
  BY <1>6, PaymentStep
<1> QED BY <1>2, <1>3, <1>4, <1>5, <1>6 DEF First!Next

(* Completed tasks and only they are paid, each once.                      *)
THEOREM PaymentsAreEarned ==
  ASSUME Parameters
  PROVE  First!Spec => []First!PaidPerTask
<1>1. First!Init => Paid
  <2> SUFFICES ASSUME First!Init PROVE Paid
    OBVIOUS
  <2>1. \A g \in AnyKeys : First!completedBy(tasks, g) = {}
    BY DEF First!Init, First!completedBy, First!Absent
  <2>2. IsFiniteSet({}) /\ Cardinality({}) = 0
    BY FS_EmptySet
  <2>3. \A g \in AnyKeys : rewards[g].completedTasks = 0 /\ rewards[g].points = 0
    BY DEF First!Init
  <2>4. RewardPoints * 0 = 0
    BY DEF Parameters
  <2>5. Finite
    BY <2>1, <2>2 DEF Finite
  <2> QED BY <2>1, <2>2, <2>3, <2>4, <2>5 DEF Paid, First!PaidPerTask, First!Cardinality, Cardinality
<1>2. First!TypeOK /\ Paid /\ [First!Next]_First!vars => Paid'
  BY PaidStep
<1>3. Paid => First!PaidPerTask
  BY DEF Paid
<1> QED BY TaskTypeCorrect, <1>1, <1>2, <1>3, PTL DEF First!Spec

(* A task is accepted in the past, and not checked in before that.         *)
presence(t, time) ==
  t.state # "absent" =>
    /\ t.acceptedAt <= time
    /\ t.state = "pending" => t.checkInCount = 0
    /\ t.state = "completed" => t.checkInCount > 0
    /\ t.checkInCount > 0 => First!witnessed(t)
Presence == \A id \in First!TaskIds : presence(tasks[id], clock)

LEMMA TaskCheckInStep ==
  ASSUME Parameters, First!TypeOK, NEW id \in First!TaskIds, presence(tasks[id], clock), First!check_in(id)
  PROVE  presence(tasks'[id], clock)
<1>1. tasks[id] \in First!Task /\ tasks[id].state = "active"
  BY DEF First!check_in, First!TypeOK, First!Absent
<1>2. /\ tasks'[id].state = "active" /\ tasks'[id].acceptedAt = tasks[id].acceptedAt
      /\ tasks'[id].deadline = tasks[id].deadline /\ tasks'[id].lastCheckInAt = clock
      /\ tasks'[id].checkInCount = tasks[id].checkInCount + 1
  BY <1>1 DEF First!check_in, First!TypeOK, First!Task
<1>3. /\ tasks[id].checkInCount \in Nat /\ tasks[id].acceptedAt \in Nat /\ clock \in Nat
      /\ tasks[id].lastCheckInAt \in Nat /\ Pause \in Nat
  BY <1>1 DEF First!Task, Parameters, First!TypeOK
<1>4. clock <= tasks[id].deadline /\ tasks[id].acceptedAt <= clock
  BY <1>1 DEF First!check_in, presence
<1>5. tasks[id].acceptedAt + tasks[id].checkInCount * Pause <= clock
  <2>1. CASE tasks[id].checkInCount = 0
    BY <1>3, <1>4, <2>1
  <2>2. CASE tasks[id].checkInCount # 0
    <3>1. tasks[id].acceptedAt + (tasks[id].checkInCount - 1) * Pause <= tasks[id].lastCheckInAt
      BY <1>1, <1>3, <2>2 DEF presence, First!witnessed
    <3>2. clock - tasks[id].lastCheckInAt >= Pause
      BY <2>2 DEF First!check_in
    <3>3. tasks[id].checkInCount * Pause = (tasks[id].checkInCount - 1) * Pause + Pause
      BY <1>3
    <3> QED BY <1>3, <3>1, <3>2, <3>3
  <2> QED BY <2>1, <2>2
<1> QED BY <1>2, <1>3, <1>4, <1>5 DEF presence, First!witnessed

LEMMA PresenceStep ==
  ASSUME Parameters, First!TypeOK, Presence, [First!Next]_First!vars
  PROVE  Presence'
<1> USE DEF Presence
<1>1. CASE UNCHANGED First!vars
  BY <1>1 DEF First!vars
<1>2. CASE First!Tick
  <2> SUFFICES ASSUME NEW id \in First!TaskIds PROVE presence(tasks'[id], clock')
    OBVIOUS
  <2>1. tasks[id].state # "absent" => tasks[id] \in First!Task
    BY DEF First!TypeOK, First!Absent
  <2> QED BY <1>2, <2>1 DEF First!Tick, First!TypeOK, First!Task, presence
<1>3. ASSUME NEW id \in First!TaskIds, NEW g \in AnyKeys, NEW d \in Nat, First!create_task(id, g, d)
      PROVE  Presence'
  <2>1. presence(tasks'[id], clock)
    BY <1>3 DEF First!create_task, First!TypeOK, presence
  <2>2. \A j \in First!TaskIds : j # id => tasks'[j] = tasks[j]
    BY <1>3 DEF First!create_task, First!TypeOK
  <2> QED BY <1>3, <2>1, <2>2 DEF First!create_task
<1>4. ASSUME NEW id \in First!TaskIds,
             First!accept_task(id) \/ First!check_in(id) \/ First!complete_task(id) \/ First!cancel_task(id)
      PROVE  Presence'
  <2>1. tasks[id] \in First!Task
    BY <1>4 DEF First!accept_task, First!check_in, First!complete_task, First!cancel_task, First!TypeOK, First!Absent
  <2>2. presence(tasks'[id], clock)
    <3>1. CASE First!accept_task(id)
      BY <2>1, <3>1 DEF First!accept_task, First!TypeOK, First!Task, presence, First!witnessed
    <3>2. CASE First!check_in(id)
      BY <3>2, TaskCheckInStep
    <3>3. CASE First!complete_task(id)
      BY <2>1, <3>3 DEF First!complete_task, First!TypeOK, First!Task, presence, First!witnessed
    <3>4. CASE First!cancel_task(id)
      BY <2>1, <3>4 DEF First!cancel_task, First!TypeOK, First!Task, presence, First!witnessed
    <3> QED BY <1>4, <3>1, <3>2, <3>3, <3>4
  <2>3. \A j \in First!TaskIds : j # id => tasks'[j] = tasks[j]
    BY <1>4 DEF First!accept_task, First!check_in, First!complete_task, First!cancel_task, First!TypeOK
  <2>4. clock' = clock
    BY <1>4 DEF First!accept_task, First!check_in, First!complete_task, First!cancel_task
  <2> QED BY <2>2, <2>3, <2>4
<1> QED BY <1>1, <1>2, <1>3, <1>4 DEF First!Next

(* The reward is for being there: who accepts, waits and is checked in     *)
(* only at the end has one check-in, never several.                        *)
THEOREM PresenceIsProven ==
  ASSUME Parameters
  PROVE  First!Spec => []First!PresenceIsWitnessed
<1>1. First!Init => Presence
  BY DEF First!Init, Presence, presence, First!Absent
<1>2. First!TypeOK /\ Presence /\ [First!Next]_First!vars => Presence'
  BY PresenceStep
<1>3. First!TypeOK /\ Presence => First!PresenceIsWitnessed
  BY DEF Presence, presence, First!PresenceIsWitnessed
<1> QED BY TaskTypeCorrect, <1>1, <1>2, <1>3, PTL DEF First!Spec

-----------------------------------------------------------------------------
(* Sums over a finite set, as MapThenSumSet computes them.  Induction goes *)
(* by what is smallest among what is not yet so.                           *)
LEMMA Smallest ==
  ASSUME NEW S, S # {}, NEW f \in [S -> Nat]
  PROVE  \E x \in S : \A y \in S : f[x] <= f[y]
<1> DEFINE T == {f[x] : x \in S}
<1>1. T \subseteq Nat /\ T # {}
  OBVIOUS
<1>2. PICK m \in T : \A n \in T : ~ (<<n, m>> \in OpToRel(<, Nat))
  BY <1>1, WFMin, NatLessThanWellFounded, Zenon
<1>3. \A n \in T : <<n, m>> \in Nat \X Nat /\ n \in Nat /\ m \in Nat
  BY <1>1
<1>4. \A n \in T : ~(n < m)
  BY <1>2, <1>3 DEF OpToRel
<1>5. \A n \in T : m <= n
  BY <1>3, <1>4
<1>6. PICK x \in S : f[x] = m
  OBVIOUS
<1> QED BY <1>5, <1>6

LEMMA EveryNumber ==
  ASSUME NEW G, 0 \in G, \A n \in Nat : n \in G => n + 1 \in G
  PROVE  Nat \subseteq G
<1> SUFFICES ASSUME Nat \ G # {} PROVE FALSE
  OBVIOUS
<1> DEFINE f == [n \in Nat \ G |-> n]
<1>1. f \in [Nat \ G -> Nat]
  OBVIOUS
<1>2. PICK m \in Nat \ G : \A n \in Nat \ G : f[m] <= f[n]
  <2> HIDE DEF f
  <2> QED BY <1>1, Smallest
<1>3. \A n \in Nat \ G : m <= n
  BY <1>2
<1>4. m # 0 /\ m - 1 \in Nat
  OBVIOUS
<1>5. m - 1 \in G
  BY <1>3, <1>4
<1>6. (m - 1) + 1 = m
  BY <1>4
<1> QED BY <1>4, <1>5, <1>6

anyOf(s) == CHOOSE x \in s : TRUE
summed(f, h, s) == IF s = {} THEN 0 ELSE f[anyOf(s)] + h[s \ {anyOf(s)}]
atMost(S, n) == {s \in SUBSET S : Cardinality(s) <= n}

sums(f, S, h) == h = [s \in SUBSET S |-> summed(f, h, s)]

LEMMA SumsExist ==
  ASSUME NEW S, IsFiniteSet(S), NEW f
  PROVE  \E h : sums(f, S, h)
<1> DEFINE Good == {n \in Nat : \E h : h = [s \in atMost(S, n) |-> summed(f, h, s)]}
<1>0. \A s \in SUBSET S : IsFiniteSet(s) /\ Cardinality(s) \in Nat /\ Cardinality(s) <= Cardinality(S)
  BY FS_Subset, FS_CardinalityType
<1>1. 0 \in Good
  <2> DEFINE h == [s \in atMost(S, 0) |-> 0]
  <2>1. \A s \in atMost(S, 0) : s = {}
    BY <1>0, FS_EmptySet DEF atMost
  <2>2. h = [s \in atMost(S, 0) |-> summed(f, h, s)]
    BY <2>1 DEF summed
  <2> QED BY <2>2
<1>2. ASSUME NEW n \in Nat, n \in Good PROVE n + 1 \in Good
  <2>1. PICK h : h = [s \in atMost(S, n) |-> summed(f, h, s)]
    BY <1>2
  <2> DEFINE k == [s \in atMost(S, n + 1) |-> summed(f, h, s)]
  <2>2. ASSUME NEW s \in atMost(S, n + 1) PROVE summed(f, h, s) = summed(f, k, s)
    <3>1. CASE s = {}
      BY <3>1 DEF summed
    <3>2. CASE s # {}
      <4>1. PICK t : t = s \ {anyOf(s)}
        OBVIOUS
      <4>2. anyOf(s) \in s
        BY <3>2 DEF anyOf
      <4>3. Cardinality(t) = Cardinality(s) - 1
        BY <1>0, <4>1, <4>2, FS_RemoveElement DEF atMost
      <4>4. t \in atMost(S, n) /\ t \in atMost(S, n + 1)
        BY <1>0, <4>1, <4>3 DEF atMost
      <4>5. h[t] = summed(f, h, t)
        BY <2>1, <4>4
      <4>6. k[t] = summed(f, h, t)
        BY <4>4
      <4> HIDE DEF k
      <4> QED BY <3>2, <4>1, <4>5, <4>6 DEF summed
    <3> QED BY <3>1, <3>2
  <2>3. k = [s \in atMost(S, n + 1) |-> summed(f, k, s)]
    <3>1. k = [s \in atMost(S, n + 1) |-> summed(f, h, s)]
      OBVIOUS
    <3> HIDE DEF k
    <3> QED BY <2>2, <3>1
  <2>4. \E g : g = [s \in atMost(S, n + 1) |-> summed(f, g, s)]
    <3> HIDE DEF k
    <3> QED BY <2>3
  <2>5. n + 1 \in Nat
    OBVIOUS
  <2> QED BY <2>4, <2>5
<1>3. Cardinality(S) \in Good
  <2> HIDE DEF Good
  <2>1. Nat \subseteq Good
    BY <1>1, <1>2, EveryNumber
  <2> QED BY <2>1, FS_CardinalityType
<1>4. atMost(S, Cardinality(S)) = SUBSET S
  BY <1>0 DEF atMost
<1>5. PICK h : h = [s \in atMost(S, Cardinality(S)) |-> summed(f, h, s)]
  BY <1>3
<1> QED BY <1>4, <1>5 DEF sums

(* Of those in the order of their keys, r have a rank below r.             *)
lowest(r, E) == {g \in E : rank(g, E) < r}
LEMMA RankCounts ==
  ASSUME NEW E \in SUBSET Guardians, NEW r \in Nat, r <= Cardinality(E)
  PROVE  IsFiniteSet(lowest(r, E)) /\ Cardinality(lowest(r, E)) = r
<1> USE SafetyGuardAssumption
<1>0. IsFiniteSet(E) /\ Cardinality(E) \in Nat /\ E \subseteq Nat
  BY FS_Subset, FS_CardinalityType
<1> DEFINE n == Cardinality(E)
           below(g) == {other \in E : other < g}
<1>1. \A g \in E : IsFiniteSet(below(g)) /\ rank(g, E) \in Nat /\ rank(g, E) = Cardinality(below(g))
  <2> SUFFICES ASSUME NEW g \in E PROVE IsFiniteSet(below(g)) /\ Cardinality(below(g)) \in Nat
    BY DEF rank
  <2>1. below(g) \in SUBSET E
    OBVIOUS
  <2> HIDE DEF below
  <2> QED BY <1>0, <2>1, FS_Subset, FS_CardinalityType
<1>2. ASSUME NEW g \in E PROVE rank(g, E) < n
  <2>1. below(g) \in SUBSET E /\ below(g) # E
    BY <1>0
  <2>2. Cardinality(below(g)) <= n /\ Cardinality(below(g)) # n
    <3> HIDE DEF below
    <3> QED BY <1>0, <2>1, FS_Subset
  <2> HIDE DEF below
  <2> QED BY <1>0, <1>1, <2>2
<1>3. ASSUME NEW g \in E, NEW h \in E, g < h PROVE rank(g, E) < rank(h, E)
  <2>0. g \in Nat /\ h \in Nat /\ \A other \in E : other \in Nat
    BY <1>0
  <2>3. ~(g < g) /\ \A other \in E : other < g => other < h
    BY <1>3, <2>0
  <2>1. below(g) \in SUBSET below(h) /\ g \in below(h) /\ g \notin below(g)
    BY <1>3, <2>3
  <2>2. Cardinality(below(g)) <= Cardinality(below(h)) /\ Cardinality(below(g)) # Cardinality(below(h))
    <3> HIDE DEF below
    <3> QED BY <1>1, <2>1, FS_Subset
  <2> HIDE DEF below
  <2> QED BY <1>1, <2>2
<1>4. \A g, h \in E : rank(g, E) = rank(h, E) => g = h
  <2> SUFFICES ASSUME NEW g \in E, NEW h \in E, rank(g, E) = rank(h, E), g # h PROVE FALSE
    OBVIOUS
  <2>0. g \in Nat /\ h \in Nat
    BY <1>0
  <2>1. g < h \/ h < g
    BY <2>0
  <2>2. rank(g, E) \in Nat /\ rank(h, E) \in Nat
    BY <1>1
  <2>3. rank(g, E) < rank(h, E) \/ rank(h, E) < rank(g, E)
    BY <1>3, <2>1
  <2> QED BY <2>2, <2>3
<1> DEFINE f == [g \in E |-> rank(g, E)]
<1>5. f \in Injection(E, 0..(n - 1))
  <2>1. \A g \in E : rank(g, E) \in 0..(n - 1)
    <3> HIDE DEF below
    <3>1. n \in Nat /\ \A g \in E : rank(g, E) \in Nat /\ rank(g, E) < n
      BY <1>0, <1>1, <1>2
    <3> HIDE DEF n
    <3> QED BY <3>1
  <2>3. f \in [E -> 0..(n - 1)]
    BY <2>1
  <2>2. \A g, h \in E : f[g] = f[h] => g = h
    BY <1>4
  <2> HIDE DEF f, n
  <2> QED BY <2>3, <2>2 DEF Injection, IsInjective
<1>6. IsFiniteSet(0..(n - 1)) /\ Cardinality(0..(n - 1)) = n
  <2>1. n \in Nat
    BY <1>0
  <2> HIDE DEF n
  <2>2. n - 1 \in Int /\ 0 \in Int
    BY <2>1
  <2>3. IsFiniteSet(0..(n - 1)) /\ Cardinality(0..(n - 1)) = IF 0 > n - 1 THEN 0 ELSE (n - 1) - 0 + 1
    BY <2>2, FS_Interval
  <2> QED BY <2>1, <2>3
<1>7. f \in Surjection(E, 0..(n - 1))
  <2> HIDE DEF f
  <2> QED BY <1>5, <1>6, FS_Injection
<1>8. \A i \in 0..(n - 1) : \E g \in E : rank(g, E) = i
  BY <1>7 DEF Surjection
<1> DEFINE k == [g \in lowest(r, E) |-> rank(g, E)]
<1>9. k \in Injection(lowest(r, E), 0..(r - 1))
  <2>0. \A g \in lowest(r, E) : rank(g, E) \in 0..(r - 1)
    <3>1. \A g \in lowest(r, E) : rank(g, E) \in Nat /\ rank(g, E) < r
      BY <1>1 DEF lowest
    <3> QED BY <3>1
  <2>1. k \in [lowest(r, E) -> 0..(r - 1)]
    BY <2>0
  <2>2. \A g, h \in lowest(r, E) : k[g] = k[h] => g = h
    BY <1>4 DEF lowest
  <2> HIDE DEF k
  <2> QED BY <2>1, <2>2 DEF Injection, IsInjective
<1>10. k \in Surjection(lowest(r, E), 0..(r - 1))
  <2>1. \A i \in 0..(r - 1) : \E g \in lowest(r, E) : rank(g, E) = i
    <3> SUFFICES ASSUME NEW i \in 0..(r - 1) PROVE \E g \in lowest(r, E) : rank(g, E) = i
      OBVIOUS
    <3>1. i \in 0..(n - 1) /\ i < r
      BY <1>0
    <3> QED BY <1>8, <3>1 DEF lowest
  <2>2. \A i \in 0..(r - 1) : \E g \in lowest(r, E) : k[g] = i
    BY <2>1
  <2>3. k \in [lowest(r, E) -> 0..(r - 1)]
    BY <1>9 DEF Injection
  <2> HIDE DEF k
  <2> QED BY <2>2, <2>3 DEF Surjection
<1>11. IsFiniteSet(0..(r - 1)) /\ Cardinality(0..(r - 1)) = r
  <2>1. r - 1 \in Int /\ 0 \in Int
    OBVIOUS
  <2>2. IsFiniteSet(0..(r - 1)) /\ Cardinality(0..(r - 1)) = IF 0 > r - 1 THEN 0 ELSE (r - 1) - 0 + 1
    BY <2>1, FS_Interval
  <2> QED BY <2>2
<1> HIDE DEF k
<1> QED BY <1>9, <1>10, <1>11, FS_Injection

LEMMA OneMore == ASSUME NEW q \in Nat, NEW i \in Nat PROVE q * (i + 1) = q * i + q
OBVIOUS
LEMMA Divided ==
  ASSUME NEW pool \in Nat, NEW n \in Nat, n > 0, NEW q \in Nat, NEW r \in Nat, q = pool \div n, r = pool % n
  PROVE  n * q + r = pool
BY SMTT(30)
LEMMA WholeAndRest ==
  ASSUME NEW pool \in Nat, NEW n \in Nat, n > 0
  PROVE  \E q \in Nat, r \in Nat : q = pool \div n /\ r = pool % n /\ r < n /\ q * n + r = pool
<1>1. pool \div n \in Nat
  OBVIOUS
<1>2. pool % n \in Nat
  OBVIOUS
<1>3. pool % n < n
  OBVIOUS
<1>4. PICK q \in Nat : q = pool \div n
  BY <1>1
<1>5. PICK r \in Nat : r = pool % n
  BY <1>2
<1>6. n * q + r = pool
  BY <1>4, <1>5, Divided
<1>7. n * q = q * n
  OBVIOUS
<1> QED BY <1>3, <1>4, <1>5, <1>6, <1>7

(* What is shared is the pool: everybody gets the whole part, and as many  *)
(* one more as there is a remainder.                                       *)
shared(pool, E, g) == IF g \in E THEN share(pool, g, E) ELSE 0
LEMMA SumOfShares ==
  ASSUME NEW E \in SUBSET Guardians, E # {}, NEW pool \in Nat, NEW f, NEW h,
         \A g \in Guardians : f[g] = shared(pool, E, g),
         sums(f, Guardians, h)
  PROVE  h[Guardians] = pool
<1> USE SafetyGuardAssumption
<1>1. IsFiniteSet(E) /\ Cardinality(E) \in Nat /\ Cardinality(E) > 0
  <2>1. IsFiniteSet(E) /\ Cardinality(E) \in Nat /\ Cardinality(E) # 0
    BY FS_Subset, FS_CardinalityType, FS_EmptySet
  <2> QED BY <2>1
<1>2. PICK n \in Nat : n = Cardinality(E) /\ n > 0
  BY <1>1
<1>3. PICK q \in Nat, r \in Nat : q = pool \div n /\ r = pool % n /\ r < n /\ q * n + r = pool
  BY <1>2, WholeAndRest
<1>5. q * n + r = pool /\ r < n
  BY <1>3
<1>6. PICK L : L = lowest(r, E)
  OBVIOUS
<1>7. IsFiniteSet(L) /\ Cardinality(L) = r /\ L \subseteq E
  BY <1>2, <1>5, <1>6, RankCounts DEF lowest
<1>8. \A g \in Guardians : f[g] = IF g \in E THEN (IF g \in L THEN q + 1 ELSE q) ELSE 0
  <2> SUFFICES ASSUME NEW g \in Guardians PROVE f[g] = IF g \in E THEN (IF g \in L THEN q + 1 ELSE q) ELSE 0
    OBVIOUS
  <2>1. g \in E => share(pool, g, E) = q + (IF g \in L THEN 1 ELSE 0)
    BY <1>2, <1>3, <1>6 DEF share, lowest
  <2> QED BY <2>1 DEF shared
<1> DEFINE right(s) == h[s] = q * Cardinality(s \cap E) + Cardinality(s \cap L)
           Wrong == {s \in SUBSET Guardians : ~right(s)}
<1>9. Wrong = {}
  <2> SUFFICES ASSUME Wrong # {} PROVE FALSE
    OBVIOUS
  <2> DEFINE size == [s \in Wrong |-> Cardinality(s)]
  <2>0. \A s \in SUBSET Guardians : IsFiniteSet(s) /\ Cardinality(s) \in Nat
    BY FS_Subset, FS_CardinalityType
  <2>1. size \in [Wrong -> Nat]
    BY <2>0
  <2>2. PICK s \in Wrong : \A t \in Wrong : size[s] <= size[t]
    <3> HIDE DEF size, Wrong
    <3> QED BY <2>1, Smallest
  <2>3. s \in SUBSET Guardians /\ ~right(s)
    OBVIOUS
  <2>4. h[s] = summed(f, h, s)
    BY <2>3 DEF sums
  <2>5. CASE s = {}
    <3>1. h[s] = 0 /\ s \cap E = {} /\ s \cap L = {}
      BY <2>4, <2>5 DEF summed
    <3>2. Cardinality(s \cap E) = 0 /\ Cardinality(s \cap L) = 0
      BY <3>1, FS_EmptySet
    <3>3. q * 0 = 0
      OBVIOUS
    <3> QED BY <2>3, <3>1, <3>2, <3>3
  <2>6. CASE s # {}
    <3>1. PICK x \in s : x = anyOf(s)
      BY <2>6 DEF anyOf
    <3>2. PICK t : t = s \ {x}
      OBVIOUS
    <3>3. t \in SUBSET Guardians /\ Cardinality(t) = Cardinality(s) - 1
      BY <2>0, <2>3, <3>1, <3>2, FS_RemoveElement
    <3>4. t \notin Wrong
      <4> SUFFICES ASSUME t \in Wrong PROVE FALSE
        OBVIOUS
      <4>1. Cardinality(s) <= Cardinality(t)
        BY <2>2
      <4> QED BY <2>0, <2>3, <3>3, <4>1
    <3>5. h[t] = q * Cardinality(t \cap E) + Cardinality(t \cap L)
      BY <3>3, <3>4
    <3>6. h[s] = f[x] + h[t]
      BY <2>4, <2>6, <3>1, <3>2 DEF summed
    <3>7. ASSUME NEW X \in SUBSET E
          PROVE  Cardinality(t \cap X) \in Nat /\ Cardinality(s \cap X) = Cardinality(t \cap X) + (IF x \in X THEN 1 ELSE 0)
      <4>1. IsFiniteSet(s \cap X) /\ Cardinality(s \cap X) \in Nat
        BY <2>0, <2>3, FS_Intersection, FS_CardinalityType
      <4>2. t \cap X = (s \cap X) \ {x}
        BY <3>2
      <4>3. Cardinality(t \cap X) = IF x \in s \cap X THEN Cardinality(s \cap X) - 1 ELSE Cardinality(s \cap X)
        BY <4>1, <4>2, FS_RemoveElement
      <4>4. IsFiniteSet(t \cap X) /\ Cardinality(t \cap X) \in Nat
        BY <4>1, <4>2, FS_RemoveElement, FS_CardinalityType
      <4> QED BY <3>1, <4>1, <4>3, <4>4
    <3>8. PICK i \in Nat : i = Cardinality(t \cap E) /\ Cardinality(s \cap E) = i + (IF x \in E THEN 1 ELSE 0)
      BY <3>7
    <3>9. PICK j \in Nat : j = Cardinality(t \cap L) /\ Cardinality(s \cap L) = j + (IF x \in L THEN 1 ELSE 0)
      BY <1>7, <3>7
    <3>10. f[x] = IF x \in E THEN (IF x \in L THEN q + 1 ELSE q) ELSE 0
      BY <1>8, <2>3
    <3>11. q * (i + 1) = q * i + q /\ q * i \in Nat
      BY OneMore
    <3>12. h[t] = q * i + j
      BY <3>5, <3>8, <3>9
    <3>13. x \in L => x \in E
      BY <1>7
    <3>14. h[s] = q * Cardinality(s \cap E) + Cardinality(s \cap L)
      <4> HIDE DEF right, Wrong, size
      <4>1. PICK m \in Nat : m = q * i
        BY <3>11
      <4>2. CASE x \in E
        <5>1. q * Cardinality(s \cap E) = m + q
          BY <3>8, <3>11, <4>1, <4>2
        <5>2. h[s] = f[x] + (m + j)
          BY <3>6, <3>12, <4>1
        <5> QED BY <3>9, <3>10, <4>2, <5>1, <5>2
      <4>3. CASE x \notin E
        <5>1. q * Cardinality(s \cap E) = m
          BY <3>8, <4>1, <4>3
        <5>2. h[s] = f[x] + (m + j)
          BY <3>6, <3>12, <4>1
        <5> QED BY <3>9, <3>10, <3>13, <4>3, <5>1, <5>2
      <4> QED BY <4>2, <4>3
    <3> QED BY <2>3, <3>14
  <2> QED BY <2>5, <2>6
<1>10. right(Guardians)
  BY <1>9
<1>11. Guardians \cap E = E /\ Guardians \cap L = L
  BY <1>7
<1> QED BY <1>2, <1>5, <1>7, <1>10, <1>11

LEMMA SumOfNothing ==
  ASSUME NEW f, NEW h, \A g \in Guardians : f[g] = 0, sums(f, Guardians, h)
  PROVE  h[Guardians] = 0
<1> USE SafetyGuardAssumption
<1> DEFINE Wrong == {s \in SUBSET Guardians : h[s] # 0}
<1> SUFFICES ASSUME Wrong # {} PROVE FALSE
  OBVIOUS
<1> DEFINE size == [s \in Wrong |-> Cardinality(s)]
<1>0. \A s \in SUBSET Guardians : IsFiniteSet(s) /\ Cardinality(s) \in Nat
  BY FS_Subset, FS_CardinalityType
<1>1. size \in [Wrong -> Nat]
  BY <1>0
<1>2. PICK s \in Wrong : \A t \in Wrong : size[s] <= size[t]
  <2> HIDE DEF size, Wrong
  <2> QED BY <1>1, Smallest
<1>3. h[s] = summed(f, h, s)
  BY DEF sums
<1>4. s # {}
  BY <1>3 DEF summed
<1>5. PICK x \in s : x = anyOf(s)
  BY <1>4 DEF anyOf
<1>6. PICK t : t = s \ {x}
  OBVIOUS
<1>7. t \in SUBSET Guardians /\ Cardinality(t) = Cardinality(s) - 1
  BY <1>0, <1>5, <1>6, FS_RemoveElement
<1>8. t \notin Wrong
  <2> SUFFICES ASSUME t \in Wrong PROVE FALSE
    OBVIOUS
  <2>1. Cardinality(s) <= Cardinality(t)
    BY <1>2
  <2> QED BY <1>0, <1>7, <2>1
<1> QED BY <1>3, <1>4, <1>5, <1>6, <1>7, <1>8 DEF summed

(* The amounts of a journey: none before it is complete, then the shares   *)
(* of those who are eligible, who stay the same.                           *)
Shares ==
  IF journey.state = "Completed"
  THEN /\ Eligible(journey) # {}
       /\ \A g \in Guardians :
            /\ journey.contributions[g].points = shared(PointsPool, Eligible(journey), g)
            /\ journey.contributions[g].reputation = shared(ReputationPool, Eligible(journey), g)
  ELSE \A g \in Guardians : journey.contributions[g].points = 0 /\ journey.contributions[g].reputation = 0

LEMMA PointsTotal ==
  ASSUME NEW f, \A g \in Guardians : f[g] = journey.contributions[g].points
  PROVE  \E h : sums(f, Guardians, h) /\ MapThenSumSet(LAMBDA g : journey.contributions[g].points, Guardians) = h[Guardians]
<1> USE SafetyGuardAssumption
<1> DEFINE tallied(h, s) == IF s = {} THEN 0 ELSE journey.contributions[CHOOSE x \in s : TRUE].points + h[s \ {CHOOSE x \in s : TRUE}]
           tallies(h) == h = [s \in SUBSET Guardians |-> tallied(h, s)]
<1>1. \A h : \A s \in SUBSET Guardians : tallied(h, s) = summed(f, h, s)
  <2> SUFFICES ASSUME NEW h, NEW s \in SUBSET Guardians PROVE tallied(h, s) = summed(f, h, s)
    OBVIOUS
  <2>1. CASE s = {}
    BY <2>1 DEF summed
  <2>2. CASE s # {}
    <3>1. PICK x \in s : x = CHOOSE y \in s : TRUE
      BY <2>2
    <3>2. f[x] = journey.contributions[x].points
      OBVIOUS
    <3> QED BY <2>2, <3>1, <3>2 DEF summed, anyOf
  <2> QED BY <2>1, <2>2
<1>2. \A h : tallies(h) <=> sums(f, Guardians, h)
  <2> HIDE DEF tallied
  <2> QED BY <1>1 DEF sums
<1>3. \E h : tallies(h)
  <2> HIDE DEF tallies
  <2> QED BY <1>2, SumsExist
<1>4. \E h : tallies(h) /\ MapThenSumSet(LAMBDA g : journey.contributions[g].points, Guardians) = h[Guardians]
  BY <1>3 DEF MapThenSumSet, MapThenFoldSet
<1> HIDE DEF tallies
<1> QED BY <1>2, <1>4

LEMMA ReputationTotal ==
  ASSUME NEW f, \A g \in Guardians : f[g] = journey.contributions[g].reputation
  PROVE  \E h : sums(f, Guardians, h) /\ MapThenSumSet(LAMBDA g : journey.contributions[g].reputation, Guardians) = h[Guardians]
<1> USE SafetyGuardAssumption
<1> DEFINE tallied(h, s) == IF s = {} THEN 0 ELSE journey.contributions[CHOOSE x \in s : TRUE].reputation + h[s \ {CHOOSE x \in s : TRUE}]
           tallies(h) == h = [s \in SUBSET Guardians |-> tallied(h, s)]
<1>1. \A h : \A s \in SUBSET Guardians : tallied(h, s) = summed(f, h, s)
  <2> SUFFICES ASSUME NEW h, NEW s \in SUBSET Guardians PROVE tallied(h, s) = summed(f, h, s)
    OBVIOUS
  <2>1. CASE s = {}
    BY <2>1 DEF summed
  <2>2. CASE s # {}
    <3>1. PICK x \in s : x = CHOOSE y \in s : TRUE
      BY <2>2
    <3>2. f[x] = journey.contributions[x].reputation
      OBVIOUS
    <3> QED BY <2>2, <3>1, <3>2 DEF summed, anyOf
  <2> QED BY <2>1, <2>2
<1>2. \A h : tallies(h) <=> sums(f, Guardians, h)
  <2> HIDE DEF tallied
  <2> QED BY <1>1 DEF sums
<1>3. \E h : tallies(h)
  <2> HIDE DEF tallies
  <2> QED BY <1>2, SumsExist
<1>4. \E h : tallies(h) /\ MapThenSumSet(LAMBDA g : journey.contributions[g].reputation, Guardians) = h[Guardians]
  BY <1>3 DEF MapThenSumSet, MapThenFoldSet
<1> HIDE DEF tallies
<1> QED BY <1>2, <1>4

LEMMA SameEligible ==
  ASSUME NEW i, NEW j,
         \A h \in Guardians : /\ i.contributions[h].joined <=> j.contributions[h].joined
                              /\ i.contributions[h].check_ins = j.contributions[h].check_ins
  PROVE  Eligible(i) = Eligible(j)
<1>1. \A h : h \in Joined(i) <=> h \in Joined(j)
  BY Zenon DEF Joined
<1>2. \A h : h \in Joined(i) => h \in Guardians
  BY DEF Joined
<1>3. Joined(i) = Joined(j)
  BY <1>1
<1> QED BY <1>2, <1>3 DEF Eligible

LEMMA SharesAddUp ==
  ASSUME IInv, Shares
  PROVE  PoolsSharedExactly
<1> USE SafetyGuardAssumption
<1>1. PICK f : \A g \in Guardians : f[g] = journey.contributions[g].points
  <2>1. \A g \in Guardians : [x \in Guardians |-> journey.contributions[x].points][g] = journey.contributions[g].points
    OBVIOUS
  <2> QED BY <2>1
<1>2. PICK k : \A g \in Guardians : k[g] = journey.contributions[g].reputation
  <2>1. \A g \in Guardians : [x \in Guardians |-> journey.contributions[x].reputation][g] = journey.contributions[g].reputation
    OBVIOUS
  <2> QED BY <2>1
<1>3. PICK F : sums(f, Guardians, F) /\ MapThenSumSet(LAMBDA g : journey.contributions[g].points, Guardians) = F[Guardians]
  BY <1>1, PointsTotal
<1>4. PICK K : sums(k, Guardians, K) /\ MapThenSumSet(LAMBDA g : journey.contributions[g].reputation, Guardians) = K[Guardians]
  BY <1>2, ReputationTotal
<1>5. CASE journey.state = "Completed"
  <2>1. Eligible(journey) \in SUBSET Guardians /\ Eligible(journey) # {}
    BY <1>5 DEF Shares, Eligible, Joined
  <2>2. F[Guardians] = PointsPool
    BY <1>1, <1>3, <1>5, <2>1, SumOfShares DEF Shares
  <2>3. K[Guardians] = ReputationPool
    BY <1>2, <1>4, <1>5, <2>1, SumOfShares DEF Shares
  <2> QED BY <1>3, <1>4, <1>5, <2>2, <2>3 DEF PoolsSharedExactly
<1>6. CASE journey.state # "Completed"
  <2>2. F[Guardians] = 0
    BY <1>1, <1>3, <1>6, SumOfNothing DEF Shares
  <2>3. K[Guardians] = 0
    BY <1>2, <1>4, <1>6, SumOfNothing DEF Shares
  <2> QED BY <1>3, <1>4, <1>6, <2>2, <2>3 DEF PoolsSharedExactly
<1> QED BY <1>5, <1>6

(* Until it is complete a step of a journey awards nothing.                *)
LEMMA NothingAwarded ==
  ASSUME IInv, Shares, journey.state # "Completed", journey'.state # "Completed",
         \A g \in Guardians : /\ journey'.contributions[g].points \in {0, journey.contributions[g].points}
                               /\ journey'.contributions[g].reputation \in {0, journey.contributions[g].reputation}
  PROVE  Shares'
BY DEF Shares

LEMMA SharesStep == IInv /\ Shares /\ [Next]_vars => Shares'
<1> SUFFICES ASSUME IInv, Shares, [Next]_vars PROVE Shares'
  OBVIOUS
<1> USE SafetyGuardAssumption
<1>0. /\ journey \in JourneyV2 /\ now \in Nat
      /\ \A h \in Guardians : journey.contributions[h] \in Contribution
  BY DEF IInv, TypeOK, JourneyV2
<1>1. ASSUME NEW deadline \in 1..MaxTime, CreateJourney(deadline) PROVE Shares'
  <2>1. journey.state = "Absent" /\ journey'.state = "Open" /\ journey'.contributions = journey.contributions
    BY <1>0, <1>1 DEF CreateJourney, Account, JourneyV2
  <2> QED BY <2>1, NothingAwarded
<1>2. ASSUME NEW v \in views, NEW g \in Guardians, ProposeGuardian(v, g) PROVE Shares'
  <2>1. journey.state \in Running /\ journey'.state = journey.state /\ journey'.contributions = journey.contributions
    BY <1>0, <1>2 DEF ProposeGuardian, revision, Account, JourneyV2
  <2> QED BY <2>1, NothingAwarded DEF Running
<1>3. ASSUME NEW v \in views, NEW g \in Guardians, AcceptGuardian(v, g) PROVE Shares'
  <2>1. journey.state \in Running /\ journey'.state = "Active" /\ journey'.contributions = handover(journey, g).contributions
    BY <1>0, <1>3 DEF AcceptGuardian, revision, Account, JourneyV2, withoutProposal, handover
  <2>2. ASSUME NEW h \in Guardians
        PROVE  LET c == journey.contributions[h]
                   d == handover(journey, g).contributions[h]
               IN d = c \/ d = [c EXCEPT !.ended_at = 0] \/ d = Slot(TRUE, now) \/ d = [c EXCEPT !.ended_at = now]
    BY <1>0 DEF handover, JourneyV2
  <2>3. \A c \in Contribution : \A t : /\ [c EXCEPT !.ended_at = t].points = c.points
                                         /\ [c EXCEPT !.ended_at = t].reputation = c.reputation
    BY DEF Contribution
  <2>4. Slot(TRUE, now).points = 0 /\ Slot(TRUE, now).reputation = 0
    BY DEF Slot
  <2>5. \A h \in Guardians : /\ journey'.contributions[h].points \in {0, journey.contributions[h].points}
                             /\ journey'.contributions[h].reputation \in {0, journey.contributions[h].reputation}
    <3> SUFFICES ASSUME NEW h \in Guardians
                 PROVE  /\ journey'.contributions[h].points \in {0, journey.contributions[h].points}
                        /\ journey'.contributions[h].reputation \in {0, journey.contributions[h].reputation}
      OBVIOUS
    <3>1. PICK c \in Contribution : c = journey.contributions[h]
      BY <1>0
    <3>2. PICK d : d = journey'.contributions[h]
      OBVIOUS
    <3>3. \/ d = c
          \/ d = [c EXCEPT !.ended_at = 0]
          \/ d = Slot(TRUE, now)
          \/ d = [c EXCEPT !.ended_at = now]
      BY <2>1, <2>2, <3>1, <3>2
    <3>4. d.points \in {0, c.points} /\ d.reputation \in {0, c.reputation}
      BY <2>3, <2>4, <3>3
    <3> QED BY <3>1, <3>2, <3>4
  <2> QED BY <2>1, <2>5, NothingAwarded DEF Running
<1>4. ASSUME NEW v \in views, NEW g \in Guardians, CheckIn(v, g) PROVE Shares'
  <2>1. /\ journey.state = "Active" /\ journey'.state = "Active"
        /\ journey'.contributions = [journey.contributions EXCEPT ![g] = checkedIn(journey.contributions[g])]
    BY <1>0, <1>4 DEF CheckIn, Account, JourneyV2
  <2>2. checkedIn(journey.contributions[g]).points = journey.contributions[g].points
        /\ checkedIn(journey.contributions[g]).reputation = journey.contributions[g].reputation
    BY <1>0 DEF checkedIn, Contribution
  <2>3. \A h \in Guardians : /\ journey'.contributions[h].points = journey.contributions[h].points
                             /\ journey'.contributions[h].reputation = journey.contributions[h].reputation
    BY <1>0, <2>1, <2>2 DEF JourneyV2
  <2> QED BY <2>1, <2>3, NothingAwarded
<1>5. ASSUME NEW v \in views, CancelProposal(v) PROVE Shares'
  <2>1. journey.state \in Running /\ journey'.state = journey.state /\ journey'.contributions = journey.contributions
    BY <1>0, <1>5 DEF CancelProposal, revision, Account, JourneyV2, withoutProposal
  <2> QED BY <2>1, NothingAwarded DEF Running
<1>6. \A h \in Guardians : /\ endAll(journey)[h].points = journey.contributions[h].points
                           /\ endAll(journey)[h].reputation = journey.contributions[h].reputation
  <2> SUFFICES ASSUME NEW h \in Guardians
               PROVE  /\ endAll(journey)[h].points = journey.contributions[h].points
                      /\ endAll(journey)[h].reputation = journey.contributions[h].reputation
    OBVIOUS
  <2>1. [journey.contributions[h] EXCEPT !.ended_at = now].points = journey.contributions[h].points
        /\ [journey.contributions[h] EXCEPT !.ended_at = now].reputation = journey.contributions[h].reputation
    BY <1>0 DEF Contribution
  <2> QED BY <2>1 DEF endAll
<1>7. ASSUME NEW v \in views, CompleteJourney(v) PROVE Shares'
  <2>1. /\ journey.state = "Active" /\ Eligible(journey) # {}
        /\ journey'.state = "Completed" /\ journey'.contributions = settled(journey)
    BY <1>0, <1>7 DEF CompleteJourney, Account, JourneyV2, withoutProposal
  <2>2. Eligible(journey') = Eligible(journey)
    <3>1. \A h \in Guardians : /\ journey'.contributions[h].joined <=> journey.contributions[h].joined
                               /\ journey'.contributions[h].check_ins = journey.contributions[h].check_ins
      BY <2>1, SettledSlots
    <3> QED BY <3>1, SameEligible
  <2>3. \A h \in Guardians : endAll(journey)[h] \in Contribution
    BY EndAllSlots
  <2>4. ASSUME NEW h \in Guardians
        PROVE  /\ settled(journey)[h].points = shared(PointsPool, Eligible(journey), h)
               /\ settled(journey)[h].reputation = shared(ReputationPool, Eligible(journey), h)
    <3>1. CASE h \in Eligible(journey)
      <4>1. PICK e \in Contribution : e = endAll(journey)[h]
        BY <2>3
      <4>2. settled(journey)[h] = [e EXCEPT !.points = share(PointsPool, h, Eligible(journey)),
                                            !.reputation = share(ReputationPool, h, Eligible(journey))]
        BY <3>1, <4>1 DEF settled
      <4>3. \A p, r : [e EXCEPT !.points = p, !.reputation = r].points = p /\ [e EXCEPT !.points = p, !.reputation = r].reputation = r
        BY DEF Contribution
      <4> QED BY <3>1, <4>2, <4>3 DEF shared
    <3>2. CASE h \notin Eligible(journey)
      <4>1. settled(journey)[h] = endAll(journey)[h]
        BY <3>2 DEF settled
      <4>2. journey.contributions[h].points = 0 /\ journey.contributions[h].reputation = 0
        BY <2>1 DEF Shares
      <4> QED BY <1>6, <3>2, <4>1, <4>2 DEF shared
    <3> QED BY <3>1, <3>2
  <2> QED BY <2>1, <2>2, <2>4 DEF Shares
<1>8. ASSUME NEW v \in views, CancelJourney(v) PROVE Shares'
  <2>1. journey.state \in Running /\ journey'.state = "Cancelled" /\ journey'.contributions = endAll(journey)
    BY <1>0, <1>8 DEF CancelJourney, revision, Account, JourneyV2, withoutProposal
  <2> QED BY <1>6, <2>1, NothingAwarded DEF Running
<1>9. ASSUME NEW g \in Guardians, ClaimReward(g) PROVE Shares'
  <2>1. journey.state = "Completed" /\ journey' = claimed(journey, g)
    BY <1>9 DEF ClaimReward
  <2>2. journey'.state = "Completed"
    BY <1>0, <2>1 DEF claimed, JourneyV2
  <2>3. \A h \in Guardians : journey'.contributions[h] =
          IF h = g THEN [journey.contributions[h] EXCEPT !.claimed = TRUE] ELSE journey.contributions[h]
    BY <1>0, <2>1 DEF claimed, JourneyV2
  <2>4. \A h \in Guardians : /\ journey'.contributions[h].joined <=> journey.contributions[h].joined
                             /\ journey'.contributions[h].check_ins = journey.contributions[h].check_ins
                             /\ journey'.contributions[h].points = journey.contributions[h].points
                             /\ journey'.contributions[h].reputation = journey.contributions[h].reputation
    <3> SUFFICES ASSUME NEW h \in Guardians
                 PROVE  /\ journey'.contributions[h].joined <=> journey.contributions[h].joined
                        /\ journey'.contributions[h].check_ins = journey.contributions[h].check_ins
                        /\ journey'.contributions[h].points = journey.contributions[h].points
                        /\ journey'.contributions[h].reputation = journey.contributions[h].reputation
      OBVIOUS
    <3>1. PICK c \in Contribution : c = journey.contributions[h]
      BY <1>0
    <3>2. PICK d : d = journey'.contributions[h]
      OBVIOUS
    <3>3. d = c \/ d = [c EXCEPT !.claimed = TRUE]
      BY <2>3, <3>1, <3>2
    <3>4. /\ d.joined <=> c.joined
          /\ d.check_ins = c.check_ins
          /\ d.points = c.points
          /\ d.reputation = c.reputation
      <4>1. CASE d = c
        BY <4>1
      <4>2. CASE d = [c EXCEPT !.claimed = TRUE]
        BY <4>2, ClaimedFields
      <4> QED BY <3>3, <4>1, <4>2
    <3> QED BY <3>1, <3>2, <3>4
  <2>5. Eligible(journey') = Eligible(journey)
    <3> HIDE DEF IInv
    <3> QED BY <2>4, SameEligible
  <2>6. PICK E : E = Eligible(journey)
    OBVIOUS
  <2>7. /\ E # {}
        /\ \A h \in Guardians : /\ journey'.contributions[h].points = shared(PointsPool, E, h)
                                /\ journey'.contributions[h].reputation = shared(ReputationPool, E, h)
    BY <2>1, <2>4, <2>6 DEF Shares
  <2>8. E = Eligible(journey')
    BY <2>5, <2>6
  <2> QED BY <2>2, <2>7, <2>8 DEF Shares
<1>10. CASE Tick \/ UNCHANGED vars
  BY <1>10 DEF Tick, vars, Shares, Eligible, Joined
<1> QED BY <1>1, <1>2, <1>3, <1>4, <1>5, <1>7, <1>8, <1>9, <1>10 DEF Next

(* SafetyGuardV2!PoolsSharedExactly: for any number of guardians and any   *)
(* pools, the shares of those who checked in add up to the whole pool,     *)
(* whatever remainder its division leaves, and before there is nothing.    *)
THEOREM PoolsAreShared == Spec => []PoolsSharedExactly
<1>1. Init => Shares
  BY DEF Init, Shares, NoContribution, Slot
<1>2. IInv /\ Shares => PoolsSharedExactly
  BY SharesAddUp
<1> QED BY <1>1, <1>2, SharesStep, Invariance, PTL DEF Spec
=============================================================================
