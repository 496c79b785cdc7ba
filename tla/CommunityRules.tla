--------------------------- MODULE CommunityRules ---------------------------
(***************************************************************************)
(* The rules of community records, which the code states twice: for the    *)
(* journal that accepts the events of a journey (applyEvent in             *)
(* src/worker/src/community-ledger.ts) and for the Solana program that     *)
(* publishes them (CommunityJourney::apply in                              *)
(* src/contracts/programs/community-ledger/src/lib.rs).                    *)
(*                                                                         *)
(* Guardians are numbers in the order of their public references.  Times   *)
(* of observation are left out: the source's clock does not run backwards, *)
(* and an event ahead of the chain's clock is one more failed attempt.     *)
(* Points stand for reputation too, which is shared alike.                 *)
(***************************************************************************)
EXTENDS Integers, FiniteSets, SequencesExt

CONSTANTS
  Guardians,     \* public references of those who may guard
  MaxGuardians,  \* 16 guardians of one journey
  Pool,          \* 25 points
  MaxEvents      \* bound: the length of a journal

ASSUME CommunityAssumption ==
  /\ Guardians \subseteq Nat \ {0} /\ IsFiniteSet(Guardians)
  /\ MaxGuardians \in Nat \ {0} /\ Pool \in Nat /\ MaxEvents \in Nat \ {0}

Rider == 0
Nobody == -1  \* the zero reference: the platform, or no guardian
Members == Guardians \cup {Rider}

Kinds == {"created", "assigned", "check_in", "relay_requested", "closed",
          "contribution", "gratitude", "agent_service"}
Event == [sequence: Nat, kind: Kinds, actor: Members \cup {Nobody}, subject: Members,
          assignment: Nat, value: 0..3]

(* communityEventSchema: who may be nobody.                                *)
wellFormed(e) ==
  e.actor = Nobody => \/ e.kind = "relay_requested" /\ e.value = 1
                      \/ e.kind = "agent_service" /\ e.value \in {1, 2}

(* What the journal and the program each remember of a journey: last is    *)
(* the latest assignment of a guardian, 0 before the first.                *)
Chronicle == [next: Nat, assignment: Nat, guardian: Guardians \cup {Nobody}, outcome: 0..3,
              last: [Guardians -> Nat], checked: SUBSET Guardians,
              credited: SUBSET Guardians, thanked: SUBSET Guardians]
Blank == [next |-> 0, assignment |-> 0, guardian |-> Nobody, outcome |-> 0,
          last |-> [g \in Guardians |-> 0], checked |-> {}, credited |-> {}, thanked |-> {}]

joined(c) == {g \in Guardians : c.last[g] > 0}
hasRoom(c, g) == g \in joined(c) \/ Cardinality(joined(c)) < MaxGuardians

(* The fields an accepted event changes.                                   *)
told(c, e) ==
  [next |-> c.next + 1,
   assignment |-> IF e.kind = "assigned" THEN e.assignment ELSE c.assignment,
   guardian |-> IF e.kind = "assigned" THEN e.subject ELSE c.guardian,
   last |-> IF e.kind = "assigned" THEN [c.last EXCEPT ![e.subject] = e.assignment] ELSE c.last,
   outcome |-> IF e.kind = "closed" THEN e.value ELSE c.outcome,
   checked |-> IF e.kind = "check_in" THEN c.checked \cup {e.subject} ELSE c.checked,
   credited |-> IF e.kind = "contribution" THEN c.credited \cup {e.subject} ELSE c.credited,
   thanked |-> IF e.kind = "gratitude" THEN c.thanked \cup {e.subject} ELSE c.thanked]

----------------------------------------------------------------------------
(* The journal: applyEvent.                                                *)

(* Recognition is for a guardian who checked in, under the latest          *)
(* assignment.                                                             *)
journalRecognizes(c, e) ==
  /\ c.outcome # 0 /\ e.subject \in c.checked /\ e.assignment = c.last[e.subject]
  /\ e.actor = IF e.kind = "contribution" THEN e.subject ELSE Rider

journalAccepts(c, e) ==
  /\ wellFormed(e) /\ e.sequence = c.next
  /\ (e.kind = "created") <=> (c.next = 0)
  /\ CASE e.kind = "created" -> e.actor = e.subject /\ e.assignment = 0 /\ e.value = 0
       [] e.kind = "assigned" ->
            /\ c.outcome = 0 /\ e.value = 0 /\ e.actor = Rider
            /\ e.subject \notin {Rider, c.guardian}
            /\ e.assignment = c.assignment + 1 /\ hasRoom(c, e.subject)
       [] e.kind = "check_in" ->
            /\ c.outcome = 0 /\ e.value = 0 /\ e.assignment = c.assignment
            /\ e.actor = c.guardian /\ e.subject = c.guardian
       [] e.kind = "relay_requested" ->
            /\ c.outcome = 0 /\ c.guardian # Nobody
            /\ e.subject = c.guardian /\ e.assignment = c.assignment
            /\ \/ e.actor \in {Rider, c.guardian} /\ e.value = 0
               \/ e.actor = Nobody /\ e.value = 1
       [] e.kind = "agent_service" ->
            /\ c.outcome = 0 /\ c.guardian # Nobody
            /\ e.subject = c.guardian /\ e.assignment = c.assignment
            /\ \/ e.actor = c.guardian /\ e.value \in {0, 3}
               \/ e.actor = Nobody /\ e.value \in {1, 2}
       [] e.kind = "closed" ->
            /\ c.outcome = 0 /\ e.value \in 1..3 /\ e.assignment = c.assignment
            /\ e.actor = Rider /\ e.subject = Rider
       [] e.kind = "contribution" ->
            journalRecognizes(c, e) /\ c.outcome = 1 /\ e.value = 0 /\ e.subject \notin c.credited
       [] e.kind = "gratitude" ->
            journalRecognizes(c, e) /\ e.value \in 1..3 /\ e.subject \notin c.thanked

(* sort: the elements in ascending order.                                  *)
ascending(S) ==
  CHOOSE s \in [1..Cardinality(S) -> S] : \A i, j \in 1..Cardinality(S) : i < j => s[i] < s[j]

journalPointsRankedFromOne(c, e) ==
  IF e.kind # "contribution" THEN 0
  ELSE LET n == Cardinality(c.checked)
           sorted == ascending(c.checked)
           rank == CHOOSE i \in 1..n : sorted[i] = e.subject
       IN (Pool \div n) + (IF rank < Pool % n THEN 1 ELSE 0)

(* The share of a contribution: by rank among the sorted references.       *)
journalPoints(c, e) ==
  IF e.kind # "contribution" THEN 0
  ELSE LET n == Cardinality(c.checked)
           sorted == ascending(c.checked)
           rank == (CHOOSE i \in 1..n : sorted[i] = e.subject) - 1
       IN (Pool \div n) + (IF rank < Pool % n THEN 1 ELSE 0)

----------------------------------------------------------------------------
(* The program: CommunityJourney::apply.                                   *)

programAccepts(c, e) ==
  /\ wellFormed(e)
  /\ IF e.kind = "created"
     THEN c.next = 0 /\ e.sequence = 0 /\ e.assignment = 0 /\ e.actor = e.subject /\ e.value = 0
     ELSE /\ c.next > 0 /\ e.sequence = c.next
          /\ e.kind \notin {"assigned", "contribution", "gratitude"} => e.assignment = c.assignment
          /\ e.kind \notin {"closed", "gratitude", "relay_requested", "agent_service"} => e.value = 0
          /\ e.kind = "assigned" =>
               /\ c.outcome = 0 /\ e.actor = Rider
               /\ e.subject \notin {Rider, c.guardian}
               /\ e.assignment = c.assignment + 1 /\ hasRoom(c, e.subject)
          /\ e.kind = "check_in" =>
               /\ c.outcome = 0 /\ c.assignment > 0 /\ e.actor = c.guardian /\ e.subject = e.actor
          /\ e.kind = "relay_requested" =>
               /\ c.outcome = 0 /\ c.assignment > 0 /\ e.subject = c.guardian
               /\ \/ e.value = 0 /\ e.actor \in {Rider, c.guardian}
                  \/ e.value = 1 /\ e.actor = Nobody
          /\ e.kind = "agent_service" =>
               /\ c.outcome = 0 /\ c.assignment > 0 /\ e.subject = c.guardian
               /\ \/ e.value \in {0, 3} /\ e.actor = c.guardian
                  \/ e.value \in {1, 2} /\ e.actor = Nobody
          /\ e.kind = "closed" =>
               c.outcome = 0 /\ e.actor = Rider /\ e.subject = Rider /\ e.value \in 1..3
          /\ e.kind = "contribution" =>
               /\ c.outcome = 1 /\ e.actor = e.subject
               /\ e.subject \in joined(c) /\ e.assignment = c.last[e.subject]
               /\ e.subject \in c.checked \ c.credited
          /\ e.kind = "gratitude" =>
               /\ c.outcome # 0 /\ e.actor = Rider /\ e.value \in 1..3
               /\ e.subject \in joined(c) /\ e.assignment = c.last[e.subject]
               /\ e.subject \in c.checked \ c.thanked

(* The share of a contribution: by the number of lower references.         *)
programPoints(c, e) ==
  IF e.kind # "contribution" THEN 0
  ELSE LET n == Cardinality(c.checked)
           lower == Cardinality({g \in c.checked : g < e.subject})
       IN (Pool \div n) + (IF lower < Pool % n THEN 1 ELSE 0)

=============================================================================
