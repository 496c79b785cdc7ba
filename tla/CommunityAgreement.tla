------------------------- MODULE CommunityAgreement -------------------------
(***************************************************************************)
(* Two programs judge the same community events: the journal's applyEvent  *)
(* (src/worker/src/community-ledger.ts) before they are kept, and          *)
(* CommunityJourney::apply on the chain                                    *)
(* (src/contracts/programs/community-ledger/src/lib.rs) when they are      *)
(* published in the same order.  Here both follow one journal, and are     *)
(* asked about every event that could come next.                           *)
(***************************************************************************)
EXTENDS CommunityRules

VARIABLE chronicle

(* The rider is whoever created the journey.                               *)
isRiders(e) == e.kind = "created" => e.actor = Rider

NoEvents == chronicle = Blank

Follow(e) ==
  /\ isRiders(e) /\ journalAccepts(chronicle, e)
  /\ chronicle' = told(chronicle, e)

NextEvent ==
  /\ chronicle.next < MaxEvents
  /\ \E e \in [sequence: {chronicle.next}, kind: Kinds, actor: Members \cup {Nobody},
               subject: Members, assignment: 0..MaxEvents, value: 0..3]: Follow(e)

ChronicleSpec == NoEvents /\ [][NextEvent]_chronicle

----------------------------------------------------------------------------
(* The journal's memory has the shape the code gives it.                   *)
ChronicleTypeOK == chronicle \in Chronicle

(* Events with the sequence number of the first, the next and one beyond.  *)
Offered == [sequence: {0, chronicle.next, chronicle.next + 1}, kind: Kinds, actor: Members \cup {Nobody},
            subject: Members, assignment: 0..MaxEvents, value: 0..3]

(* The chain accepts what the journal accepted, or one record would hold   *)
(* back all later ones for ever; and the journal lets through no less.     *)
SameVerdict ==
  \A e \in Offered:
    isRiders(e) => (journalAccepts(chronicle, e) <=> programAccepts(chronicle, e))

=============================================================================
