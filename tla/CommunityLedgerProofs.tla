------------------------ MODULE CommunityLedgerProofs ------------------------
(***************************************************************************)
(* What the journal of a journey accepts and the program on the chain      *)
(* repeats (CommunityAgreement), how its records are published and         *)
(* withdrawn (CommunityPublication), and how what happens in the journey   *)
(* reaches the journal (CommunityOutbox), for any guardians and any number *)
(* of records, rotations, expired transactions, drafts and failures.       *)
(***************************************************************************)
EXTENDS CommunityPublication, CommunityAgreement, CommunityOutbox, SequenceTheorems, FiniteSetTheorems, WellFoundedInduction, TLAPS

(***************************************************************************)
(* Journal and program give the same verdict on every event.  The two ask  *)
(* in different words: the journal whether there is a guardian, the        *)
(* program whether there was an assignment; the journal who checked in,    *)
(* the program also who joined.  Agreement is therefore not a fact about   *)
(* single events but about the journals that events build up.              *)
(***************************************************************************)

(* An assignment and a guardian come together, and only who was assigned   *)
(* can be the guardian or have checked in.                                 *)
Consistent(c) ==
  /\ (c.guardian = Nobody) <=> (c.assignment = 0)
  /\ \A g \in Guardians: c.guardian = g => c.last[g] > 0
  /\ \A g \in Guardians: g \in c.checked => c.last[g] > 0

ChronicleInv == ChronicleTypeOK /\ Consistent(chronicle)

(* What an accepted event does to each part of the journal's memory.       *)
LEMMA ToldFields ==
  ASSUME NEW c \in Chronicle, NEW e \in Event
  PROVE  /\ told(c, e).next = c.next + 1
         /\ told(c, e).assignment = IF e.kind = "assigned" THEN e.assignment ELSE c.assignment
         /\ told(c, e).guardian = IF e.kind = "assigned" THEN e.subject ELSE c.guardian
         /\ told(c, e).last = IF e.kind = "assigned"
                              THEN [c.last EXCEPT ![e.subject] = e.assignment] ELSE c.last
         /\ told(c, e).outcome = IF e.kind = "closed" THEN e.value ELSE c.outcome
         /\ told(c, e).checked = IF e.kind = "check_in"
                                 THEN c.checked \cup {e.subject} ELSE c.checked
         /\ told(c, e).credited = IF e.kind = "contribution"
                                  THEN c.credited \cup {e.subject} ELSE c.credited
         /\ told(c, e).thanked = IF e.kind = "gratitude"
                                 THEN c.thanked \cup {e.subject} ELSE c.thanked
         /\ told(c, e) = [next |-> told(c, e).next, assignment |-> told(c, e).assignment,
                          guardian |-> told(c, e).guardian, outcome |-> told(c, e).outcome,
                          last |-> told(c, e).last, checked |-> told(c, e).checked,
                          credited |-> told(c, e).credited, thanked |-> told(c, e).thanked]
  BY DEF told

(* Journals stay in shape and consistent.                                  *)
LEMMA ToldConsistent ==
  ASSUME NEW c \in Chronicle, NEW e \in Event,
         Consistent(c), journalAccepts(c, e)
  PROVE  told(c, e) \in Chronicle /\ Consistent(told(c, e))
<1> DEFINE t == told(c, e)
<1>0. Nobody \notin Guardians /\ Rider \notin Guardians /\ Guardians \subseteq Nat
  BY CommunityAssumption DEF Nobody, Rider
<1>1. /\ c.next \in Nat /\ c.assignment \in Nat /\ c.guardian \in Guardians \cup {Nobody}
      /\ c.outcome \in 0..3 /\ c.last \in [Guardians -> Nat] /\ c.checked \subseteq Guardians
      /\ c.credited \subseteq Guardians /\ c.thanked \subseteq Guardians
  BY DEF Chronicle
<1>2. e.subject \in Guardians \cup {Rider} /\ e.assignment \in Nat /\ e.value \in 0..3 /\ e.kind \in Kinds
  BY CommunityAssumption DEF Event, Members
<1>3. CASE e.kind = "assigned"
  <2>1. e.subject \in Guardians /\ e.assignment = c.assignment + 1
    BY <1>2, <1>3 DEF journalAccepts, Rider
  <2>2. /\ t.next = c.next + 1 /\ t.assignment = e.assignment /\ t.guardian = e.subject
        /\ t.last = [c.last EXCEPT ![e.subject] = e.assignment] /\ t.outcome = c.outcome
        /\ t.checked = c.checked /\ t.credited = c.credited /\ t.thanked = c.thanked
    BY <1>3, ToldFields
  <2>3. t \in Chronicle
    <3> HIDE DEF t
    <3>1. t.last \in [Guardians -> Nat]
      BY <1>1, <1>2, <2>1, <2>2
    <3>2. t = [next |-> t.next, assignment |-> t.assignment, guardian |-> t.guardian,
               outcome |-> t.outcome, last |-> t.last, checked |-> t.checked,
               credited |-> t.credited, thanked |-> t.thanked]
      BY ToldFields DEF t
    <3> QED BY <1>1, <1>2, <2>1, <2>2, <3>1, <3>2 DEF Chronicle
  <2>4. Consistent(t)
    <3> HIDE DEF t
    <3>1. \A g \in Guardians: t.last[g] = IF g = e.subject THEN c.assignment + 1 ELSE c.last[g]
      BY <1>1, <2>1, <2>2
    <3> QED BY <1>0, <1>1, <2>1, <2>2, <3>1 DEF Consistent
  <2> QED BY <2>3, <2>4
<1>4. CASE e.kind = "check_in"
  <2>1. e.subject = c.guardian /\ e.subject \in Guardians
    BY <1>0, <1>1, <1>2, <1>4 DEF journalAccepts, Rider, Nobody
  <2>2. /\ t.next = c.next + 1 /\ t.assignment = c.assignment /\ t.guardian = c.guardian
        /\ t.last = c.last /\ t.outcome = c.outcome /\ t.checked = c.checked \cup {e.subject}
        /\ t.credited = c.credited /\ t.thanked = c.thanked
    BY <1>4, ToldFields
  <2>3. t \in Chronicle
    <3> HIDE DEF t
    <3>2. t = [next |-> t.next, assignment |-> t.assignment, guardian |-> t.guardian,
               outcome |-> t.outcome, last |-> t.last, checked |-> t.checked,
               credited |-> t.credited, thanked |-> t.thanked]
      BY ToldFields DEF t
    <3> QED BY <1>1, <2>1, <2>2, <3>2 DEF Chronicle
  <2> QED BY <2>1, <2>2, <2>3 DEF Consistent
<1>5. CASE e.kind \in Kinds \ {"assigned", "check_in"}
  <2>1. e.kind \in {"contribution", "gratitude"} => e.subject \in Guardians
    BY <1>1, <1>2 DEF journalAccepts, journalRecognizes
  <2>2. /\ t.next = c.next + 1 /\ t.assignment = c.assignment /\ t.guardian = c.guardian
        /\ t.last = c.last /\ t.outcome \in 0..3 /\ t.checked = c.checked
        /\ t.credited \subseteq Guardians /\ t.thanked \subseteq Guardians
    <3> HIDE DEF t
    <3>1. /\ t.next = c.next + 1 /\ t.assignment = c.assignment /\ t.guardian = c.guardian
          /\ t.last = c.last /\ t.checked = c.checked
      BY <1>5, ToldFields DEF t
    <3>2. t.outcome = IF e.kind = "closed" THEN e.value ELSE c.outcome
      BY ToldFields DEF t
    <3>3. /\ t.credited = IF e.kind = "contribution" THEN c.credited \cup {e.subject} ELSE c.credited
          /\ t.thanked = IF e.kind = "gratitude" THEN c.thanked \cup {e.subject} ELSE c.thanked
      BY ToldFields DEF t
    <3>4. t.credited \subseteq Guardians /\ t.thanked \subseteq Guardians
      BY <1>1, <2>1, <3>3
    <3> QED BY <1>1, <1>2, <3>1, <3>2, <3>4
  <2>3. t \in Chronicle
    <3> HIDE DEF t
    <3>2. t = [next |-> t.next, assignment |-> t.assignment, guardian |-> t.guardian,
               outcome |-> t.outcome, last |-> t.last, checked |-> t.checked,
               credited |-> t.credited, thanked |-> t.thanked]
      BY ToldFields DEF t
    <3> QED BY <1>1, <2>2, <3>2 DEF Chronicle
  <2> QED BY <2>2, <2>3 DEF Consistent
<1> QED BY <1>2, <1>3, <1>4, <1>5

(* Of a consistent journal both say the same, kind by kind.                *)
LEMMA VerdictsAgree ==
  ASSUME NEW c \in Chronicle, NEW e \in Event, Consistent(c)
  PROVE  journalAccepts(c, e) <=> programAccepts(c, e)
<1>0. Nobody \notin Guardians /\ Rider # Nobody
  BY CommunityAssumption DEF Nobody, Rider
<1>1. /\ c.next \in Nat /\ c.assignment \in Nat /\ c.guardian \in Guardians \cup {Nobody}
      /\ c.outcome \in 0..3 /\ c.checked \subseteq Guardians
  BY DEF Chronicle
<1>2. e.kind \in Kinds /\ e.subject \in Members /\ e.sequence \in Nat /\ e.value \in 0..3
  BY CommunityAssumption DEF Event
<1>3. c.assignment > 0 <=> c.guardian # Nobody
  BY <1>1 DEF Consistent
<1>4. \A g \in c.checked: g \in joined(c)
  BY <1>1 DEF Consistent, joined
<1>5. CASE e.kind = "created"
  BY <1>1, <1>5 DEF journalAccepts, programAccepts
<1>6. CASE e.kind = "assigned"
  BY <1>1, <1>2, <1>6 DEF journalAccepts, programAccepts
<1>7. CASE e.kind = "check_in"
  BY <1>0, <1>1, <1>2, <1>3, <1>7 DEF journalAccepts, programAccepts, wellFormed
<1>8. CASE e.kind = "relay_requested"
  BY <1>1, <1>2, <1>3, <1>8 DEF journalAccepts, programAccepts
<1>9. CASE e.kind = "agent_service"
  BY <1>1, <1>2, <1>3, <1>9 DEF journalAccepts, programAccepts
<1>10. CASE e.kind = "closed"
  BY <1>1, <1>2, <1>10 DEF journalAccepts, programAccepts
<1>11. CASE e.kind = "contribution"
  BY <1>1, <1>2, <1>4, <1>11 DEF journalAccepts, journalRecognizes, programAccepts
<1>12. CASE e.kind = "gratitude"
  BY <1>1, <1>2, <1>4, <1>12 DEF journalAccepts, journalRecognizes, programAccepts
<1> QED BY <1>2, <1>5, <1>6, <1>7, <1>8, <1>9, <1>10, <1>11, <1>12 DEF Kinds

(* The inductive invariant.                                                *)
LEMMA ChronicleKeeps == ChronicleSpec => []ChronicleInv
<1>1. NoEvents => ChronicleInv
  <2> SUFFICES ASSUME NoEvents PROVE ChronicleInv
    OBVIOUS
  <2>1. chronicle \in Chronicle
    BY DEF NoEvents, Blank, Chronicle
  <2>2. Consistent(chronicle)
    BY CommunityAssumption DEF NoEvents, Blank, Consistent, Nobody
  <2> QED BY <2>1, <2>2 DEF ChronicleInv, ChronicleTypeOK
<1>2. ChronicleInv /\ [NextEvent]_chronicle => ChronicleInv'
  <2> SUFFICES ASSUME ChronicleInv, [NextEvent]_chronicle PROVE ChronicleInv'
    OBVIOUS
  <2>1. CASE NextEvent
    <3>1. PICK e \in [sequence: {chronicle.next}, kind: Kinds, actor: Members \cup {Nobody},
                      subject: Members, assignment: 0..MaxEvents, value: 0..3]: Follow(e)
      BY <2>1 DEF NextEvent
    <3>2. e \in Event
      BY <2>1, CommunityAssumption DEF NextEvent, Event, ChronicleInv, ChronicleTypeOK, Chronicle
    <3> QED BY <3>1, <3>2, ToldConsistent DEF Follow, ChronicleInv, ChronicleTypeOK
  <2>2. CASE UNCHANGED chronicle
    BY <2>2 DEF ChronicleInv, ChronicleTypeOK, Consistent
  <2> QED BY <2>1, <2>2
<1> QED BY <1>1, <1>2, PTL DEF ChronicleSpec

(* The journal's memory keeps its shape.                                   *)
THEOREM ChronicleTyped == ChronicleSpec => []ChronicleTypeOK
<1>1. ChronicleInv => ChronicleTypeOK
  BY DEF ChronicleInv
<1> QED BY ChronicleKeeps, <1>1, PTL

(* applyEvent and CommunityJourney::apply accept the same events: what the *)
(* journal keeps, the chain never refuses.                                 *)
THEOREM ProgramAgrees == ChronicleSpec => []SameVerdict
<1>1. ChronicleInv => SameVerdict
  <2> SUFFICES ASSUME ChronicleInv, NEW e \in Offered
               PROVE  journalAccepts(chronicle, e) <=> programAccepts(chronicle, e)
    BY DEF SameVerdict
  <2>1. chronicle \in Chronicle /\ Consistent(chronicle)
    BY DEF ChronicleInv, ChronicleTypeOK
  <2>2. {0, chronicle.next, chronicle.next + 1} \subseteq Nat
    BY <2>1 DEF Chronicle
  <2>3. e \in Event
    BY <2>2 DEF Offered, Event
  <2> QED BY <2>1, <2>3, VerdictsAgree
<1> QED BY ChronicleKeeps, <1>1, PTL

----------------------------------------------------------------------------
(***************************************************************************)
(* Publication.  One alarm at a time writes the records: what it has read  *)
(* of a record is what is stored until it stores the next version, unless  *)
(* it is gone.                                                             *)
(***************************************************************************)

(* A transaction that may still land is the one its record has stored.     *)
Submissions ==
  /\ \A i \in DOMAIN rows: rows[i].submission \in 0..Len(signed)
  /\ \A t \in DOMAIN signed: signed[t].live =>
       /\ signed[t].sequence + 1 \in DOMAIN rows
       /\ rows[signed[t].sequence + 1].submission = t

(* The publisher works on the first record that is not finalized.          *)
Publisher ==
  work.at \in Publishing =>
    /\ work.row = rows[work.sequence + 1]
    /\ ~finalized(work.sequence) /\ \A j \in 0..work.sequence - 1: finalized(j)
    /\ work.at \in {"persisted", "sending", "sent"} => work.row.submission \in 1..Len(signed)

(* A correction that is under way or settled has a draft.                  *)
Corrections ==
  /\ correction.status = "finalized" => correction.draft # None
  /\ correction.status # "finalized" =>
       correction.draft \in 0..Len(drafts) /\ (correction.submission => correction.draft # None)
  /\ work.at = "correcting" =>
       /\ correction.status # "finalized" /\ work.correction.status # "finalized"
       /\ work.correction.submission /\ work.correction.draft \in 1..Len(drafts)

PublicationInv ==
  TypeOK /\ Submissions /\ Publisher /\ Corrections /\ ConfirmedInOrder /\ WithdrawnTogether

(* What the records, the transactions and the work are made of.            *)
LEMMA Shape ==
  ASSUME PublicationInv
  PROVE  /\ rows \in Seq(Row) /\ Len(rows) \in Nat /\ DOMAIN rows = 1..Len(rows)
         /\ \A i \in 1..Len(rows): rows[i] \in Row
         /\ signed \in Seq(Signed) /\ Len(signed) \in Nat /\ DOMAIN signed = 1..Len(signed)
         /\ \A t \in 1..Len(signed): signed[t] \in Signed
         /\ drafts \in Seq(Draft) /\ Len(drafts) \in Nat /\ DOMAIN drafts = 1..Len(drafts)
         /\ chain.receipts \in Seq(Receipt) /\ Len(chain.receipts) \in Nat
         /\ DOMAIN chain.receipts = 1..Len(chain.receipts)
         /\ \A i \in 1..Len(chain.receipts): chain.receipts[i] \in Receipt
         /\ chain.withdrawal \in Nat /\ chain.issuer \in Nat \ {0}
         /\ expiries \in Nat /\ failures \in Nat
         /\ work.at \in Publishing =>
              work.sequence \in Nat /\ work.sequence + 1 \in 1..Len(rows) /\ work.row \in Row
<1>0. TypeOK
  BY DEF PublicationInv
<1>1. /\ rows \in Seq(Row) /\ Len(rows) \in Nat /\ DOMAIN rows = 1..Len(rows)
      /\ \A i \in 1..Len(rows): rows[i] \in Row
  BY <1>0, LenProperties, ElementOfSeq DEF TypeOK
<1>2. /\ signed \in Seq(Signed) /\ Len(signed) \in Nat /\ DOMAIN signed = 1..Len(signed)
      /\ \A t \in 1..Len(signed): signed[t] \in Signed
  BY <1>0, LenProperties, ElementOfSeq DEF TypeOK
<1>3. drafts \in Seq(Draft) /\ Len(drafts) \in Nat /\ DOMAIN drafts = 1..Len(drafts)
  BY <1>0, LenProperties DEF TypeOK
<1>4. chain.receipts \in Seq(Receipt) /\ chain.withdrawal \in Nat /\ chain.issuer \in Nat \ {0}
  BY <1>0 DEF TypeOK, Chain
<1>5. /\ Len(chain.receipts) \in Nat /\ DOMAIN chain.receipts = 1..Len(chain.receipts)
      /\ \A i \in 1..Len(chain.receipts): chain.receipts[i] \in Receipt
  BY <1>4, LenProperties, ElementOfSeq
<1>6. expiries \in Nat /\ failures \in Nat
  BY <1>0, PublicationAssumption DEF TypeOK
<1>7. work.at \in Publishing =>
        work.sequence \in Nat /\ work.sequence + 1 \in 1..Len(rows) /\ work.row \in Row
  BY <1>0, <1>1 DEF TypeOK, Publishing, Resting
<1> QED BY <1>1, <1>2, <1>3, <1>4, <1>5, <1>6, <1>7

LEMMA AtWork ==
  ASSUME PublicationInv, work.at \in Publishing
  PROVE  work \in [at: Publishing, sequence: 0..Len(rows) - 1, row: Row, correction: {NoCorrection}]
<1>1. work # Resting
  BY DEF Resting, Publishing
<1>2. work \notin [at: {"correcting"}, sequence: {Idle}, row: {NoRow}, correction: Correction]
  BY DEF Publishing
<1> QED BY <1>1, <1>2 DEF PublicationInv, TypeOK

(* Storing a row changes no other.                                         *)
LEMMA SavedRows ==
  ASSUME PublicationInv, work.at \in Publishing, NEW row \in Row, Saved(row)
  PROVE  /\ rows' \in Seq(Row) /\ Len(rows') = Len(rows) /\ DOMAIN rows' = 1..Len(rows)
         /\ \A i \in 1..Len(rows): rows'[i] = IF i = work.sequence + 1 THEN row ELSE rows[i]
BY Shape, ExceptSeq DEF Saved

(* Once a record is stored and the work done, all is as it should be: the  *)
(* submission is kept, and finalized is what the chain has by its issuer.  *)
LEMMA StoredOutcome ==
  ASSUME PublicationInv, work.at \in Publishing, NEW row \in Row, Saved(row),
         row.submission = work.row.submission, row.withdrawn = work.row.withdrawn,
         row.status = "finalized" =>
           onChain(work.sequence) /\ row.issuer = chain.receipts[work.sequence + 1].issuer,
         work' = Resting, failures' \in 0..MaxFailures,
         UNCHANGED <<signed, chain, correction, drafts, preparing, expiries>>, key' \in Nat \ {0}
  PROVE  PublicationInv'
<1> DEFINE s == work.sequence
<1>1. /\ rows' \in Seq(Row) /\ Len(rows') = Len(rows) /\ DOMAIN rows' = 1..Len(rows)
      /\ \A i \in 1..Len(rows): rows'[i] = IF i = s + 1 THEN row ELSE rows[i]
  BY SavedRows
<1>2. /\ Len(rows) \in Nat /\ DOMAIN rows = 1..Len(rows) /\ s \in Nat /\ s + 1 \in 1..Len(rows)
  BY Shape
<1>3. /\ work.row = rows[s + 1] /\ rows[s + 1].status # "finalized"
      /\ \A j \in 0..s - 1: rows[j + 1].status = "finalized"
  BY DEF PublicationInv, Publisher, finalized
<1>r. work'.at \notin Publishing /\ work'.at # "correcting"
  BY DEF Resting, Publishing
<1>4. TypeOK'
  BY <1>1, <1>2 DEF PublicationInv, TypeOK
<1>5. Submissions'
  <2>1. \A i \in 1..Len(rows): rows'[i].submission = rows[i].submission
    BY <1>1, <1>3
  <2> QED BY <1>1, <1>2, <2>1 DEF PublicationInv, Submissions
<1>6. Publisher' /\ Corrections'
  BY <1>r DEF PublicationInv, Publisher, Corrections
<1>7. ConfirmedInOrder'
  <2> SUFFICES ASSUME NEW i \in 0..Len(rows) - 1, rows'[i + 1].status = "finalized"
               PROVE  /\ onChain(i) /\ rows'[i + 1].issuer = chain.receipts[i + 1].issuer
                      /\ \A j \in 0..i: rows'[j + 1].status = "finalized"
    BY <1>1 DEF ConfirmedInOrder, finalized, onChain
  <2>0. i \in Nat /\ i + 1 \in 1..Len(rows)
    BY <1>2
  <2>1. \A k \in 0..Len(rows) - 1: rows[k + 1].status = "finalized" =>
          /\ onChain(k) /\ rows[k + 1].issuer = chain.receipts[k + 1].issuer
          /\ \A j \in 0..k: rows[j + 1].status = "finalized"
    BY DEF PublicationInv, ConfirmedInOrder, finalized
  <2>2. CASE i = s
    <3>1. rows'[i + 1] = row
      BY <1>1, <2>0, <2>2
    <3>2. \A j \in 0..s - 1: rows'[j + 1].status = "finalized"
      BY <1>1, <1>2, <1>3
    <3> QED BY <1>2, <2>2, <3>1, <3>2
  <2>3. CASE i # s
    <3>1. rows[i + 1].status = "finalized"
      BY <1>1, <1>2, <2>0, <2>3
    <3>2. /\ onChain(i) /\ rows[i + 1].issuer = chain.receipts[i + 1].issuer
          /\ \A j \in 0..i: rows[j + 1].status = "finalized"
      BY <2>1, <3>1
    <3>3. s \notin 0..i
      BY <1>3, <3>2
    <3>4. \A j \in 0..i: rows'[j + 1].status = "finalized"
      BY <1>1, <1>2, <2>0, <3>2, <3>3
    <3> QED BY <1>1, <1>2, <2>0, <2>3, <3>2, <3>4
  <2> QED BY <2>2, <2>3
<1>8. WithdrawnTogether'
  <2>1. \A i \in 1..Len(rows): rows'[i].withdrawn = rows[i].withdrawn
    BY <1>1, <1>3
  <2> QED BY <1>1, <1>2, <2>1 DEF PublicationInv, WithdrawnTogether
<1> QED BY <1>4, <1>5, <1>6, <1>7, <1>8 DEF PublicationInv

(* The publisher goes on to its next call.                                 *)
LEMMA NextCall ==
  ASSUME PublicationInv, work.at \in Publishing, NEW to \in Publishing,
         to \in {"persisted", "sending", "sent"} => work.row.submission \in 1..Len(signed),
         work' = [work EXCEPT !.at = to],
         UNCHANGED <<rows, signed, chain, key, correction, drafts, preparing, expiries, failures>>
  PROVE  PublicationInv'
<1>0. work \in [at: Publishing, sequence: 0..Len(rows) - 1, row: Row, correction: {NoCorrection}]
  BY AtWork
<1>1. work' \in [at: Publishing, sequence: 0..Len(rows) - 1, row: Row, correction: {NoCorrection}]
  BY <1>0
<1>9. work'.at = to /\ work'.sequence = work.sequence /\ work'.row = work.row
  BY <1>0
<1>2. to # "correcting"
  BY DEF Publishing
<1>3. TypeOK'
  BY <1>1 DEF PublicationInv, TypeOK
<1>4. Submissions' /\ ConfirmedInOrder' /\ WithdrawnTogether'
  BY DEF PublicationInv, Submissions, ConfirmedInOrder, WithdrawnTogether, finalized, onChain
<1>5. Publisher' /\ Corrections'
  BY <1>9, <1>2 DEF PublicationInv, Publisher, Corrections, finalized
<1> QED BY <1>3, <1>4, <1>5 DEF PublicationInv

(* The publication begins with nothing, and a record starts with the       *)
(* first that is not finalized.                                            *)
LEMMA InitialPublication == Init => PublicationInv
<1> SUFFICES ASSUME Init PROVE PublicationInv
  OBVIOUS
<1>1. /\ rows = <<>> /\ signed = <<>> /\ drafts = <<>> /\ key = 1
      /\ chain = [receipts |-> <<>>, withdrawal |-> None, issuer |-> 1]
      /\ work = Resting /\ correction = NoCorrection /\ preparing = Idle
      /\ expiries = 0 /\ failures = 0
  BY DEF Init
<1>2. work.at = "resting" /\ Len(rows) = 0 /\ DOMAIN rows = {} /\ DOMAIN signed = {}
  BY <1>1, EmptySeq DEF Resting
<1>3. correction.status = "none" /\ ~correction.submission /\ correction \in Correction
  BY <1>1 DEF NoCorrection, Correction, None
<1>4. rows \in Seq(Row) /\ signed \in Seq(Signed) /\ drafts \in Seq(Draft) /\ chain \in Chain
  <2>1. chain.receipts \in Seq(Receipt)
    BY <1>1, EmptySeq
  <2> QED BY <1>1, <2>1, EmptySeq DEF Chain, None
<1>5. TypeOK
  BY <1>1, <1>3, <1>4, PublicationAssumption DEF TypeOK
<1>6. Submissions /\ ConfirmedInOrder /\ WithdrawnTogether
  BY <1>2, <1>3 DEF Submissions, ConfirmedInOrder, WithdrawnTogether
<1>7. Publisher /\ Corrections
  <2>1. correction.draft = 0 /\ Len(drafts) = 0
    BY <1>1, EmptySeq DEF NoCorrection, None
  <2> QED BY <1>2, <1>3, <2>1 DEF Publisher, Corrections, Publishing
<1> QED BY <1>5, <1>6, <1>7 DEF PublicationInv

(* A new record starts pending, withdrawn if the journal is.               *)
LEMMA AppendRecordKeeps == PublicationInv /\ AppendRecord => PublicationInv'
<1> SUFFICES ASSUME PublicationInv, AppendRecord PROVE PublicationInv'
  OBVIOUS
<1> DEFINE n == Len(rows) + 1
<1>0. /\ rows \in Seq(Row) /\ Len(rows) \in Nat /\ DOMAIN rows = 1..Len(rows) /\ DOMAIN signed = 1..Len(signed)
      /\ work.at \in Publishing => work.sequence \in Nat /\ work.sequence + 1 \in 1..Len(rows)
  BY Shape
<1>1. /\ New \in Row /\ New.submission = None /\ New.status # "finalized"
      /\ New.withdrawn <=> correction.status = "finalized"
  BY DEF New, NoRow, Row, None
<1>2. /\ rows' \in Seq(Row) /\ Len(rows') = n /\ DOMAIN rows' = 1..n
      /\ \A i \in 1..Len(rows): rows'[i] = rows[i]
      /\ rows'[n] = New
  BY <1>0, <1>1, AppendProperties, LenProperties DEF AppendRecord
<1>3. UNCHANGED <<signed, chain, key, work, correction, drafts, preparing, expiries, failures>>
  BY DEF AppendRecord
<1>4. TypeOK'
  <2>1. 0..Len(rows) - 1 \subseteq 0..Len(rows') - 1
    BY <1>0, <1>2
  <2>2. \/ work = Resting
        \/ work \in [at: Publishing, sequence: 0..Len(rows') - 1, row: Row, correction: {NoCorrection}]
        \/ work \in [at: {"correcting"}, sequence: {Idle}, row: {NoRow}, correction: Correction]
    BY <2>1 DEF PublicationInv, TypeOK
  <2> QED BY <1>2, <1>3, <2>2 DEF PublicationInv, TypeOK
<1>5. Submissions'
  <2>1. \A i \in 1..n: rows'[i].submission \in 0..Len(signed)
    <3> TAKE i \in 1..n
    <3>1. CASE i = n
      BY <1>1, <1>2, <3>1, Shape DEF None
    <3>2. CASE i # n
      BY <1>0, <1>2, <3>2 DEF PublicationInv, Submissions
    <3> QED BY <3>1, <3>2
  <2> QED BY <1>0, <1>2, <1>3, <2>1 DEF PublicationInv, Submissions
<1>6. Publisher'
  <2> SUFFICES ASSUME work.at \in Publishing PROVE Publisher'
    BY <1>3 DEF Publisher
  <2>1. /\ work.row = rows[work.sequence + 1] /\ rows[work.sequence + 1].status # "finalized"
        /\ \A j \in 0..work.sequence - 1: rows[j + 1].status = "finalized"
        /\ work.at \in {"persisted", "sending", "sent"} => work.row.submission \in 1..Len(signed)
    BY DEF PublicationInv, Publisher, finalized
  <2>2. \A j \in 0..work.sequence: rows'[j + 1] = rows[j + 1]
    BY <1>0, <1>2
  <2>3. PICK k \in Nat : k = work.sequence
    BY <1>0
  <2>4. work' = work /\ signed' = signed
    BY <1>3
  <2>5. k \in 0..k /\ \A j \in 0..k - 1 : j \in 0..k
    OBVIOUS
  <2>6. work'.row = rows'[k + 1] /\ rows'[k + 1].status # "finalized"
    BY <2>1, <2>2, <2>3, <2>4, <2>5
  <2>7. \A j \in 0..k - 1 : rows'[j + 1].status = "finalized"
    BY <2>1, <2>2, <2>3, <2>5
  <2> QED BY <2>1, <2>3, <2>4, <2>6, <2>7 DEF Publisher, finalized
<1>7. ConfirmedInOrder'
  <2> SUFFICES ASSUME NEW i \in 0..n - 1, rows'[i + 1].status = "finalized"
               PROVE  /\ onChain(i) /\ rows'[i + 1].issuer = chain.receipts[i + 1].issuer
                      /\ \A j \in 0..i: rows'[j + 1].status = "finalized"
    BY <1>2, <1>3 DEF ConfirmedInOrder, finalized, onChain
  <2>1. i \in 0..Len(rows) - 1
    BY <1>0, <1>1, <1>2
  <2>2. \A j \in 0..i: rows'[j + 1] = rows[j + 1]
    BY <1>0, <1>2, <2>1
  <2>3. i \in 0..i
    OBVIOUS
  <2>4. rows'[i + 1] = rows[i + 1]
    BY <2>2, <2>3
  <2>5. rows[i + 1].status = "finalized"
    BY <2>4
  <2>6. /\ onChain(i) /\ rows[i + 1].issuer = chain.receipts[i + 1].issuer
        /\ \A j \in 0..i: rows[j + 1].status = "finalized"
    BY <2>1, <2>5 DEF PublicationInv, ConfirmedInOrder, finalized
  <2>7. \A j \in 0..i: rows'[j + 1].status = "finalized"
    BY <2>2, <2>6
  <2> QED BY <2>4, <2>6, <2>7
<1>8. Corrections'
  BY <1>3 DEF PublicationInv, Corrections
<1>9. WithdrawnTogether'
  <2>1. \A i \in 1..n: rows'[i].withdrawn <=> correction.status = "finalized"
    <3> TAKE i \in 1..n
    <3>1. CASE i = n
      BY <1>1, <1>2, <3>1
    <3>2. CASE i # n
      BY <1>0, <1>2, <3>2 DEF PublicationInv, WithdrawnTogether
    <3> QED BY <3>1, <3>2
  <2> QED BY <1>2, <1>3, <2>1 DEF PublicationInv, WithdrawnTogether
<1> QED BY <1>4, <1>5, <1>6, <1>7, <1>8, <1>9 DEF PublicationInv

LEMMA StartPublishKeeps == PublicationInv /\ StartPublish => PublicationInv'
<1> SUFFICES ASSUME PublicationInv, StartPublish PROVE PublicationInv'
  OBVIOUS
<1>0. /\ Len(rows) \in Nat /\ \A i \in 1..Len(rows): rows[i] \in Row
  BY Shape
<1>1. PICK i \in unfinished:
        /\ \A j \in unfinished: i <= j
        /\ work' = [Resting EXCEPT !.at = "preparing", !.sequence = i, !.row = rows[i + 1]]
  BY DEF StartPublish
<1>2. UNCHANGED <<rows, signed, chain, key, correction, drafts, preparing, expiries, failures>>
  BY DEF StartPublish
<1>3. i \in 0..Len(rows) - 1 /\ rows[i + 1].status # "finalized" /\ rows[i + 1] \in Row
  BY <1>0, <1>1 DEF unfinished, finalized
<1>4. \A j \in 0..i - 1: rows[j + 1].status = "finalized"
  BY <1>0, <1>1, <1>3 DEF unfinished, finalized
<1>5. work'.at = "preparing" /\ work'.sequence = i /\ work'.row = rows[i + 1]
  BY <1>1 DEF Resting
<1>6. work' \in [at: Publishing, sequence: 0..Len(rows) - 1, row: Row, correction: {NoCorrection}]
  BY <1>1, <1>3 DEF Resting, Publishing
<1>7. TypeOK'
  BY <1>2, <1>6 DEF PublicationInv, TypeOK
<1>8. Submissions' /\ ConfirmedInOrder' /\ WithdrawnTogether'
  BY <1>2 DEF PublicationInv, Submissions, ConfirmedInOrder, WithdrawnTogether, finalized, onChain
<1>9. Publisher' /\ Corrections'
  BY <1>2, <1>3, <1>4, <1>5 DEF PublicationInv, Publisher, Corrections, finalized
<1> QED BY <1>7, <1>8, <1>9 DEF PublicationInv

(* A failed call leaves the row it read, to be tried again.                *)
LEMMA RetryKeeps ==
  ASSUME PublicationInv, work.at \in Publishing, Retry, failures' \in 0..MaxFailures
  PROVE  PublicationInv'
<1> DEFINE row == [work.row EXCEPT !.status = "retry"]
<1>1. work.row \in Row
  BY Shape
<1>2. /\ row \in Row /\ row.submission = work.row.submission /\ row.withdrawn = work.row.withdrawn
      /\ row.status # "finalized"
  BY <1>1 DEF Row
<1>3. /\ Saved(row) /\ work' = Resting
      /\ UNCHANGED <<signed, chain, key, correction, drafts, preparing, expiries>>
  BY DEF Retry
<1>4. key' \in Nat \ {0}
  BY <1>3 DEF PublicationInv, TypeOK
<1> QED BY <1>2, <1>3, <1>4, StoredOutcome

LEMMA PublishFailsKeeps == PublicationInv /\ PublishFails => PublicationInv'
<1> SUFFICES ASSUME PublicationInv, PublishFails PROVE PublicationInv'
  OBVIOUS
<1>1. failures' \in 0..MaxFailures
  BY PublicationAssumption, Shape DEF PublishFails
<1> QED BY <1>1, RetryKeeps DEF PublishFails

(* Calls that do not fail leave the counts of failures alone.              *)
LEMMA Unfailing ==
  ASSUME PublicationInv, UNCHANGED failures
  PROVE  failures' \in 0..MaxFailures
BY DEF PublicationInv, TypeOK

LEMMA ConnectKeeps == PublicationInv /\ Connect => PublicationInv'
<1> SUFFICES ASSUME PublicationInv, Connect PROVE PublicationInv'
  OBVIOUS
<1>1. work.at \in Publishing /\ "connected" \in Publishing
  BY DEF Connect, Publishing
<1>2. CASE /\ key = chain.issuer /\ work' = [work EXCEPT !.at = "connected"]
           /\ UNCHANGED <<rows, signed, chain, key, correction, drafts, preparing, expiries, failures>>
  BY <1>1, <1>2, NextCall
<1>3. CASE key # chain.issuer /\ Retry /\ UNCHANGED failures
  BY <1>1, <1>3, RetryKeeps, Unfailing
<1> QED BY <1>2, <1>3 DEF Connect

(* A receipt that was found ends the work, by the issuer it names or not   *)
(* at all.                                                                 *)
LEMMA FoundReceiptKeeps ==
  ASSUME PublicationInv, work.at \in Publishing, FoundReceipt
  PROVE  PublicationInv'
<1> DEFINE receipt == chain.receipts[work.sequence + 1]
           good == [work.row EXCEPT !.status = "finalized", !.issuer = receipt.issuer]
           bad == [work.row EXCEPT !.status = "retry"]
<1>0. /\ onChain(work.sequence) /\ work' = Resting
      /\ UNCHANGED <<signed, chain, key, correction, drafts, preparing, expiries, failures>>
      /\ Saved(IF verified(work.row, receipt) THEN good ELSE bad)
  BY DEF FoundReceipt
<1>1. work.row \in Row /\ work.sequence \in Nat
  BY Shape
<1>2. receipt \in Receipt
  BY <1>0, <1>1, Shape DEF onChain
<1>3. key' \in Nat \ {0} /\ failures' \in 0..MaxFailures
  BY <1>0 DEF PublicationInv, TypeOK
<1>4. CASE verified(work.row, receipt)
  <2>1. /\ good \in Row /\ good.submission = work.row.submission /\ good.withdrawn = work.row.withdrawn
        /\ good.issuer = receipt.issuer
    BY <1>1, <1>2 DEF Row, Receipt
  <2>2. Saved(good)
    BY <1>0, <1>4
  <2> HIDE DEF good
  <2> QED BY <1>0, <1>3, <2>1, <2>2, StoredOutcome
<1>5. CASE ~verified(work.row, receipt)
  <2>1. /\ bad \in Row /\ bad.submission = work.row.submission /\ bad.withdrawn = work.row.withdrawn
        /\ bad.status # "finalized"
    BY <1>1 DEF Row
  <2>2. Saved(bad)
    BY <1>0, <1>5
  <2> HIDE DEF bad
  <2> QED BY <1>0, <1>3, <2>1, <2>2, StoredOutcome
<1> QED BY <1>4, <1>5

LEMMA LookUpKeeps ==
  ASSUME PublicationInv, NEW from \in Publishing, NEW to \in Publishing, LookUp(from, to),
         to \in {"persisted", "sending", "sent"} => from \in {"persisted", "sending", "sent"}
  PROVE  PublicationInv'
<1>1. work.at = from
  BY DEF LookUp
<1>2. CASE FoundReceipt
  BY <1>1, <1>2, FoundReceiptKeeps
<1>3. CASE /\ ~onChain(work.sequence) /\ work' = [work EXCEPT !.at = to]
           /\ UNCHANGED <<rows, signed, chain, key, correction, drafts, preparing, expiries, failures>>
  <2>1. to \in {"persisted", "sending", "sent"} => work.row.submission \in 1..Len(signed)
    BY <1>1 DEF PublicationInv, Publisher
  <2> QED BY <1>1, <1>3, <2>1, NextCall
<1> QED BY <1>2, <1>3 DEF LookUp

LEMMA LookForReceiptKeeps == PublicationInv /\ LookForReceipt => PublicationInv'
<1>1. "connected" \in Publishing /\ "unseen" \in Publishing
  BY DEF Publishing
<1> QED BY <1>1, LookUpKeeps DEF LookForReceipt

LEMMA LookAgainKeeps == PublicationInv /\ LookAgain => PublicationInv'
<1> SUFFICES ASSUME PublicationInv, LookAgain PROVE PublicationInv'
  OBVIOUS
<1>1. "persisted" \in Publishing /\ "sending" \in Publishing
  BY DEF Publishing
<1>2. CASE LookUp("persisted", "sending")
  BY <1>1, <1>2, LookUpKeeps
<1>3. CASE work.at = "persisted" /\ key # chain.issuer /\ Retry /\ UNCHANGED failures
  BY <1>1, <1>3, RetryKeeps, Unfailing
<1> QED BY <1>2, <1>3 DEF LookAgain

LEMMA LookAfterKeeps == PublicationInv /\ LookAfter => PublicationInv'
<1> SUFFICES ASSUME PublicationInv, LookAfter PROVE PublicationInv'
  OBVIOUS
<1>1. work.at \in Publishing
  BY DEF LookAfter, Publishing
<1>2. CASE FoundReceipt
  BY <1>1, <1>2, FoundReceiptKeeps
<1>3. CASE /\ ~onChain(work.sequence) /\ Saved(work.row) /\ work' = Resting
           /\ UNCHANGED <<signed, chain, key, correction, drafts, preparing, expiries, failures>>
  <2>1. /\ work.row \in Row /\ work.row.status # "finalized"
    BY <1>1, Shape DEF PublicationInv, Publisher, finalized
  <2>2. key' \in Nat \ {0} /\ failures' \in 0..MaxFailures
    BY <1>3 DEF PublicationInv, TypeOK
  <2> QED BY <1>1, <1>3, <2>1, <2>2, StoredOutcome
<1> QED BY <1>2, <1>3 DEF LookAfter

(* What a transaction is does not change when it is sent or runs out.      *)
LEMMA AgedTransaction ==
  ASSUME PublicationInv, NEW t \in 1..Len(signed), NEW aged \in Signed,
         aged.sequence = signed[t].sequence, aged.live => signed[t].live,
         signed' = [signed EXCEPT ![t] = aged],
         UNCHANGED <<rows, chain, key, correction, drafts, preparing, failures>>,
         expiries' \in 0..MaxExpiries,
         work' = work \/ (work.at = "sending" /\ work' = [work EXCEPT !.at = "sent"])
  PROVE  PublicationInv'
<1>1. /\ signed' \in Seq(Signed) /\ Len(signed') = Len(signed) /\ DOMAIN signed' = 1..Len(signed)
      /\ \A u \in 1..Len(signed): signed'[u] = IF u = t THEN aged ELSE signed[u]
  BY Shape, ExceptSeq
<1>5. Submissions' /\ ConfirmedInOrder' /\ WithdrawnTogether'
  <2>1. Submissions'
    BY <1>1, Shape DEF PublicationInv, Submissions
  <2>2. ConfirmedInOrder' /\ WithdrawnTogether'
    BY DEF PublicationInv, ConfirmedInOrder, WithdrawnTogether, finalized, onChain
  <2> QED BY <2>1, <2>2
<1>2. CASE work' = work
  <2>1. TypeOK'
    BY <1>1, <1>2 DEF PublicationInv, TypeOK
  <2>2. Publisher' /\ Corrections'
    BY <1>1, <1>2 DEF PublicationInv, Publisher, Corrections, finalized
  <2> QED BY <2>1, <2>2, <1>5 DEF PublicationInv
<1>3. CASE work.at = "sending" /\ work' = [work EXCEPT !.at = "sent"]
  <2>1. work \in [at: Publishing, sequence: 0..Len(rows) - 1, row: Row, correction: {NoCorrection}]
    BY <1>3, AtWork DEF Publishing
  <2>2. work' \in [at: Publishing, sequence: 0..Len(rows) - 1, row: Row, correction: {NoCorrection}]
    BY <1>3, <2>1 DEF Publishing
  <2>3. work'.at = "sent" /\ work'.sequence = work.sequence /\ work'.row = work.row
    BY <1>3, <2>1
  <2>4. TypeOK'
    BY <1>1, <2>2 DEF PublicationInv, TypeOK
  <2>5. Publisher'
    BY <1>1, <1>3, <2>3 DEF PublicationInv, Publisher, Publishing, finalized
  <2>6. Corrections'
    BY <2>3 DEF PublicationInv, Corrections
  <2> QED BY <2>4, <2>5, <2>6, <1>5 DEF PublicationInv
<1> QED BY <1>2, <1>3

(* The alarm can have died at any call.                                    *)
LEMMA AlarmEnds ==
  ASSUME PublicationInv, work' = Resting,
         UNCHANGED <<rows, signed, chain, correction, drafts, expiries>>,
         key' \in Nat \ {0}, preparing' \in Nat \cup {Idle}, failures' \in 0..MaxFailures
  PROVE  PublicationInv'
<1>1. work'.at \notin Publishing /\ work'.at # "correcting"
  BY DEF Resting, Publishing
<1>2. TypeOK'
  BY DEF PublicationInv, TypeOK
<1>3. Submissions' /\ ConfirmedInOrder' /\ WithdrawnTogether'
  BY DEF PublicationInv, Submissions, ConfirmedInOrder, WithdrawnTogether, finalized, onChain
<1>4. Publisher' /\ Corrections'
  BY <1>1 DEF PublicationInv, Publisher, Corrections
<1> QED BY <1>2, <1>3, <1>4 DEF PublicationInv

LEMMA RestartKeeps == PublicationInv /\ (Restart \/ Deploy) => PublicationInv'
<1> SUFFICES ASSUME PublicationInv, Restart \/ Deploy PROVE PublicationInv'
  OBVIOUS
<1>1. CASE Restart
  <2>1. /\ work' = Resting /\ key' \in Nat \ {0} /\ preparing' \in Nat \cup {Idle} /\ failures' \in 0..MaxFailures
        /\ UNCHANGED <<rows, signed, chain, correction, drafts, expiries>>
    BY <1>1, Shape, PublicationAssumption DEF Restart, PublicationInv, TypeOK
  <2> QED BY <2>1, AlarmEnds
<1>2. CASE Deploy
  <2>1. /\ work' = Resting /\ key' \in Nat \ {0} /\ preparing' \in Nat \cup {Idle} /\ failures' \in 0..MaxFailures
        /\ UNCHANGED <<rows, signed, chain, correction, drafts, expiries>>
    BY <1>2, Shape DEF Deploy, PublicationInv, TypeOK
  <2> QED BY <2>1, AlarmEnds
<1> QED BY <1>1, <1>2

LEMMA SendKeeps == PublicationInv /\ Send => PublicationInv'
<1> SUFFICES ASSUME PublicationInv, Send PROVE PublicationInv'
  OBVIOUS
<1> DEFINE t == work.row.submission
           aged == [signed[t] EXCEPT !.sent = TRUE]
<1>1. work.at \in Publishing /\ work.at = "sending"
  BY DEF Send, Publishing
<1>2. t \in 1..Len(signed)
  BY <1>1 DEF PublicationInv, Publisher
<1>3. CASE /\ signed[t].live /\ signed' = [signed EXCEPT ![t].sent = TRUE]
           /\ work' = [work EXCEPT !.at = "sent"]
           /\ UNCHANGED <<rows, chain, key, correction, drafts, preparing, expiries, failures>>
  <2>1. aged \in Signed /\ aged.sequence = signed[t].sequence /\ (aged.live => signed[t].live)
    BY <1>2, Shape DEF Signed
  <2>2. signed' = [signed EXCEPT ![t] = aged]
    BY <1>3
  <2>3. expiries' \in 0..MaxExpiries
    BY <1>3 DEF PublicationInv, TypeOK
  <2> HIDE DEF t, aged
  <2> QED BY <1>1, <1>2, <1>3, <2>1, <2>2, <2>3, AgedTransaction
<1>4. CASE ~signed[t].live /\ Retry /\ UNCHANGED failures
  BY <1>1, <1>4, RetryKeeps, Unfailing
<1> QED BY <1>3, <1>4 DEF Send

LEMMA ExpireKeeps ==
  ASSUME PublicationInv, NEW t \in DOMAIN signed, Expire(t)
  PROVE  PublicationInv'
<1> DEFINE aged == [signed[t] EXCEPT !.live = FALSE]
<1>1. t \in 1..Len(signed)
  BY Shape
<1>2. aged \in Signed /\ aged.sequence = signed[t].sequence /\ ~aged.live
  BY <1>1, Shape DEF Signed
<1>3. signed' = [signed EXCEPT ![t] = aged]
  BY DEF Expire
<1>4. expiries' \in 0..MaxExpiries
  BY PublicationAssumption DEF Expire, PublicationInv, TypeOK
<1>5. UNCHANGED <<rows, chain, key, work, correction, drafts, preparing, failures>>
  BY DEF Expire
<1> HIDE DEF aged
<1> QED BY <1>1, <1>2, <1>3, <1>4, <1>5, AgedTransaction

(* A new transaction of a record replaces one that cannot land any more:   *)
(* the one stored, since no other of that record ever could.               *)
LEMMA PersistKeeps == PublicationInv /\ Persist => PublicationInv'
<1> SUFFICES ASSUME PublicationInv, Persist PROVE PublicationInv'
  OBVIOUS
<1> DEFINE s == work.sequence
           n == Len(signed) + 1
           fresh == [sequence |-> s, issuer |-> key, live |-> TRUE, sent |-> FALSE]
<1>0. work.at = "unseen" /\ work.at \in Publishing
  BY DEF Persist, Publishing
<1>1. /\ Len(rows) \in Nat /\ DOMAIN rows = 1..Len(rows) /\ s \in Nat /\ s + 1 \in 1..Len(rows)
      /\ work.row \in Row /\ Len(signed) \in Nat /\ DOMAIN signed = 1..Len(signed)
      /\ \A i \in 1..Len(rows): rows[i] \in Row
      /\ \A i \in 1..Len(signed): signed[i] \in Signed
  BY <1>0, Shape
<1>2. /\ work.row = rows[s + 1] /\ rows[s + 1].status # "finalized"
      /\ \A j \in 0..s - 1: rows[j + 1].status = "finalized"
  BY <1>0 DEF PublicationInv, Publisher, finalized
<1>3. fresh \in Signed
  BY <1>1 DEF PublicationInv, TypeOK, Signed
<1>4. UNCHANGED <<chain, key, correction, drafts, preparing, expiries, failures>>
  BY DEF Persist
<1>5. PICK row \in {IF signed' = signed THEN [work.row EXCEPT !.status = "submitted"]
                    ELSE withSubmission(work.row, Len(signed'))}:
        Saved(row) /\ work' = [work EXCEPT !.at = "persisted", !.row = row]
  BY DEF Persist
<1>6. /\ signed' \in Seq(Signed) /\ Len(signed') \in Nat /\ DOMAIN signed' = 1..Len(signed')
      /\ Len(signed) <= Len(signed') /\ \A t \in 1..Len(signed): signed'[t] = signed[t]
      /\ row \in Row /\ row.withdrawn = work.row.withdrawn /\ row.status # "finalized"
      /\ row.submission \in 1..Len(signed')
      /\ \A t \in 1..Len(signed'): signed'[t].live =>
           \/ signed'[t].sequence = s /\ t = row.submission
           \/ t \in 1..Len(signed) /\ signed'[t].sequence # s
  <2>0. \A t \in 1..Len(signed): signed[t].live /\ signed[t].sequence = s => t = work.row.submission
    BY <1>1, <1>2 DEF PublicationInv, Submissions
  <2>1. CASE reusable(work.row.submission) /\ UNCHANGED signed
    <3>1. row = [work.row EXCEPT !.status = "submitted"]
      BY <1>5, <2>1
    <3>2. /\ row \in Row /\ row.withdrawn = work.row.withdrawn /\ row.status # "finalized"
          /\ row.submission = work.row.submission
      BY <1>1, <3>1 DEF Row
    <3>3. work.row.submission \in 1..Len(signed)
      BY <1>1, <1>2, <2>1 DEF reusable, mayLand, None, PublicationInv, Submissions
    <3>4. signed \in Seq(Signed)
      BY Shape
    <3> HIDE DEF s
    <3> QED BY <1>1, <2>0, <2>1, <3>2, <3>3, <3>4
  <2>2. CASE ~reusable(work.row.submission) /\ signed' = Append(signed, fresh)
    <3>1. /\ signed' \in Seq(Signed) /\ Len(signed') = n /\ DOMAIN signed' = 1..n
          /\ \A t \in 1..Len(signed): signed'[t] = signed[t]
          /\ signed'[n] = fresh
      <4>1. signed \in Seq(Signed)
        BY Shape
      <4> HIDE DEF fresh
      <4>2. /\ Append(signed, fresh) \in Seq(Signed) /\ Len(Append(signed, fresh)) = Len(signed) + 1
            /\ \A t \in 1..Len(signed): Append(signed, fresh)[t] = signed[t]
            /\ Append(signed, fresh)[Len(signed) + 1] = fresh
        BY <1>3, <4>1, AppendProperties
      <4>3. DOMAIN Append(signed, fresh) = 1..Len(signed) + 1
        BY <4>2, LenProperties
      <4> QED BY <2>2, <4>2, <4>3
    <3>2. signed' # signed
      BY <1>1, <3>1
    <3>3. row = withSubmission(work.row, n)
      BY <1>5, <3>1, <3>2
    <3>4. signed'[n].issuer \in Nat
      BY <1>3, <3>1 DEF Signed
    <3>5. /\ row \in Row /\ row.withdrawn = work.row.withdrawn /\ row.status # "finalized"
          /\ row.submission = n
      <4> DEFINE issuer == signed'[n].issuer
      <4>1. row = [work.row EXCEPT !.status = "submitted", !.submission = n, !.issuer = issuer]
        BY <3>3 DEF withSubmission
      <4>2. n \in Nat /\ issuer \in Nat /\ work.row \in Row
        BY <1>1, <3>4
      <4> HIDE DEF n, issuer
      <4> QED BY <4>1, <4>2 DEF Row
    <3>6. \A t \in 1..Len(signed): signed[t].live => signed[t].sequence # s
      <4> SUFFICES ASSUME NEW t \in 1..Len(signed), signed[t].live, signed[t].sequence = s
                   PROVE FALSE
        OBVIOUS
      <4>1. t = work.row.submission
        BY <2>0
      <4>2. ~(t # 0 /\ signed[t].live)
        BY <2>2, <4>1, Zenon DEF reusable, mayLand, None
      <4> QED BY <1>1, <4>2
    <3>7. fresh.sequence = s
      OBVIOUS
    <3> HIDE DEF s, fresh
    <3> QED BY <1>1, <3>1, <3>5, <3>6, <3>7
  <2> QED BY <2>1, <2>2 DEF Persist
<1>7. /\ rows' \in Seq(Row) /\ Len(rows') = Len(rows) /\ DOMAIN rows' = 1..Len(rows)
      /\ \A i \in 1..Len(rows): rows'[i] = IF i = s + 1 THEN row ELSE rows[i]
  BY <1>0, <1>5, <1>6, SavedRows
<1>8. /\ work' \in [at: Publishing, sequence: 0..Len(rows) - 1, row: Row, correction: {NoCorrection}]
      /\ work'.at = "persisted" /\ work'.sequence = s /\ work'.row = row
  <2>1. work \in [at: Publishing, sequence: 0..Len(rows) - 1, row: Row, correction: {NoCorrection}]
    BY <1>0, AtWork
  <2> QED BY <1>5, <1>6, <2>1 DEF Publishing
<1> HIDE DEF s
<1>9. TypeOK'
  BY <1>4, <1>6, <1>7, <1>8 DEF PublicationInv, TypeOK
<1>10. Submissions'
  <2>1. \A i \in 1..Len(rows): rows'[i].submission \in 0..Len(signed')
    <3> TAKE i \in 1..Len(rows)
    <3>1. rows[i].submission \in 0..Len(signed)
      BY <1>1 DEF PublicationInv, Submissions
    <3> QED BY <1>1, <1>6, <1>7, <3>1
  <2>2. ASSUME NEW t \in 1..Len(signed'), signed'[t].live
        PROVE  signed'[t].sequence + 1 \in 1..Len(rows) /\ rows'[signed'[t].sequence + 1].submission = t
    <3>1. CASE signed'[t].sequence = s /\ t = row.submission
      BY <1>1, <1>7, <3>1 DEF s
    <3>2. CASE t \in 1..Len(signed) /\ signed'[t].sequence # s
      <4>1. signed'[t] = signed[t] /\ signed[t].sequence \in Nat
        BY <1>1, <1>6, <3>2 DEF Signed
      <4>2. signed[t].sequence + 1 \in 1..Len(rows) /\ rows[signed[t].sequence + 1].submission = t
        BY <1>1, <2>2, <3>2, <4>1 DEF PublicationInv, Submissions
      <4> QED BY <1>1, <1>7, <3>2, <4>1, <4>2 DEF s
    <3> QED BY <1>6, <2>2, <3>1, <3>2
  <2> QED BY <1>6, <1>7, <2>1, <2>2 DEF Submissions
<1>11. Publisher'
  <2>1. rows'[s + 1] = row /\ \A j \in 0..s - 1: rows'[j + 1] = rows[j + 1]
    BY <1>1, <1>7 DEF s
  <2> QED BY <1>2, <1>6, <1>8, <2>1 DEF Publisher, finalized
<1>12. ConfirmedInOrder'
  <2>0. \A i \in 1..Len(rows): rows[i].status = "finalized" => rows'[i] = rows[i]
    BY <1>1, <1>2, <1>7
  <2>1. \A i \in 1..Len(rows): rows'[i].status = "finalized" => rows'[i] = rows[i]
    BY <1>1, <1>2, <1>6, <1>7
  <2> SUFFICES ASSUME NEW i \in 0..Len(rows) - 1, rows'[i + 1].status = "finalized"
               PROVE  /\ onChain(i) /\ rows'[i + 1].issuer = chain.receipts[i + 1].issuer
                      /\ \A j \in 0..i: rows'[j + 1].status = "finalized"
    BY <1>4, <1>7 DEF ConfirmedInOrder, finalized, onChain
  <2>2. i + 1 \in 1..Len(rows) /\ \A j \in 0..i: j + 1 \in 1..Len(rows)
    BY <1>1
  <2> QED BY <2>0, <2>1, <2>2 DEF PublicationInv, ConfirmedInOrder, finalized
<1>13. Corrections'
  BY <1>4, <1>8 DEF PublicationInv, Corrections
<1>14. WithdrawnTogether'
  <2>1. \A i \in 1..Len(rows): rows'[i].withdrawn = rows[i].withdrawn
    BY <1>2, <1>6, <1>7
  <2> QED BY <1>1, <1>4, <1>7, <2>1 DEF PublicationInv, WithdrawnTogether
<1> QED BY <1>9, <1>10, <1>11, <1>12, <1>13, <1>14 DEF PublicationInv

----------------------------------------------------------------------------
(* The chain and those who hold a signed draft.                            *)

(* What the chain has, it keeps; a withdrawal takes place once.            *)
LEMMA ChainMovesOn ==
  ASSUME PublicationInv, chain' \in Chain,
         Len(chain.receipts) <= Len(chain'.receipts),
         \A i \in 1..Len(chain.receipts): chain'.receipts[i] = chain.receipts[i],
         correction.status = "finalized" => chain'.withdrawal = chain.withdrawal,
         UNCHANGED <<rows, signed, key, work, correction, drafts, preparing, expiries, failures>>
  PROVE  PublicationInv'
<1>1. TypeOK'
  BY DEF PublicationInv, TypeOK
<1>2. Submissions' /\ Publisher' /\ Corrections'
  BY DEF PublicationInv, Submissions, Publisher, Corrections, finalized
<1>3. ConfirmedInOrder'
  <2>1. Len(rows) \in Nat /\ Len(chain.receipts) \in Nat /\ Len(chain'.receipts) \in Nat
    BY Shape, LenProperties DEF Chain
  <2> SUFFICES ASSUME NEW i \in 0..Len(rows) - 1, rows[i + 1].status = "finalized"
               PROVE  /\ i < Len(chain'.receipts) /\ rows[i + 1].issuer = chain'.receipts[i + 1].issuer
                      /\ \A j \in 0..i: rows[j + 1].status = "finalized"
    BY DEF ConfirmedInOrder, finalized, onChain
  <2>2. /\ i < Len(chain.receipts) /\ rows[i + 1].issuer = chain.receipts[i + 1].issuer
        /\ \A j \in 0..i: rows[j + 1].status = "finalized"
    BY DEF PublicationInv, ConfirmedInOrder, finalized, onChain
  <2>3. i + 1 \in 1..Len(chain.receipts)
    BY <2>1, <2>2
  <2> QED BY <2>1, <2>2, <2>3
<1>4. WithdrawnTogether'
  BY DEF PublicationInv, WithdrawnTogether
<1> QED BY <1>1, <1>2, <1>3, <1>4 DEF PublicationInv

LEMMA LandKeeps ==
  ASSUME PublicationInv, NEW t \in DOMAIN signed, Land(t)
  PROVE  PublicationInv'
<1> DEFINE receipt == [submission |-> t, issuer |-> chain.issuer]
<1>1. receipt \in Receipt
  BY Shape DEF Receipt
<1>2. /\ chain' = [chain EXCEPT !.receipts = Append(chain.receipts, receipt)]
      /\ UNCHANGED <<rows, signed, key, work, correction, drafts, preparing, expiries, failures>>
  BY DEF Land
<1>3. chain \in Chain
  BY DEF PublicationInv, TypeOK
<1> HIDE DEF receipt
<1>4. chain'.receipts = Append(chain.receipts, receipt) /\ chain'.withdrawal = chain.withdrawal
  BY <1>2, <1>3 DEF Chain
<1>5. /\ Append(chain.receipts, receipt) \in Seq(Receipt)
      /\ Len(Append(chain.receipts, receipt)) = Len(chain.receipts) + 1
      /\ \A i \in 1..Len(chain.receipts): Append(chain.receipts, receipt)[i] = chain.receipts[i]
  BY <1>1, Shape, AppendProperties
<1>6. chain' \in Chain
  BY <1>2, <1>3, <1>5 DEF Chain
<1> QED BY <1>2, <1>4, <1>5, <1>6, Shape, ChainMovesOn

LEMMA RotateKeeps == PublicationInv /\ Rotate => PublicationInv'
<1> SUFFICES ASSUME PublicationInv, Rotate PROVE PublicationInv'
  OBVIOUS
<1>1. chain \in Chain
  BY DEF PublicationInv, TypeOK
<1>2. /\ chain' \in Chain /\ chain'.receipts = chain.receipts /\ chain'.withdrawal = chain.withdrawal
      /\ UNCHANGED <<rows, signed, key, work, correction, drafts, preparing, expiries, failures>>
  BY <1>1 DEF Rotate, Chain
<1> QED BY <1>2, Shape, ChainMovesOn

(* A correction that is settled names the withdrawal the chain has.        *)
LEMMA LandWithdrawalKeeps ==
  ASSUME PublicationInv, NEW d \in DOMAIN drafts, LandWithdrawal(d)
  PROVE  PublicationInv'
<1>1. chain \in Chain /\ d \in Nat
  BY Shape DEF PublicationInv, TypeOK
<1>2. /\ chain' \in Chain /\ chain'.receipts = chain.receipts
      /\ UNCHANGED <<rows, signed, key, work, correction, drafts, preparing, expiries, failures>>
  BY <1>1 DEF LandWithdrawal, Chain
<1>3. correction.status # "finalized"
  BY DEF LandWithdrawal, PublicationInv, WithdrawnTogether, Corrections
<1> QED BY <1>2, <1>3, Shape, ChainMovesOn

LEMMA DraftExpiresKeeps ==
  ASSUME PublicationInv, NEW d \in DOMAIN drafts, DraftExpires(d)
  PROVE  PublicationInv'
<1>0. drafts[d] \in Draft
  BY Shape, ElementOfSeq
<1>1. PICK aged \in Draft: drafts' = [drafts EXCEPT ![d] = aged]
  <2>1. CASE drafts' = [drafts EXCEPT ![d].fresh = FALSE]
    <3>1. [drafts[d] EXCEPT !.fresh = FALSE] \in Draft
      BY <1>0 DEF Draft
    <3> QED BY <2>1, <3>1
  <2>2. CASE drafts' = [drafts EXCEPT ![d].live = FALSE]
    <3>1. [drafts[d] EXCEPT !.live = FALSE] \in Draft
      BY <1>0 DEF Draft
    <3> QED BY <2>2, <3>1
  <2> QED BY <2>1, <2>2 DEF DraftExpires
<1>2. drafts' \in Seq(Draft) /\ Len(drafts') = Len(drafts)
  BY <1>1, Shape, ExceptSeq
<1>3. UNCHANGED <<rows, signed, chain, key, work, correction, preparing, expiries, failures>>
  BY DEF DraftExpires
<1>4. TypeOK'
  BY <1>2, <1>3 DEF PublicationInv, TypeOK
<1>5. Submissions' /\ Publisher' /\ ConfirmedInOrder' /\ WithdrawnTogether'
  BY <1>3 DEF PublicationInv, Submissions, Publisher, ConfirmedInOrder, WithdrawnTogether, finalized, onChain
<1>6. Corrections'
  BY <1>2, <1>3 DEF PublicationInv, Corrections
<1> QED BY <1>4, <1>5, <1>6 DEF PublicationInv

----------------------------------------------------------------------------
(* The corrections.                                                        *)

(* A correction that is not settled can be replaced by another one.        *)
LEMMA CorrectionChanges ==
  ASSUME PublicationInv, correction.status # "finalized",
         correction' \in Correction, correction'.status # "finalized",
         drafts' \in Seq(Draft), Len(drafts) <= Len(drafts'),
         correction'.draft \in 0..Len(drafts'), correction'.submission => correction'.draft # None,
         preparing' \in Nat \cup {Idle},
         work' = work \/ work' = Resting,
         UNCHANGED <<rows, signed, chain, key, expiries, failures>>
  PROVE  PublicationInv'
<1>0. Len(drafts) \in Nat /\ Len(drafts') \in Nat
  BY Shape, LenProperties
<1>r. Resting.at \notin Publishing /\ Resting.at # "correcting"
  BY DEF Resting, Publishing
<1>1. TypeOK'
  BY DEF PublicationInv, TypeOK
<1>2. Submissions' /\ ConfirmedInOrder' /\ WithdrawnTogether'
  BY DEF PublicationInv, Submissions, ConfirmedInOrder, WithdrawnTogether, finalized, onChain
<1>3. Publisher'
  BY <1>r DEF PublicationInv, Publisher, finalized
<1>4. Corrections'
  BY <1>0, <1>r DEF PublicationInv, Corrections
<1> QED BY <1>1, <1>2, <1>3, <1>4 DEF PublicationInv

LEMMA PrepareCorrectionKeeps == PublicationInv /\ PrepareCorrection => PublicationInv'
<1> SUFFICES ASSUME PublicationInv, PrepareCorrection PROVE PublicationInv'
  OBVIOUS
<1>1. /\ correction.status # "finalized" /\ preparing' = Len(rows)
      /\ UNCHANGED <<rows, signed, chain, key, work, correction, drafts, expiries, failures>>
  BY DEF PrepareCorrection
<1>2. correction' \in Correction /\ drafts' \in Seq(Draft) /\ preparing' \in Nat \cup {Idle}
  BY <1>1, Shape DEF PublicationInv, TypeOK
<1>3. correction'.draft \in 0..Len(drafts') /\ (correction'.submission => correction'.draft # None)
  BY <1>1 DEF PublicationInv, Corrections
<1> QED BY <1>1, <1>2, <1>3, Shape, CorrectionChanges

(* A preparation that answers after the correction was settled changes     *)
(* nothing.                                                                *)
LEMMA StoreCorrectionKeeps == PublicationInv /\ StoreCorrection => PublicationInv'
<1> SUFFICES ASSUME PublicationInv, StoreCorrection PROVE PublicationInv'
  OBVIOUS
<1>1. preparing' = Idle /\ UNCHANGED <<rows, signed, chain, key, work, expiries, failures>>
  BY DEF StoreCorrection
<1>2. CASE /\ mayStore
           /\ drafts' = Append(drafts, [sequence |-> preparing, fresh |-> TRUE, live |-> TRUE])
           /\ correction' = [status |-> "pending", draft |-> Len(drafts'), submission |-> FALSE]
  <2>1. correction.status # "finalized" /\ preparing \in Nat
    BY <1>2, Shape DEF mayStore
  <2>2. [sequence |-> preparing, fresh |-> TRUE, live |-> TRUE] \in Draft
    BY <2>1 DEF Draft
  <2>3. drafts' \in Seq(Draft) /\ Len(drafts') = Len(drafts) + 1
    BY <1>2, <2>2, Shape, AppendProperties
  <2>4. Len(drafts') \in Nat /\ Len(drafts) <= Len(drafts')
    BY <2>3, Shape
  <2>5. /\ correction' \in Correction /\ correction'.status # "finalized" /\ ~correction'.submission
        /\ correction'.draft \in 0..Len(drafts')
    BY <1>2, <2>4 DEF Correction
  <2> QED BY <1>1, <2>1, <2>3, <2>4, <2>5, CorrectionChanges
<1>3. CASE ~mayStore /\ UNCHANGED <<drafts, correction>>
  <2>1. TypeOK'
    BY <1>1, <1>3 DEF PublicationInv, TypeOK
  <2>2. Submissions' /\ Publisher' /\ Corrections' /\ ConfirmedInOrder' /\ WithdrawnTogether'
    BY <1>1, <1>3 DEF PublicationInv, Submissions, Publisher, Corrections, ConfirmedInOrder,
                      WithdrawnTogether, finalized, onChain
  <2> QED BY <2>1, <2>2 DEF PublicationInv
<1> QED BY <1>2, <1>3 DEF StoreCorrection

(* Only a stored draft is accepted, signed.                                *)
LEMMA SubmitCorrectionKeeps == PublicationInv /\ SubmitCorrection => PublicationInv'
<1> SUFFICES ASSUME PublicationInv, SubmitCorrection PROVE PublicationInv'
  OBVIOUS
<1>1. /\ correction.status # "finalized" /\ correction.draft # None
      /\ correction' = [correction EXCEPT !.submission = TRUE, !.status = "submitted"]
      /\ UNCHANGED <<rows, signed, chain, key, work, drafts, preparing, expiries, failures>>
  BY DEF SubmitCorrection
<1>2. correction \in Correction /\ drafts' \in Seq(Draft) /\ preparing' \in Nat \cup {Idle}
  BY <1>1 DEF PublicationInv, TypeOK
<1>3. /\ correction' \in Correction /\ correction'.status # "finalized"
      /\ correction'.draft = correction.draft
  BY <1>1, <1>2 DEF Correction
<1>4. correction'.draft \in 0..Len(drafts') /\ correction'.draft # None
  BY <1>1, <1>3 DEF PublicationInv, Corrections
<1> QED BY <1>1, <1>2, <1>3, <1>4, Shape, CorrectionChanges

LEMMA StartCorrectionKeeps == PublicationInv /\ StartCorrection => PublicationInv'
<1> SUFFICES ASSUME PublicationInv, StartCorrection PROVE PublicationInv'
  OBVIOUS
<1>1. /\ correction.submission /\ correction.status # "finalized"
      /\ work' = [Resting EXCEPT !.at = "correcting", !.correction = correction]
      /\ UNCHANGED <<rows, signed, chain, key, correction, drafts, preparing, expiries, failures>>
  BY DEF StartCorrection
<1>2. correction \in Correction
  BY DEF PublicationInv, TypeOK
<1>3. /\ work' \in [at: {"correcting"}, sequence: {Idle}, row: {NoRow}, correction: Correction]
      /\ work'.at = "correcting" /\ work'.at \notin Publishing /\ work'.correction = correction
  BY <1>1, <1>2 DEF Resting, Publishing
<1>4. TypeOK'
  BY <1>1, <1>3 DEF PublicationInv, TypeOK
<1>5. Submissions' /\ Publisher' /\ ConfirmedInOrder' /\ WithdrawnTogether'
  BY <1>1, <1>3 DEF PublicationInv, Submissions, Publisher, ConfirmedInOrder, WithdrawnTogether,
                    finalized, onChain
<1>6. Corrections'
  <2>1. work'.correction.status # "finalized" /\ work'.correction.submission
        /\ work'.correction.draft \in 1..Len(drafts)
    BY <1>1, <1>3, Shape DEF PublicationInv, Corrections, None
  <2> QED BY <1>1, <2>1 DEF PublicationInv, Corrections
<1> QED BY <1>4, <1>5, <1>6 DEF PublicationInv

(* When the withdrawal is found all rows are withdrawn, with the           *)
(* correction that names it.                                               *)
LEMMA WithdrawAll ==
  ASSUME PublicationInv, correction' \in Correction, correction'.status = "finalized",
         correction'.draft = chain.withdrawal, chain.withdrawal # None,
         rows' = withdrawAll, work.at \notin Publishing, work' = Resting,
         UNCHANGED <<signed, chain, key, drafts, preparing, expiries, failures>>
  PROVE  PublicationInv'
<1>r. Resting.at \notin Publishing /\ Resting.at # "correcting"
  BY DEF Resting, Publishing
<1>0. /\ Len(rows) \in Nat /\ DOMAIN rows = 1..Len(rows) /\ \A i \in 1..Len(rows): rows[i] \in Row
  BY Shape
<1>1. \A i \in 1..Len(rows):
        /\ [rows[i] EXCEPT !.withdrawn = TRUE] \in Row
        /\ [rows[i] EXCEPT !.withdrawn = TRUE].status = rows[i].status
        /\ [rows[i] EXCEPT !.withdrawn = TRUE].submission = rows[i].submission
        /\ [rows[i] EXCEPT !.withdrawn = TRUE].issuer = rows[i].issuer
        /\ [rows[i] EXCEPT !.withdrawn = TRUE].withdrawn
  BY <1>0 DEF Row
<1>2. rows' = [i \in 1..Len(rows) |-> [rows[i] EXCEPT !.withdrawn = TRUE]]
  BY <1>0 DEF withdrawAll
<1>3. rows' \in Seq(Row)
  BY <1>0, <1>1, <1>2, IsASeq
<1>4. /\ Len(rows') = Len(rows) /\ DOMAIN rows' = 1..Len(rows)
      /\ \A i \in 1..Len(rows): rows'[i] = [rows[i] EXCEPT !.withdrawn = TRUE]
  BY <1>0, <1>2, <1>3, LenProperties
<1>5. \A i \in 1..Len(rows): /\ rows'[i].status = rows[i].status
                             /\ rows'[i].submission = rows[i].submission
                             /\ rows'[i].issuer = rows[i].issuer /\ rows'[i].withdrawn
  BY <1>1, <1>4
<1>6. TypeOK'
  BY <1>3 DEF PublicationInv, TypeOK
<1>7. Submissions'
  BY <1>0, <1>4, <1>5, Shape DEF PublicationInv, Submissions
<1>8. Publisher' /\ Corrections'
  BY <1>r DEF PublicationInv, Publisher, Corrections
<1>9. ConfirmedInOrder'
  <2>1. \A i \in 0..Len(rows) - 1: rows'[i + 1].status = rows[i + 1].status
                                   /\ rows'[i + 1].issuer = rows[i + 1].issuer
    BY <1>0, <1>5
  <2> SUFFICES ASSUME NEW i \in 0..Len(rows) - 1, rows'[i + 1].status = "finalized"
               PROVE  /\ onChain(i) /\ rows'[i + 1].issuer = chain.receipts[i + 1].issuer
                      /\ \A j \in 0..i: rows'[j + 1].status = "finalized"
    BY <1>4 DEF ConfirmedInOrder, finalized, onChain
  <2>2. \A j \in 0..i: j \in 0..Len(rows) - 1
    BY <1>0
  <2> QED BY <2>1, <2>2 DEF PublicationInv, ConfirmedInOrder, finalized
<1>10. WithdrawnTogether'
  BY <1>4, <1>5 DEF WithdrawnTogether
<1> QED BY <1>6, <1>7, <1>8, <1>9, <1>10 DEF PublicationInv

(* What the alarm read of the correction is still open, for only the alarm *)
(* and the audit, which waits for it, settle one.                          *)
LEMMA ReconcileCorrectionKeeps == PublicationInv /\ ReconcileCorrection => PublicationInv'
<1> SUFFICES ASSUME PublicationInv, ReconcileCorrection PROVE PublicationInv'
  OBVIOUS
<1>1. work.at = "correcting" /\ work.at \notin Publishing
  BY DEF ReconcileCorrection, Publishing
<1>2. work \in [at: {"correcting"}, sequence: {Idle}, row: {NoRow}, correction: Correction]
  BY <1>1 DEF PublicationInv, TypeOK, Resting
<1>3. /\ work.correction \in Correction /\ correction.status # "finalized"
      /\ work.correction.draft \in 1..Len(drafts)
  BY <1>1, <1>2 DEF PublicationInv, Corrections
<1>4. ASSUME NEW status \in {"submitted", "retry"}, StoreResult(status) PROVE PublicationInv'
  <2>1. /\ correction' = [work.correction EXCEPT !.status = status] /\ work' = Resting
        /\ UNCHANGED <<rows, signed, chain, key, drafts, preparing, expiries, failures>>
    BY <1>4 DEF StoreResult
  <2>2. /\ correction' \in Correction /\ correction'.status # "finalized"
        /\ correction'.draft = work.correction.draft
    BY <1>3, <2>1 DEF Correction
  <2>3. correction'.draft \in 0..Len(drafts') /\ correction'.draft # None
    BY <1>3, <2>1, <2>2, Shape DEF None
  <2>4. drafts' \in Seq(Draft) /\ preparing' \in Nat \cup {Idle}
    BY <2>1 DEF PublicationInv, TypeOK
  <2> QED BY <1>3, <2>1, <2>2, <2>3, <2>4, Shape, CorrectionChanges
<1>5. CASE chain.withdrawal = work.correction.draft /\ StoreResult("finalized")
  <2>1. /\ correction' = [work.correction EXCEPT !.status = "finalized"] /\ work' = Resting
        /\ rows' = withdrawAll
        /\ UNCHANGED <<signed, chain, key, drafts, preparing, expiries, failures>>
    BY <1>5 DEF StoreResult
  <2>2. /\ correction' \in Correction /\ correction'.status = "finalized"
        /\ correction'.draft = work.correction.draft
    BY <1>3, <2>1 DEF Correction
  <2>3. chain.withdrawal # None
    BY <1>3, <1>5, Shape DEF None
  <2> QED BY <1>1, <1>3, <1>5, <2>1, <2>2, <2>3, WithdrawAll
<1> QED BY <1>4, <1>5 DEF ReconcileCorrection

LEMMA AuditKeeps == PublicationInv /\ Audit => PublicationInv'
<1> SUFFICES ASSUME PublicationInv, Audit PROVE PublicationInv'
  OBVIOUS
<1>1. /\ work.at = "resting" /\ chain.withdrawal # None /\ rows' = withdrawAll
      /\ correction' = [status |-> "finalized", draft |-> chain.withdrawal, submission |-> FALSE]
      /\ UNCHANGED <<signed, chain, key, work, drafts, preparing, expiries, failures>>
  BY DEF Audit
<1>2. work = Resting /\ work.at \notin Publishing
  BY <1>1 DEF PublicationInv, TypeOK, Publishing
<1>3. /\ correction' \in Correction /\ correction'.status = "finalized"
      /\ correction'.draft = chain.withdrawal /\ ~correction'.submission
  BY <1>1, Shape DEF Correction
<1> QED BY <1>1, <1>2, <1>3, WithdrawAll

----------------------------------------------------------------------------
LEMMA PublicationKeeps == Spec => []PublicationInv
<1>1. PublicationInv /\ [Next]_vars => PublicationInv'
  <2> SUFFICES ASSUME PublicationInv, [Next]_vars PROVE PublicationInv'
    OBVIOUS
  <2>1. CASE AppendRecord
    BY <2>1, AppendRecordKeeps
  <2>2. CASE Publish
    BY <2>2, StartPublishKeeps, ConnectKeeps, LookForReceiptKeeps, PersistKeeps, LookAgainKeeps,
       SendKeeps, LookAfterKeeps DEF Publish
  <2>3. CASE PublishFails
    BY <2>3, PublishFailsKeeps
  <2>4. CASE Restart \/ Deploy
    BY <2>4, RestartKeeps
  <2>5. CASE Rotate
    BY <2>5, RotateKeeps
  <2>6. CASE Correcting
    BY <2>6, PrepareCorrectionKeeps, StoreCorrectionKeeps, SubmitCorrectionKeeps,
       StartCorrectionKeeps, ReconcileCorrectionKeeps, AuditKeeps DEF Correcting
  <2>7. CASE \E t \in DOMAIN signed: Land(t) \/ Expire(t)
    BY <2>7, LandKeeps, ExpireKeeps
  <2>8. CASE \E d \in DOMAIN drafts: LandWithdrawal(d) \/ DraftExpires(d)
    BY <2>8, LandWithdrawalKeeps, DraftExpiresKeeps
  <2>9. CASE UNCHANGED vars
    <3>1. UNCHANGED <<rows, signed, chain, key, work, correction, drafts, preparing, expiries, failures>>
      BY <2>9 DEF vars
    <3>2. TypeOK'
      BY <3>1 DEF PublicationInv, TypeOK
    <3>3. Submissions' /\ Publisher' /\ Corrections' /\ ConfirmedInOrder' /\ WithdrawnTogether'
      BY <3>1 DEF PublicationInv, Submissions, Publisher, Corrections, ConfirmedInOrder,
                  WithdrawnTogether, finalized, onChain
    <3> QED BY <3>2, <3>3 DEF PublicationInv
  <2> QED BY <2>1, <2>2, <2>3, <2>4, <2>5, <2>6, <2>7, <2>8, <2>9 DEF Next
<1> QED BY <1>1, InitialPublication, PTL DEF Spec

(* What the journal calls finalized the chain has, by the issuer the       *)
(* record names, and no record is ahead of an earlier one.                 *)
THEOREM ConfirmationsInOrder == Spec => []ConfirmedInOrder
<1>1. PublicationInv => ConfirmedInOrder
  BY DEF PublicationInv
<1> QED BY <1>1, PublicationKeeps, PTL

(* Of one record never two transactions may land: publish stores the bytes *)
(* it sends and signs others only when those have run out.                 *)
THEOREM SubmissionsAreSingle == Spec => []OneSubmission
<1>1. PublicationInv => OneSubmission
  BY DEF PublicationInv, Submissions, OneSubmission, mayLand
<1> QED BY <1>1, PublicationKeeps, PTL

(* auditWithdrawal and the reconciliation of corrections withdraw all      *)
(* records or none, and name the transaction of the chain.                 *)
THEOREM WithdrawalsAreWhole == Spec => []WithdrawnTogether
<1>1. PublicationInv => WithdrawnTogether
  BY DEF PublicationInv
<1> QED BY <1>1, PublicationKeeps, PTL

(***************************************************************************)
(* How what happens in a journey reaches its journal.  Two claims need     *)
(* the whole way from capture to append: that a journal which is up to     *)
(* date says what the journey says, and that the shares of the pool add    *)
(* up.  The invariant keeps, for every row of the outbox, what a journal   *)
(* told all rows up to there would know (a path).  The journal is always   *)
(* one point of that path, and the journey agrees with its end, because    *)
(* every capture, told on top of it, says what changed in the saved        *)
(* journey.  Folds are reasoned about as functions of sets of positions,   *)
(* by smallest counterexample.                                             *)
(***************************************************************************)

(* Of a set that numbers measure, something is smallest.                   *)
LEMMA Smallest ==
  ASSUME NEW S, S # {}, NEW f \in [S -> Nat]
  PROVE  \E x \in S : \A y \in S : f[x] <= f[y]
<1> DEFINE T == {f[x] : x \in S}
<1>1. T \subseteq Nat /\ T # {}
  OBVIOUS
<1>2. PICK m \in T : \A n \in T : ~ (<<n, m>> \in OpToRel(<, Nat))
  BY <1>1, WFMin, NatLessThanWellFounded, Zenon
<1>3. \A n \in T : <<n, m>> \in Nat \X Nat /\ n \in Nat /\ m \in Nat
  BY <1>1
<1>4. \A n \in T : ~(n < m)
  BY <1>2, <1>3 DEF OpToRel
<1>5. \A n \in T : m <= n
  BY <1>3, <1>4
<1>6. PICK x \in S : f[x] = m
  OBVIOUS
<1> QED BY <1>5, <1>6

(* What holds of 0 and, with each number, of the next one.                 *)
LEMMA EveryNumber ==
  ASSUME NEW G, 0 \in G, \A n \in Nat : n \in G => n + 1 \in G
  PROVE  Nat \subseteq G
<1> SUFFICES ASSUME Nat \ G # {} PROVE FALSE
  OBVIOUS
<1> DEFINE f == [n \in Nat \ G |-> n]
<1>1. f \in [Nat \ G -> Nat]
  OBVIOUS
<1>2. PICK m \in Nat \ G : \A n \in Nat \ G : f[m] <= f[n]
  <2> HIDE DEF f
  <2> QED BY <1>1, Smallest
<1>3. \A n \in Nat \ G : m <= n
  BY <1>2
<1>4. m # 0 /\ m - 1 \in Nat
  OBVIOUS
<1>5. m - 1 \in G
  BY <1>3, <1>4
<1>6. (m - 1) + 1 = m
  BY <1>4
<1> QED BY <1>4, <1>5, <1>6

(* The last of some positions.                                             *)
LEMMA LastOf ==
  ASSUME NEW n \in Nat, NEW s \in SUBSET (1..n), s # {}
  PROVE  Max(s) \in s /\ \A y \in s : y <= Max(s)
<1> DEFINE f == [x \in s |-> n - x]
<1>1. f \in [s -> Nat]
  OBVIOUS
<1>2. PICK x \in s : \A y \in s : f[x] <= f[y]
  <2> HIDE DEF f
  <2> QED BY <1>1, Smallest
<1>3. \A y \in s : x >= y
  <2> SUFFICES ASSUME NEW y \in s PROVE x >= y
    OBVIOUS
  <2>1. n - x <= n - y
    BY <1>2
  <2> QED BY <2>1
<1>4. Max(s) \in s /\ \A y \in s : Max(s) >= y
  BY <1>3 DEF Max
<1> QED BY <1>4

(* A fold from the last position down: folded is the body of FoldLeft, its *)
(* operator tabulated as F.                                                *)
folded(F, base, h, s) == IF s = {} THEN base ELSE F[<<h[s \ {Max(s)}], Max(s)>>]
folds(F, base, n, h) == h = [s \in SUBSET (1..n) |-> folded(F, base, h, s)]
upTo(n, k) == {s \in SUBSET (1..n) : Cardinality(s) <= k}

foldsTo(F, base, n, k, h) == h = [s \in upTo(n, k) |-> folded(F, base, h, s)]

LEMMA Positions ==
  ASSUME NEW n \in Nat
  PROVE  /\ IsFiniteSet(1..n) /\ Cardinality(1..n) = n
         /\ \A s \in SUBSET (1..n) : IsFiniteSet(s) /\ Cardinality(s) \in Nat /\ Cardinality(s) <= n
<1>1. IsFiniteSet(1..n) /\ Cardinality(1..n) = n
  BY FS_Interval
<1>2. \A s \in SUBSET (1..n) : IsFiniteSet(s) /\ Cardinality(s) <= n
  BY <1>1, FS_Subset
<1> QED BY <1>1, <1>2, FS_CardinalityType

LEMMA FoldExists ==
  ASSUME NEW n \in Nat, NEW F, NEW base
  PROVE  \E h : folds(F, base, n, h)
<1> DEFINE Good == {k \in Nat : \E h : foldsTo(F, base, n, k, h)}
<1>0. /\ IsFiniteSet(1..n) /\ Cardinality(1..n) = n
      /\ \A s \in SUBSET (1..n) : IsFiniteSet(s) /\ Cardinality(s) \in Nat /\ Cardinality(s) <= n
  BY Positions
<1>1. 0 \in Good
  <2> DEFINE h == [s \in upTo(n, 0) |-> base]
  <2>1. \A s \in upTo(n, 0) : s = {}
    BY <1>0, FS_EmptySet DEF upTo
  <2>2. h = [s \in upTo(n, 0) |-> folded(F, base, h, s)]
    BY <2>1 DEF folded
  <2> HIDE DEF h
  <2> QED BY <2>2 DEF foldsTo
<1>2. ASSUME NEW k \in Nat, k \in Good PROVE k + 1 \in Good
  <2>1. PICK h : foldsTo(F, base, n, k, h)
    BY <1>2
  <2>2. \A s \in upTo(n, k) : h[s] = folded(F, base, h, s)
    BY <2>1 DEF foldsTo
  <2> DEFINE d == [s \in upTo(n, k + 1) |-> folded(F, base, h, s)]
  <2>3. \A s \in upTo(n, k) : s \in upTo(n, k + 1)
    BY <1>0 DEF upTo
  <2>4. ASSUME NEW s \in upTo(n, k + 1), s # {} PROVE s \ {Max(s)} \in upTo(n, k)
    <3>1. Max(s) \in s
      BY <2>4, LastOf DEF upTo
    <3>2. IsFiniteSet(s) /\ Cardinality(s) <= k + 1 /\ Cardinality(s) \in Nat
      BY <1>0 DEF upTo
    <3>3. Cardinality(s \ {Max(s)}) = Cardinality(s) - 1
      BY <3>1, <3>2, FS_RemoveElement
    <3>4. s \ {Max(s)} \in SUBSET (1..n)
      BY DEF upTo
    <3> HIDE DEF d
    <3> QED BY <3>2, <3>3, <3>4 DEF upTo
  <2>5. \A s \in upTo(n, k) : d[s] = h[s]
    BY <2>2, <2>3
  <2>6. \A s \in upTo(n, k + 1) : folded(F, base, h, s) = folded(F, base, d, s)
    <3> HIDE DEF d
    <3> QED BY <2>4, <2>5 DEF folded
  <2>7. d = [s \in upTo(n, k + 1) |-> folded(F, base, d, s)]
    BY <2>6
  <2> HIDE DEF d
  <2> QED BY <2>7 DEF foldsTo
<1>3. n \in Good
  <2> HIDE DEF Good
  <2> QED BY <1>1, <1>2, EveryNumber
<1>4. upTo(n, n) = SUBSET (1..n)
  BY <1>0 DEF upTo
<1> QED BY <1>3, <1>4 DEF folds, foldsTo

(* What holds of no positions and, of any, if it does without the last.    *)
LEMMA EveryPositions ==
  ASSUME NEW n \in Nat, NEW G, {} \in G,
         \A s \in SUBSET (1..n) : s # {} /\ s \ {Max(s)} \in G => s \in G
  PROVE  SUBSET (1..n) \subseteq G
<1> DEFINE Wrong == {s \in SUBSET (1..n) : s \notin G}
<1> SUFFICES ASSUME Wrong # {} PROVE FALSE
  OBVIOUS
<1> DEFINE size == [s \in Wrong |-> Cardinality(s)]
<1>0. \A s \in SUBSET (1..n) : IsFiniteSet(s) /\ Cardinality(s) \in Nat
  BY Positions
<1>1. size \in [Wrong -> Nat]
  BY <1>0
<1>2. PICK s \in Wrong : \A t \in Wrong : size[s] <= size[t]
  <2> HIDE DEF size, Wrong
  <2> QED BY <1>1, Smallest
<1>4. s # {}
  OBVIOUS
<1>5. PICK x \in s : x = Max(s)
  BY <1>4, LastOf
<1>6. PICK t : t = s \ {x}
  OBVIOUS
<1>7. t \in SUBSET (1..n) /\ Cardinality(t) = Cardinality(s) - 1
  BY <1>0, <1>5, <1>6, FS_RemoveElement
<1>8. t \notin Wrong
  <2> SUFFICES ASSUME t \in Wrong PROVE FALSE
    OBVIOUS
  <2>1. Cardinality(s) <= Cardinality(t)
    BY <1>2
  <2> QED BY <1>0, <1>7, <2>1
<1> QED BY <1>4, <1>5, <1>6, <1>7, <1>8

(* What each step of a fold establishes holds in the end.                  *)
LEMMA FoldKeeps ==
  ASSUME NEW n \in Nat, NEW F, NEW base, NEW h, folds(F, base, n, h),
         NEW W, base \in W[{}],
         \A s \in SUBSET (1..n) : s # {} => \A v \in W[s \ {Max(s)}] : F[<<v, Max(s)>>] \in W[s]
  PROVE  \A s \in SUBSET (1..n) : h[s] \in W[s]
<1> DEFINE G == {s \in SUBSET (1..n) : h[s] \in W[s]}
<1>1. \A s \in SUBSET (1..n) : h[s] = folded(F, base, h, s)
  BY DEF folds
<1>2. {} \in G
  BY <1>1 DEF folded
<1>3. ASSUME NEW s \in SUBSET (1..n), s # {}, s \ {Max(s)} \in G PROVE s \in G
  BY <1>1, <1>3 DEF folded
<1>4. SUBSET (1..n) \subseteq G
  <2> HIDE DEF G
  <2> QED BY <1>2, <1>3, EveryPositions
<1> QED BY <1>4

(* The points of a journal.                                                *)
total(rs) == FoldLeft(LAMBDA sum, r : sum + r.points, 0, rs)
tally(rs, h, s) == IF s = {} THEN 0 ELSE h[s \ {Max(s)}] + rs[Max(s)].points
tallies(rs, h) == h = [s \in SUBSET (1..Len(rs)) |-> tally(rs, h, s)]

LEMMA TotalIsATally ==
  ASSUME NEW rs \in Seq(Record)
  PROVE  \E h : tallies(rs, h) /\ total(rs) = h[1..Len(rs)]
<1> DEFINE n == Len(rs)
           F == [p \in Nat \X (1..n) |-> p[1] + rs[p[2]].points]
           W == [s \in SUBSET (1..n) |-> Nat]
<1>0. n \in Nat /\ DOMAIN rs = 1..n /\ \A i \in 1..n : rs[i].points \in Nat
  <2>1. Pool \in Nat
    BY CommunityAssumption
  <2>2. n \in Nat /\ DOMAIN rs = 1..n /\ \A i \in 1..n : rs[i] \in Record
    OBVIOUS
  <2>3. \A r \in Record : r.points \in Nat
    BY <2>1 DEF Record
  <2> QED BY <2>2, <2>3
<1>1. PICK h : folds(F, 0, n, h)
  <2> HIDE DEF F, n
  <2> QED BY <1>0, FoldExists
<1>2. \A s \in SUBSET (1..n) : h[s] \in Nat
  <2>1. \A s \in SUBSET (1..n) : s # {} => Max(s) \in 1..n /\ s \ {Max(s)} \in SUBSET (1..n)
    <3> HIDE DEF n
    <3> QED BY <1>0, LastOf
  <2>2. \A s \in SUBSET (1..n) : s # {} => \A v \in W[s \ {Max(s)}] : F[<<v, Max(s)>>] \in W[s]
    BY <1>0, <2>1
  <2>3. 0 \in W[{}]
    OBVIOUS
  <2>4. \A s \in SUBSET (1..n) : h[s] \in W[s]
    <3> HIDE DEF F, W, n
    <3> QED BY <1>0, <1>1, <2>2, <2>3, FoldKeeps
  <2> QED BY <2>4
<1>3. tallies(rs, h)
  <2>1. \A s \in SUBSET (1..n) : folded(F, 0, h, s) = tally(rs, h, s)
    <3> SUFFICES ASSUME NEW s \in SUBSET (1..n), s # {} PROVE folded(F, 0, h, s) = tally(rs, h, s)
      BY DEF folded, tally
    <3>1. Max(s) \in 1..n /\ s \ {Max(s)} \in SUBSET (1..n)
      <4> HIDE DEF n
      <4> QED BY <1>0, LastOf
    <3>2. F[<<h[s \ {Max(s)}], Max(s)>>] = h[s \ {Max(s)}] + rs[Max(s)].points
      BY <1>2, <3>1
    <3> HIDE DEF F
    <3> QED BY <3>2 DEF folded, tally
  <2> HIDE DEF F
  <2> QED BY <1>1, <2>1 DEF folds, tallies
<1>4. \E g : g = [s \in SUBSET (DOMAIN rs) |-> IF s = {} THEN 0 ELSE g[s \ {Max(s)}] + rs[Max(s)].points]
  <2> DEFINE P(g) == g = [s \in SUBSET (DOMAIN rs) |-> IF s = {} THEN 0 ELSE g[s \ {Max(s)}] + rs[Max(s)].points]
  <2>1. P(h)
    BY <1>0, <1>3 DEF tallies, tally
  <2>2. \E g : P(g)
    <3> HIDE DEF P
    <3> QED BY <2>1
  <2> QED BY <2>2
<1>5. \E g : /\ g = [s \in SUBSET (DOMAIN rs) |-> IF s = {} THEN 0 ELSE g[s \ {Max(s)}] + rs[Max(s)].points]
             /\ total(rs) = g[DOMAIN rs]
  BY <1>4 DEF total, FoldLeft, MapThenFoldSet
<1>6. PICK g : /\ g = [s \in SUBSET (1..n) |-> IF s = {} THEN 0 ELSE g[s \ {Max(s)}] + rs[Max(s)].points]
               /\ total(rs) = g[1..n]
  BY <1>0, <1>5
<1>7. tallies(rs, g)
  BY <1>6 DEF tallies, tally
<1> QED BY <1>6, <1>7

LEMMA TotalOfMore ==
  ASSUME NEW rs \in Seq(Record), NEW r \in Record
  PROVE  total(rs) \in Nat /\ total(Append(rs, r)) = total(rs) + r.points
<1> DEFINE n == Len(rs)
           more == Append(rs, r)
<1>0. /\ n \in Nat /\ \A i \in 1..n : rs[i].points \in Nat
      /\ more \in Seq(Record) /\ Len(more) = n + 1 /\ more[n + 1] = r /\ \A i \in 1..n : more[i] = rs[i]
  <2>1. Pool \in Nat
    BY CommunityAssumption
  <2>2. n \in Nat /\ \A i \in 1..n : rs[i] \in Record
    OBVIOUS
  <2>3. \A q \in Record : q.points \in Nat
    BY <2>1 DEF Record
  <2>4. more \in Seq(Record) /\ Len(more) = n + 1 /\ more[n + 1] = r /\ \A i \in 1..n : more[i] = rs[i]
    OBVIOUS
  <2> QED BY <2>2, <2>3, <2>4
<1>1. PICK h : tallies(rs, h) /\ total(rs) = h[1..n]
  BY TotalIsATally
<1>2. PICK k : tallies(more, k) /\ total(more) = k[1..(n + 1)]
  <2> HIDE DEF more
  <2> QED BY <1>0, TotalIsATally
<1> HIDE DEF more
<1>3. \A s \in SUBSET (1..n) : h[s] = tally(rs, h, s)
  BY <1>1 DEF tallies
<1>4. \A s \in SUBSET (1..(n + 1)) : k[s] = tally(more, k, s)
  BY <1>0, <1>2 DEF tallies
<1>5. SUBSET (1..n) \subseteq SUBSET (1..(n + 1))
  BY <1>0
<1>6. \A s \in SUBSET (1..n) : s # {} => Max(s) \in 1..n
  BY <1>0, LastOf
<1> DEFINE G == {s \in SUBSET (1..n) : h[s] \in Nat /\ k[s] = h[s]}
<1>7. {} \in G
  <2>1. h[{}] = 0
    BY <1>3 DEF tally
  <2>2. k[{}] = 0
    BY <1>4, <1>5 DEF tally
  <2> QED BY <2>1, <2>2
<1>8. ASSUME NEW s \in SUBSET (1..n), s # {}, s \ {Max(s)} \in G PROVE s \in G
  <2>1. h[s] = h[s \ {Max(s)}] + rs[Max(s)].points
    BY <1>3, <1>8 DEF tally
  <2>2. k[s] = k[s \ {Max(s)}] + more[Max(s)].points
    BY <1>4, <1>5, <1>8 DEF tally
  <2> QED BY <1>0, <1>6, <1>8, <2>1, <2>2
<1>9. 1..n \in G
  <2> HIDE DEF G
  <2> QED BY <1>0, <1>7, <1>8, EveryPositions
<1>10. PICK x \in 1..(n + 1) : x = Max(1..(n + 1)) /\ \A y \in 1..(n + 1) : y <= x
  <2>1. 1..(n + 1) # {} /\ n + 1 \in Nat
    BY <1>0
  <2> QED BY <2>1, LastOf
<1>11. x = n + 1 /\ (1..(n + 1)) \ {x} = 1..n
  <2>1. x = n + 1
    BY <1>0, <1>10
  <2> QED BY <1>0, <2>1
<1>12. k[1..(n + 1)] = k[1..n] + r.points
  <2>1. k[1..(n + 1)] = k[(1..(n + 1)) \ {x}] + more[x].points
    BY <1>0, <1>4, <1>10 DEF tally
  <2> QED BY <1>0, <1>11, <2>1
<1> QED BY <1>1, <1>2, <1>9, <1>12 DEF more

LEMMA TotalOfNone == total(<<>>) = 0
<1>1. PICK e \in Seq(Record) : e = <<>> /\ Len(e) = 0
  <2>1. <<>> \in Seq(Record) /\ Len(<<>>) = 0
    OBVIOUS
  <2> QED BY <2>1
<1>2. PICK h : tallies(e, h) /\ total(e) = h[1..0]
  BY <1>1, TotalIsATally
<1>3. 1..0 = {}
  OBVIOUS
<1>4. h[{}] = 0
  BY <1>1, <1>2, <1>3 DEF tallies, tally
<1> QED BY <1>1, <1>2, <1>3, <1>4

(* One call of append, event after event.                                  *)
LEMMA TakesIsAppended ==
  ASSUME NEW store, NEW e
  PROVE  takes(store, e) = appended(store, e)
BY DEF takes

taking(sent, base, h, s) == IF s = {} THEN base ELSE takes(h[s \ {Max(s)}], sent[Max(s)])

appends(n, sent, base, h) ==
  /\ h = [s \in SUBSET (1..n) |-> taking(sent, base, h, s)]
  /\ FoldLeft(takes, base, sent) = h[1..n]

LEMMA AppendFolds ==
  ASSUME NEW n \in Nat, NEW S, NEW sent \in [1..n -> S], NEW base, NEW V, base \in V,
         \A v \in V : \A i \in 1..n : takes(v, sent[i]) \in V
  PROVE  \E h : appends(n, sent, base, h)
<1> DEFINE F == [p \in V \X (1..n) |-> takes(p[1], sent[p[2]])]
           W == [s \in SUBSET (1..n) |-> V]
<1>0. \A s \in SUBSET (1..n) : s # {} => Max(s) \in 1..n /\ s \ {Max(s)} \in SUBSET (1..n)
  BY LastOf
<1>1. PICK h : folds(F, base, n, h)
  <2> HIDE DEF F
  <2> QED BY FoldExists
<1>2. \A s \in SUBSET (1..n) : h[s] \in V
  <2>2. \A s \in SUBSET (1..n) : s # {} => \A v \in W[s \ {Max(s)}] : F[<<v, Max(s)>>] \in W[s]
    BY <1>0
  <2>3. base \in W[{}]
    OBVIOUS
  <2>4. \A s \in SUBSET (1..n) : h[s] \in W[s]
    <3> HIDE DEF F, W
    <3> QED BY <1>1, <2>2, <2>3, FoldKeeps
  <2> QED BY <2>4
<1>3. \A s \in SUBSET (1..n) : folded(F, base, h, s) = taking(sent, base, h, s)
  <2> SUFFICES ASSUME NEW s \in SUBSET (1..n), s # {} PROVE folded(F, base, h, s) = taking(sent, base, h, s)
    BY DEF folded, taking
  <2>2. F[<<h[s \ {Max(s)}], Max(s)>>] = takes(h[s \ {Max(s)}], sent[Max(s)])
    BY <1>0, <1>2
  <2> HIDE DEF F
  <2> QED BY <2>2 DEF folded, taking
<1>4. h = [s \in SUBSET (1..n) |-> taking(sent, base, h, s)]
  <2> HIDE DEF F
  <2> QED BY <1>1, <1>3 DEF folds
<1>5. DOMAIN sent = 1..n
  OBVIOUS
<1> DEFINE P(g) == g = [s \in SUBSET (DOMAIN sent) |-> IF s = {} THEN base ELSE takes(g[s \ {Max(s)}], sent[Max(s)])]
<1>6. P(h)
  BY <1>4, <1>5 DEF taking
<1>7. \E g : P(g)
  <2> HIDE DEF P
  <2> QED BY <1>6
<1>8. \E g : P(g) /\ FoldLeft(takes, base, sent) = g[DOMAIN sent]
  BY <1>7 DEF FoldLeft, MapThenFoldSet
<1>9. PICK g : P(g) /\ FoldLeft(takes, base, sent) = g[DOMAIN sent]
  <2> HIDE DEF P
  <2> QED BY <1>8
<1>10. g = [s \in SUBSET (1..n) |-> taking(sent, base, g, s)]
  BY <1>5, <1>9 DEF taking
<1>11. appends(n, sent, base, g)
  BY <1>5, <1>9, <1>10 DEF appends
<1> QED BY <1>11

(* Sequences in ascending order.                                           *)
ascends(s, n) == \A i, j \in 1..n : i < j => s[i] < s[j]

LEMMA Sorting ==
  ASSUME NEW n \in Nat, NEW S \in SUBSET Nat, IsFiniteSet(S), Cardinality(S) = n
  PROVE  \E s \in [1..n -> S] : ascends(s, n)
<1> DEFINE G == {k \in Nat : \A T \in SUBSET Nat : IsFiniteSet(T) /\ Cardinality(T) = k
                            => \E s \in [1..k -> T] : ascends(s, k)}
<1>1. 0 \in G
  <2> SUFFICES ASSUME NEW T \in SUBSET Nat, IsFiniteSet(T), Cardinality(T) = 0
               PROVE  \E s \in [1..0 -> T] : ascends(s, 0)
    OBVIOUS
  <2>1. [i \in 1..0 |-> i] \in [1..0 -> T] /\ ascends([i \in 1..0 |-> i], 0)
    BY DEF ascends
  <2> QED BY <2>1
<1>2. ASSUME NEW k \in Nat, k \in G PROVE k + 1 \in G
  <2> SUFFICES ASSUME NEW T \in SUBSET Nat, IsFiniteSet(T), Cardinality(T) = k + 1
               PROVE  \E s \in [1..(k + 1) -> T] : ascends(s, k + 1)
    OBVIOUS
  <2> DEFINE f == [x \in T |-> x]
  <2>1. T # {} /\ f \in [T -> Nat]
    BY FS_EmptySet
  <2>2. PICK m \in T : \A y \in T : f[m] <= f[y]
    <3> HIDE DEF f
    <3> QED BY <2>1, Smallest
  <2>3. PICK R \in SUBSET Nat : R = T \ {m}
    OBVIOUS
  <2>4. IsFiniteSet(R) /\ Cardinality(R) = k
    <3>1. Cardinality(R) = (k + 1) - 1 /\ IsFiniteSet(R)
      BY <2>3, FS_RemoveElement
    <3> QED BY <3>1
  <2>5. PICK s \in [1..k -> R] : ascends(s, k)
    BY <1>2, <2>4
  <2>6. \A i \in 1..k : s[i] \in T /\ m < s[i]
    <3> SUFFICES ASSUME NEW i \in 1..k PROVE s[i] \in T /\ m < s[i]
      OBVIOUS
    <3>1. s[i] \in T /\ s[i] # m /\ m \in Nat /\ s[i] \in Nat
      BY <2>3
    <3>2. f[m] = m /\ f[s[i]] = s[i]
      BY <3>1
    <3>3. m <= s[i]
      <4> HIDE DEF f
      <4> QED BY <2>2, <3>1, <3>2
    <3> QED BY <3>1, <3>3
  <2> DEFINE t == [i \in 1..(k + 1) |-> IF i = 1 THEN m ELSE s[i - 1]]
  <2>7. \A i \in 1..(k + 1) : i = 1 \/ i - 1 \in 1..k
    OBVIOUS
  <2>8. t \in [1..(k + 1) -> T]
    BY <2>6, <2>7
  <2>9. ascends(t, k + 1)
    <3> SUFFICES ASSUME NEW i \in 1..(k + 1), NEW j \in 1..(k + 1), i < j PROVE t[i] < t[j]
      BY DEF ascends
    <3>1. j - 1 \in 1..k /\ t[j] = s[j - 1]
      OBVIOUS
    <3>2. CASE i = 1
      BY <2>6, <3>1, <3>2
    <3>3. CASE i # 1
      <4>1. i - 1 \in 1..k /\ t[i] = s[i - 1] /\ i - 1 < j - 1
        BY <3>3
      <4> QED BY <2>5, <3>1, <4>1 DEF ascends
    <3> QED BY <3>2, <3>3
  <2> QED BY <2>8, <2>9
<1>3. n \in G
  <2> HIDE DEF G
  <2> QED BY <1>1, <1>2, EveryNumber
<1> QED BY <1>3

firstOf(s, l) == {s[i] : i \in 1..l}

LEMMA CountAscending ==
  ASSUME NEW n \in Nat, NEW S \in SUBSET Nat, NEW s \in [1..n -> S], ascends(s, n), NEW k \in 0..n
  PROVE  Cardinality(firstOf(s, k)) = k
<1> DEFINE G == {l \in Nat : l <= n => IsFiniteSet(firstOf(s, l)) /\ Cardinality(firstOf(s, l)) = l}
<1>1. 0 \in G
  <2>1. firstOf(s, 0) = {}
    BY DEF firstOf
  <2> QED BY <2>1, FS_EmptySet
<1>2. ASSUME NEW l \in Nat, l \in G PROVE l + 1 \in G
  <2> SUFFICES ASSUME l + 1 <= n
               PROVE  IsFiniteSet(firstOf(s, l + 1)) /\ Cardinality(firstOf(s, l + 1)) = l + 1
    OBVIOUS
  <2>1. firstOf(s, l + 1) = firstOf(s, l) \cup {s[l + 1]}
    <3>1. 1..(l + 1) = (1..l) \cup {l + 1}
      OBVIOUS
    <3> QED BY <3>1 DEF firstOf
  <2>2. s[l + 1] \notin firstOf(s, l)
    <3> SUFFICES ASSUME NEW i \in 1..l PROVE s[i] # s[l + 1]
      BY DEF firstOf
    <3>1. i \in 1..n /\ l + 1 \in 1..n /\ i < l + 1
      OBVIOUS
    <3>2. s[i] \in Nat /\ s[l + 1] \in Nat
      BY <3>1
    <3>3. s[i] < s[l + 1]
      BY <3>1 DEF ascends
    <3> QED BY <3>2, <3>3
  <2>3. IsFiniteSet(firstOf(s, l)) /\ Cardinality(firstOf(s, l)) = l
    BY <1>2
  <2> QED BY <2>1, <2>2, <2>3, FS_AddElement
<1>3. k \in G
  <2> HIDE DEF G
  <2> QED BY <1>1, <1>2, EveryNumber
<1> QED BY <1>3

(* ascending(S) goes through all of S, and before the i-th element come    *)
(* those that are lower.                                                   *)
LEMMA Ascending ==
  ASSUME NEW S \in SUBSET Nat, IsFiniteSet(S), NEW n, n = Cardinality(S)
  PROVE  /\ n \in Nat /\ ascending(S) \in [1..n -> S] /\ ascends(ascending(S), n)
         /\ \A x \in S : \E i \in 1..n : ascending(S)[i] = x
         /\ \A i \in 1..n : Cardinality({g \in S : g < ascending(S)[i]}) = i - 1
<1>0. n \in Nat
  BY FS_CardinalityType
<1>1. PICK s \in [1..n -> S] : s = ascending(S) /\ ascends(s, n)
  BY <1>0, Sorting DEF ascending, ascends
<1>2. firstOf(s, n) = S
  <2>1. Cardinality(firstOf(s, n)) = n
    <3>1. n \in 0..n
      BY <1>0
    <3> QED BY <1>0, <1>1, <3>1, CountAscending
  <2>2. firstOf(s, n) \in SUBSET S
    BY DEF firstOf
  <2> QED BY <2>1, <2>2, FS_Subset
<1>3. ASSUME NEW i \in 1..n PROVE Cardinality({g \in S : g < s[i]}) = i - 1
  <2>1. PICK k \in 0..n : k = i - 1
    BY <1>0
  <2>2. \A j \in 1..n : s[j] < s[i] <=> j \in 1..k
    <3> SUFFICES ASSUME NEW j \in 1..n PROVE s[j] < s[i] <=> j \in 1..k
      OBVIOUS
    <3>0. s[i] \in S /\ s[j] \in S
      OBVIOUS
    <3>1. s[i] \in Nat /\ s[j] \in Nat /\ i \in Nat /\ j \in Nat
      <4>1. s[i] \in Nat /\ s[j] \in Nat
        BY <3>0
      <4>2. i \in Nat /\ j \in Nat
        BY <1>0
      <4> QED BY <4>1, <4>2
    <3>2. CASE j < i
      BY <1>0, <1>1, <2>1, <3>1, <3>2 DEF ascends
    <3>3. CASE j = i
      BY <1>0, <2>1, <3>1, <3>3
    <3>4. CASE i < j
      BY <1>0, <1>1, <2>1, <3>1, <3>4 DEF ascends
    <3> QED BY <3>1, <3>2, <3>3, <3>4
  <2>3. {g \in S : g < s[i]} = firstOf(s, k)
    <3>1. \A g \in S : g < s[i] => g \in firstOf(s, k)
      BY <1>2, <2>2 DEF firstOf
    <3>2. \A j \in 1..k : j \in 1..n
      BY <1>0
    <3>3. \A g \in firstOf(s, k) : g \in S /\ g < s[i]
      BY <2>2, <3>2 DEF firstOf
    <3> QED BY <3>1, <3>3
  <2>4. Cardinality(firstOf(s, k)) = k
    BY <1>0, <1>1, CountAscending
  <2> QED BY <2>1, <2>3, <2>4
<1>4. \A x \in S : \E i \in 1..n : s[i] = x
  BY <1>2 DEF firstOf
<1> QED BY <1>0, <1>1, <1>3, <1>4

(* The rank in the sorted list is the number of those that are lower.      *)
LEMMA SortedRank ==
  ASSUME NEW S \in SUBSET Nat, IsFiniteSet(S), NEW x \in S
  PROVE  (CHOOSE i \in 1..Cardinality(S) : ascending(S)[i] = x) - 1 = Cardinality({g \in S : g < x})
<1>1. PICK n \in Nat : n = Cardinality(S)
  BY FS_CardinalityType
<1>2. PICK i \in 1..n : i = CHOOSE j \in 1..n : ascending(S)[j] = x
  BY <1>1, Ascending
<1>3. ascending(S)[i] = x
  BY <1>1, <1>2, Ascending
<1>4. Cardinality({g \in S : g < ascending(S)[i]}) = i - 1
  BY <1>1, Ascending
<1> QED BY <1>1, <1>2, <1>3, <1>4

-----------------------------------------------------------------------------
(* What a journal that is told a sequence of events, accepted or not,      *)
(* knows after each of them.                                               *)
Captured ==
  {e \in [kind: Kinds, actor: Members \cup {Nobody}, subject: Members, assignment: Nat, value: 0..3] :
     e.kind \in {"assigned", "check_in", "contribution", "gratitude"} => e.subject \in Guardians}

path(s, h) ==
  /\ h \in [0..Len(s) -> Chronicle]
  /\ \A i \in 1..Len(s) : h[i] = told(h[i - 1], s[i])

tells(c, s, d) == \E h : path(s, h) /\ h[0] = c /\ h[Len(s)] = d

(* A capture and the same event in the outbox.                             *)
alike(e, x) ==
  /\ e.kind = x.kind /\ e.actor = x.actor /\ e.subject = x.subject
  /\ e.assignment = x.assignment /\ e.value = x.value

LEMMA ToldAlike ==
  ASSUME NEW c, NEW e, NEW x, alike(e, x)
  PROVE  told(c, e) = told(c, x)
BY DEF alike, told

LEMMA ToldCaptured ==
  ASSUME NEW c \in Chronicle, NEW e \in Captured
  PROVE  told(c, e) \in Chronicle
<1>1. /\ c.next \in Nat /\ c.assignment \in Nat /\ c.guardian \in Guardians \cup {Nobody}
      /\ c.outcome \in 0..3 /\ c.last \in [Guardians -> Nat] /\ c.checked \subseteq Guardians
      /\ c.credited \subseteq Guardians /\ c.thanked \subseteq Guardians
  BY DEF Chronicle
<1>2. /\ e.assignment \in Nat /\ e.value \in 0..3
      /\ e.kind \in {"assigned", "check_in", "contribution", "gratitude"} => e.subject \in Guardians
  BY DEF Captured
<1>3. PICK l \in [Guardians -> Nat] : l = IF e.kind = "assigned" THEN [c.last EXCEPT ![e.subject] = e.assignment] ELSE c.last
  BY <1>1, <1>2
<1>4. c.next + 1 \in Nat
  BY <1>1
<1>5. /\ (IF e.kind = "assigned" THEN e.assignment ELSE c.assignment) \in Nat
      /\ (IF e.kind = "assigned" THEN e.subject ELSE c.guardian) \in Guardians \cup {Nobody}
      /\ (IF e.kind = "closed" THEN e.value ELSE c.outcome) \in 0..3
      /\ (IF e.kind = "check_in" THEN c.checked \cup {e.subject} ELSE c.checked) \subseteq Guardians
      /\ (IF e.kind = "contribution" THEN c.credited \cup {e.subject} ELSE c.credited) \subseteq Guardians
      /\ (IF e.kind = "gratitude" THEN c.thanked \cup {e.subject} ELSE c.thanked) \subseteq Guardians
  BY <1>1, <1>2
<1> QED BY <1>3, <1>4, <1>5 DEF told, Chronicle

goesOn(s, h, t, d, k) ==
  path(s \o t, k) /\ k[Len(s \o t)] = d /\ \A i \in 0..Len(s) : k[i] = h[i]

LEMMA PathGoesOn ==
  ASSUME NEW T, NEW s \in Seq(T), NEW t \in Seq(T), NEW h, path(s, h),
         NEW c, h[Len(s)] = c, NEW d, tells(c, t, d)
  PROVE  \E k : goesOn(s, h, t, d, k)
<1>1. PICK g : path(t, g) /\ g[0] = h[Len(s)] /\ g[Len(t)] = d
  BY DEF tells
<1>2. PICK m \in Nat : m = Len(s)
  OBVIOUS
<1>3. PICK n \in Nat : n = Len(t)
  OBVIOUS
<1>4. /\ Len(s \o t) = m + n
      /\ \A i \in 1..m : (s \o t)[i] = s[i]
      /\ \A i \in (m + 1)..(m + n) : (s \o t)[i] = t[i - m]
  BY <1>2, <1>3
<1>5. /\ h \in [0..m -> Chronicle] /\ \A i \in 1..m : h[i] = told(h[i - 1], s[i])
      /\ g \in [0..n -> Chronicle] /\ \A i \in 1..n : g[i] = told(g[i - 1], t[i])
      /\ g[0] = h[m] /\ g[n] = d
  BY <1>1, <1>2, <1>3 DEF path
<1> DEFINE k == [i \in 0..(m + n) |-> IF i <= m THEN h[i] ELSE g[i - m]]
<1>6. k \in [0..(m + n) -> Chronicle]
  <2>1. \A i \in 0..(m + n) : (i <= m => i \in 0..m) /\ (~(i <= m) => i - m \in 0..n)
    OBVIOUS
  <2> QED BY <1>5, <2>1
<1>7. \A i \in 0..n : k[i + m] = g[i]
  <2> SUFFICES ASSUME NEW i \in 0..n PROVE k[i + m] = g[i]
    OBVIOUS
  <2>1. i + m \in 0..(m + n) /\ (i + m) - m = i /\ (i + m <= m => i = 0)
    OBVIOUS
  <2> QED BY <1>5, <2>1
<1>8. \A i \in 0..m : k[i] = h[i]
  OBVIOUS
<1>9. ASSUME NEW i \in 1..(m + n) PROVE k[i] = told(k[i - 1], (s \o t)[i])
  <2> HIDE DEF k
  <2>1. CASE i <= m
    <3>1. i \in 1..m /\ i \in 0..m /\ i - 1 \in 0..m
      BY <2>1
    <3> QED BY <1>4, <1>5, <1>8, <3>1
  <2>2. CASE ~(i <= m)
    <3>1. PICK j \in 1..n : j = i - m
      BY <2>2
    <3>2. j \in 0..n /\ j - 1 \in 0..n /\ i = j + m /\ i - 1 = (j - 1) + m /\ i \in (m + 1)..(m + n)
      BY <3>1
    <3>3. k[i] = g[j] /\ k[i - 1] = g[j - 1]
      BY <1>7, <3>2
    <3> QED BY <1>4, <1>5, <3>1, <3>2, <3>3
  <2> QED BY <2>1, <2>2
<1>10. k[m + n] = d
  <2>1. n \in 0..n /\ n + m = m + n
    OBVIOUS
  <2> HIDE DEF k
  <2> QED BY <1>5, <1>7, <2>1
<1> HIDE DEF k
<1>11. path(s \o t, k)
  BY <1>4, <1>6, <1>9 DEF path
<1>12. goesOn(s, h, t, d, k)
  BY <1>2, <1>4, <1>8, <1>10, <1>11 DEF goesOn
<1> QED BY <1>12

LEMMA TellsOn ==
  ASSUME NEW T, NEW s \in Seq(T), NEW t \in Seq(T), NEW c, NEW d, NEW f, tells(c, s, d), tells(d, t, f)
  PROVE  tells(c, s \o t, f)
<1>1. PICK h : path(s, h) /\ h[0] = c /\ h[Len(s)] = d
  BY DEF tells
<1>2. PICK k : goesOn(s, h, t, f, k)
  BY <1>1, PathGoesOn
<1>3. 0 \in 0..Len(s)
  OBVIOUS
<1> QED BY <1>1, <1>2, <1>3 DEF tells, goesOn

LEMMA TellsNothing ==
  ASSUME NEW c \in Chronicle
  PROVE  tells(c, <<>>, c)
<1>1. PICK n : n = Len(<<>>) /\ n = 0
  OBVIOUS
<1> DEFINE h == [i \in 0..n |-> c]
<1>2. h \in [0..n -> Chronicle] /\ h[0] = c /\ h[n] = c /\ 1..n = {}
  BY <1>1
<1> HIDE DEF h
<1>3. path(<<>>, h)
  BY <1>1, <1>2 DEF path
<1> QED BY <1>1, <1>2, <1>3 DEF tells

LEMMA TellsOne ==
  ASSUME NEW c \in Chronicle, NEW e \in Captured
  PROVE  tells(c, <<e>>, told(c, e))
<1>1. PICK d \in Chronicle : d = told(c, e)
  BY ToldCaptured
<1>2. PICK s : s = <<e>> /\ Len(s) = 1 /\ s[1] = e
  <2>1. Len(<<e>>) = 1
    OBVIOUS
  <2>2. <<e>>[1] = e
    OBVIOUS
  <2> QED BY <2>1, <2>2
<1> DEFINE h == [i \in 0..1 |-> IF i = 0 THEN c ELSE d]
<1>3. h \in [0..1 -> Chronicle] /\ h[0] = c /\ h[1] = d
  OBVIOUS
<1> HIDE DEF h
<1>4. \A i \in 1..1 : i = 1 /\ i - 1 = 0
  OBVIOUS
<1>5. path(s, h)
  BY <1>1, <1>2, <1>3, <1>4 DEF path
<1> QED BY <1>1, <1>2, <1>3, <1>5 DEF tells

LEMMA TellsNumbered ==
  ASSUME NEW s \in Seq(Captured), NEW n \in Nat, NEW c, NEW d, tells(c, s, d)
  PROVE  /\ tells(c, numbered(s, n), d)
         /\ numbered(s, n) \in Seq(Event) /\ Len(numbered(s, n)) = Len(s)
         /\ \A i \in 1..Len(s) : numbered(s, n)[i].sequence = n + i - 1
<1>1. PICK h : path(s, h) /\ h[0] = c /\ h[Len(s)] = d
  BY DEF tells
<1>2. PICK m \in Nat : m = Len(s) /\ \A i \in 1..m : s[i] \in Captured
  OBVIOUS
<1> DEFINE x(i) == [sequence |-> n + i - 1, kind |-> s[i].kind, actor |-> s[i].actor, subject |-> s[i].subject,
                    assignment |-> s[i].assignment, value |-> s[i].value]
<1>3. PICK t : t = [i \in 1..m |-> x(i)]
  OBVIOUS
<1>4. t = numbered(s, n)
  BY <1>2, <1>3 DEF numbered
<1>5. \A i \in 1..m : x(i) \in Event /\ x(i).sequence = n + i - 1 /\ alike(x(i), s[i])
  <2> SUFFICES ASSUME NEW i \in 1..m PROVE x(i) \in Event /\ x(i).sequence = n + i - 1 /\ alike(x(i), s[i])
    OBVIOUS
  <2>1. n + i - 1 \in Nat
    OBVIOUS
  <2>2. /\ s[i].kind \in Kinds /\ s[i].actor \in Members \cup {Nobody} /\ s[i].subject \in Members
        /\ s[i].assignment \in Nat /\ s[i].value \in 0..3
    BY <1>2 DEF Captured
  <2> QED BY <2>1, <2>2 DEF Event, alike
<1> HIDE DEF x
<1>6. t \in Seq(Event) /\ Len(t) = m /\ \A i \in 1..m : t[i] = x(i)
  BY <1>3, <1>5
<1>7. \A i \in 1..m : h[i] = told(h[i - 1], t[i])
  <2> SUFFICES ASSUME NEW i \in 1..m PROVE h[i] = told(h[i - 1], t[i])
    OBVIOUS
  <2>1. h[i] = told(h[i - 1], s[i])
    BY <1>1, <1>2 DEF path
  <2>2. told(h[i - 1], t[i]) = told(h[i - 1], s[i])
    BY <1>5, <1>6, ToldAlike
  <2> QED BY <2>1, <2>2
<1>8. path(t, h)
  BY <1>1, <1>2, <1>6, <1>7 DEF path
<1>9. tells(c, t, d)
  BY <1>1, <1>2, <1>6, <1>8 DEF tells
<1> QED BY <1>2, <1>4, <1>5, <1>6, <1>9

(* Capture is made of sequences put one after the other.                   *)
flat(q, n, f) == f = [i \in 1..n |-> IF i = 1 THEN q[i] ELSE f[i - 1] \o q[i]]

LEMMA FlatExists ==
  ASSUME NEW q, NEW n \in Nat
  PROVE  \E f : flat(q, n, f)
<1> DEFINE G == {k \in Nat : \E f : flat(q, k, f)}
<1>1. 0 \in G
  <2>1. flat(q, 0, [i \in 1..0 |-> q[i]])
    BY DEF flat
  <2> QED BY <2>1
<1>2. ASSUME NEW k \in Nat, k \in G PROVE k + 1 \in G
  <2>1. PICK f : flat(q, k, f)
    BY <1>2
  <2> DEFINE x(i) == IF i = 1 THEN q[i] ELSE f[i - 1] \o q[i]
  <2>2. PICK g : g = [i \in 1..(k + 1) |-> x(i)]
    OBVIOUS
  <2>3. \A i \in 1..k : f[i] = x(i)
    BY <2>1 DEF flat
  <2>4. \A i \in 1..k : g[i] = f[i]
    <3> HIDE DEF x
    <3> QED BY <2>2, <2>3
  <2>5. \A i \in 1..(k + 1) : i = 1 \/ i - 1 \in 1..k
    OBVIOUS
  <2>6. \A i \in 1..(k + 1) : x(i) = IF i = 1 THEN q[i] ELSE g[i - 1] \o q[i]
    BY <2>4, <2>5
  <2>7. flat(q, k + 1, g)
    <3> HIDE DEF x
    <3> QED BY <2>2, <2>6 DEF flat
  <2> QED BY <2>7
<1>3. n \in G
  <2> HIDE DEF G
  <2> QED BY <1>1, <1>2, EveryNumber
<1> QED BY <1>3

LEMMA Flattened ==
  ASSUME NEW S, NEW n \in Nat, NEW q, DOMAIN q = 1..n, q = [i \in 1..n |-> q[i]],
         \A i \in 1..n : q[i] \in Seq(S)
  PROVE  FlattenSeq(q) \in Seq(S)
<1>1. q \in Seq(Seq(S)) /\ Len(q) = n
  <2>1. PICK r : r = [i \in 1..n |-> q[i]]
    OBVIOUS
  <2>2. r \in Seq(Seq(S)) /\ Len(r) = n
    BY <2>1
  <2> QED BY <2>1, <2>2
<1>2. CASE n = 0
  <2>1. q = <<>>
    BY <1>1, <1>2
  <2>2. FlattenSeq(q) = q
    BY <1>1, <1>2 DEF FlattenSeq
  <2>3. <<>> \in Seq(S)
    OBVIOUS
  <2> QED BY <2>1, <2>2, <2>3
<1>3. CASE n # 0
  <2>1. \E f : flat(q, n, f)
    BY FlatExists
  <2> DEFINE P(f) == f = [i \in 1..Len(q) |-> IF i = 1 THEN q[i] ELSE f[i - 1] \o q[i]]
  <2>2. \E f : P(f)
    BY <1>1, <2>1 DEF flat
  <2>3. \E f : P(f) /\ FlattenSeq(q) = f[Len(q)]
    BY <1>1, <1>3, <2>2 DEF FlattenSeq
  <2>4. PICK f : P(f) /\ FlattenSeq(q) = f[Len(q)]
    <3> HIDE DEF P
    <3> QED BY <2>3
  <2>5. \A i \in 1..n : f[i] = IF i = 1 THEN q[i] ELSE f[i - 1] \o q[i]
    BY <1>1, <2>4
  <2> DEFINE G == {k \in Nat : k + 1 <= n => f[k + 1] \in Seq(S)}
  <2>6. 0 \in G
    <3>1. 1 \in 1..n /\ 0 + 1 = 1
      BY <1>3
    <3> QED BY <2>5, <3>1
  <2>7. ASSUME NEW k \in Nat, k \in G PROVE k + 1 \in G
    <3> SUFFICES ASSUME (k + 1) + 1 <= n PROVE f[(k + 1) + 1] \in Seq(S)
      OBVIOUS
    <3>1. f[k + 1] \in Seq(S)
      BY <2>7
    <3>2. (k + 1) + 1 \in 1..n /\ (k + 1) + 1 # 1 /\ ((k + 1) + 1) - 1 = k + 1
      OBVIOUS
    <3>3. f[(k + 1) + 1] = f[k + 1] \o q[(k + 1) + 1]
      BY <2>5, <3>2
    <3> QED BY <3>1, <3>2, <3>3
  <2>8. n - 1 \in G
    <3>1. n - 1 \in Nat
      BY <1>3
    <3> HIDE DEF G
    <3> QED BY <2>6, <2>7, <3>1, EveryNumber
  <2>9. f[n] \in Seq(S)
    <3>1. (n - 1) + 1 = n
      OBVIOUS
    <3> QED BY <2>8, <3>1
  <2> QED BY <1>1, <2>4, <2>9
<1> QED BY <1>2, <1>3

LEMMA Listed ==
  ASSUME NEW S \in SUBSET Nat, IsFiniteSet(S)
  PROVE  Cardinality(S) \in Nat /\ SetToSeq(S) \in [1..Cardinality(S) -> S]
<1>1. PICK n \in Nat : n = Cardinality(S)
  BY FS_CardinalityType
<1>2. PICK s \in [1..n -> S] : ascends(s, n)
  BY <1>1, Sorting
<1>3. IsInjective(s)
  <2>1. DOMAIN s = 1..n
    OBVIOUS
  <2>2. ASSUME NEW i \in 1..n, NEW j \in 1..n, s[i] = s[j] PROVE i = j
    <3>1. s[i] \in S /\ s[j] \in S
      OBVIOUS
    <3>2. s[i] \in Nat /\ s[j] \in Nat
      BY <3>1
    <3>3. ~(i < j) /\ ~(j < i)
      BY <1>2, <2>2, <3>2 DEF ascends
    <3> QED BY <3>3
  <2> QED BY <2>1, <2>2 DEF IsInjective
<1> QED BY <1>1, <1>2, <1>3 DEF SetToSeq

-----------------------------------------------------------------------------
(* What most events leave as it was.                                       *)
same(c, d) ==
  /\ d.assignment = c.assignment /\ d.guardian = c.guardian /\ d.last = c.last
  /\ d.outcome = c.outcome /\ d.checked = c.checked

Quiet == {e \in Captured : e.kind \in {"relay_requested", "agent_service", "contribution", "gratitude"}}

LEMMA TellsQuietly ==
  ASSUME NEW s \in Seq(Quiet), NEW c \in Chronicle
  PROVE  \E d \in Chronicle : tells(c, s, d) /\ same(c, d)
<1>1. PICK n \in Nat : n = Len(s) /\ \A i \in 1..n : s[i] \in Quiet
  OBVIOUS
<1> DEFINE told_up_to(k, h) == /\ h \in [0..k -> Chronicle] /\ h[0] = c /\ same(c, h[k])
                               /\ \A i \in 1..k : h[i] = told(h[i - 1], s[i])
           G == {k \in Nat : k <= n => \E h : told_up_to(k, h)}
<1>2. 0 \in G
  <2>1. [i \in 0..0 |-> c] \in [0..0 -> Chronicle] /\ [i \in 0..0 |-> c][0] = c /\ 1..0 = {}
    OBVIOUS
  <2>2. same(c, c)
    BY DEF same
  <2> QED BY <2>1, <2>2
<1>3. ASSUME NEW k \in Nat, k \in G PROVE k + 1 \in G
  <2> SUFFICES ASSUME k + 1 <= n PROVE \E h : told_up_to(k + 1, h)
    OBVIOUS
  <2>1. PICK h : told_up_to(k, h)
    BY <1>3
  <2>2. s[k + 1] \in Quiet /\ s[k + 1] \in Captured /\ h[k] \in Chronicle
    BY <1>1, <2>1 DEF Quiet
  <2>3. PICK d \in Chronicle : d = told(h[k], s[k + 1])
    BY <2>2, ToldCaptured
  <2>4. same(h[k], d)
    BY <2>2, <2>3 DEF Quiet, told, same
  <2>5. PICK g : g = [i \in 0..(k + 1) |-> IF i <= k THEN h[i] ELSE d]
    OBVIOUS
  <2>6. (\A i \in 0..k : g[i] = h[i]) /\ g[k + 1] = d
    BY <2>5
  <2>7. g \in [0..(k + 1) -> Chronicle]
    BY <2>1, <2>5
  <2>8. ASSUME NEW i \in 1..(k + 1) PROVE g[i] = told(g[i - 1], s[i])
    <3>1. CASE i \in 1..k
      <4>1. i \in 0..k /\ i - 1 \in 0..k
        BY <3>1
      <4> QED BY <2>1, <2>6, <3>1, <4>1
    <3>2. CASE i = k + 1
      <4>1. i - 1 = k /\ k \in 0..k
        BY <3>2
      <4> QED BY <2>3, <2>6, <3>2, <4>1
    <3> QED BY <3>1, <3>2
  <2>9. g[0] = c /\ same(c, g[k + 1])
    <3>1. 0 \in 0..k
      OBVIOUS
    <3> QED BY <2>1, <2>4, <2>6, <3>1 DEF same
  <2> QED BY <2>7, <2>8, <2>9
<1>4. n \in G
  <2> HIDE DEF G
  <2> QED BY <1>2, <1>3, EveryNumber
<1>5. PICK h : told_up_to(n, h)
  BY <1>4
<1>6. path(s, h) /\ h[0] = c /\ h[Len(s)] \in Chronicle /\ same(c, h[Len(s)])
  BY <1>1, <1>5 DEF path
<1> QED BY <1>6 DEF tells

(* One event at a time.                                                    *)
LEMMA OneCapture ==
  ASSUME NEW kind \in Kinds, NEW actor \in Members \cup {Nobody}, NEW subject \in Members,
         NEW number \in Nat, NEW value \in 0..3,
         kind \in {"assigned", "check_in", "contribution", "gratitude"} => subject \in Guardians
  PROVE  \E e \in Captured : /\ of(kind, actor, subject, number, value) = <<e>>
                             /\ e.kind = kind /\ e.actor = actor /\ e.subject = subject
                             /\ e.assignment = number /\ e.value = value
<1>1. PICK e : e = [kind |-> kind, actor |-> actor, subject |-> subject, assignment |-> number, value |-> value]
  OBVIOUS
<1>2. e \in Captured
  BY <1>1 DEF Captured
<1> QED BY <1>1, <1>2 DEF of

LEMMA QuietCapture ==
  ASSUME NEW kind \in {"relay_requested", "agent_service", "contribution", "gratitude"},
         NEW actor \in Members \cup {Nobody}, NEW subject \in Members,
         NEW number \in Nat, NEW value \in 0..3,
         kind \in {"contribution", "gratitude"} => subject \in Guardians
  PROVE  of(kind, actor, subject, number, value) \in Seq(Quiet)
<1>1. kind \in Kinds
  BY DEF Kinds
<1>2. PICK e \in Captured : /\ of(kind, actor, subject, number, value) = <<e>>
                            /\ e.kind = kind /\ e.actor = actor /\ e.subject = subject
                            /\ e.assignment = number /\ e.value = value
  BY <1>1, OneCapture
<1>3. e \in Quiet
  BY <1>2 DEF Quiet
<1> QED BY <1>2, <1>3

LEMMA QuietIsCaptured ==
  ASSUME NEW s \in Seq(Quiet)
  PROVE  s \in Seq(Captured)
BY DEF Quiet

Serving(t) == personalAgentLive(t) => t.guardian # Nobody

LEMMA TripFields ==
  ASSUME NEW t \in Trip
  PROVE  /\ t.status \in {"open", "active", "arrived", "cancelled"} /\ t.guardian \in Guardians \cup {Nobody}
         /\ t.members \subseteq Guardians /\ t.deleted \subseteq Guardians
         /\ t.checkIns \in [Guardians -> 0..MaxCheckIns] /\ t.relay \in Members \cup {Nobody, NoRelay}
         /\ t.agent \in {"none", "granted", "active", "ended", "unavailable", "resumed"}
         /\ t.gratitude \subseteq Guardians /\ t.tail \in {"expired", "other"}
         /\ t.assignment \in Nat /\ t.last \in [Guardians -> Nat] /\ t.checked \subseteq Guardians
BY DEF Trip

LEMMA NobodyElse ==
  /\ Nobody \notin Guardians /\ Rider \notin Guardians /\ NoRelay \notin Members /\ NoRelay # Nobody
  /\ Guardians \subseteq Members /\ Rider \in Members /\ Guardians \in SUBSET Nat
BY CommunityAssumption DEF Nobody, Rider, NoRelay, Members

(* The services of a personal agent and requests of relays.                *)
LEMMA QuietSegments ==
  ASSUME NEW b \in Trip, NEW a \in Trip, Serving(b), Serving(a)
  PROVE  /\ agentStopped(b, a) \in Seq(Quiet)
         /\ agentStarted(b, a) \in Seq(Quiet)
         /\ relayRequested(b, a) \in Seq(Quiet)
<1> USE NobodyElse
<1>0. <<>> \in Seq(Quiet)
  OBVIOUS
<1>00. assignment(b, a) \in Nat /\ b.assignment \in Nat
  BY TripFields DEF assignment
<1>01. \A g \in Guardians : g \in Members /\ g \in Members \cup {Nobody}
  OBVIOUS
<1>02. 0 \in 0..3 /\ 1 \in 0..3 /\ 2 \in 0..3 /\ 3 \in 0..3
  OBVIOUS
<1> HIDE NobodyElse
<1>03. \A g \in Guardians, x \in Members \cup {Nobody}, v \in 0..3, n \in Nat :
         /\ of("agent_service", x, g, n, v) \in Seq(Quiet)
         /\ of("relay_requested", x, g, n, v) \in Seq(Quiet)
  <2> SUFFICES ASSUME NEW g \in Guardians, NEW x \in Members \cup {Nobody}, NEW v \in 0..3, NEW n \in Nat
               PROVE  /\ of("agent_service", x, g, n, v) \in Seq(Quiet)
                      /\ of("relay_requested", x, g, n, v) \in Seq(Quiet)
    OBVIOUS
  <2>1. g \in Members
    BY <1>01
  <2>2. of("agent_service", x, g, n, v) \in Seq(Quiet)
    BY <2>1, QuietCapture
  <2>3. of("relay_requested", x, g, n, v) \in Seq(Quiet)
    BY <2>1, QuietCapture
  <2> QED BY <2>2, <2>3
<1>1. agentStopped(b, a) \in Seq(Quiet)
  <2>0. Nobody \in Members \cup {Nobody}
    OBVIOUS
  <2>1. CASE b.agent = "active"
    <3>1. PICK g \in Guardians : g = b.guardian
      BY <2>1, TripFields DEF Serving, personalAgentLive
    <3>2. /\ of("agent_service", b.guardian, b.guardian, b.assignment, 3) \in Seq(Quiet)
          /\ of("agent_service", Nobody, b.guardian, b.assignment, 2) \in Seq(Quiet)
          /\ of("agent_service", Nobody, b.guardian, b.assignment, 1) \in Seq(Quiet)
      <4>1. g \in Members \cup {Nobody}
        BY <1>01
      <4> QED BY <1>00, <1>02, <1>03, <2>0, <3>1, <4>1
    <3>3. agentStopped(b, a) \in {<<>>, of("agent_service", b.guardian, b.guardian, b.assignment, 3),
              of("agent_service", Nobody, b.guardian, b.assignment, 2),
              of("agent_service", Nobody, b.guardian, b.assignment, 1)}
      BY DEF agentStopped
    <3> QED BY <1>0, <3>2, <3>3
  <2>2. CASE b.agent # "active"
    BY <1>0, <2>2 DEF agentStopped
  <2> QED BY <2>1, <2>2
<1>2. agentStarted(b, a) \in Seq(Quiet)
  <2>1. CASE a.agent = "active"
    <3>1. PICK g \in Guardians : g = a.guardian
      BY <2>1, TripFields DEF Serving, personalAgentLive
    <3>2. of("agent_service", a.guardian, a.guardian, assignment(b, a), 0) \in Seq(Quiet)
      BY <1>00, <1>01, <1>02, <1>03, <3>1
    <3> QED BY <1>0, <3>2 DEF agentStarted
  <2>2. CASE a.agent # "active"
    BY <1>0, <2>2 DEF agentStarted
  <2> QED BY <2>1, <2>2
<1>3. relayRequested(b, a) \in Seq(Quiet)
  <2>1. CASE a.relay # NoRelay /\ b.relay = NoRelay /\ a.guardian # Nobody
    <3>1. a.guardian \in Guardians /\ a.relay \in Members \cup {Nobody}
      BY <2>1, TripFields
    <3>2. /\ of("relay_requested", a.relay, a.guardian, assignment(b, a), 0) \in Seq(Quiet)
          /\ of("relay_requested", a.relay, a.guardian, assignment(b, a), 1) \in Seq(Quiet)
      BY <1>00, <1>02, <1>03, <3>1
    <3> QED BY <2>1, <3>2 DEF relayRequested
  <2>2. CASE ~(a.relay # NoRelay /\ b.relay = NoRelay /\ a.guardian # Nobody)
    <3>1. relayRequested(b, a) = <<>>
      BY <2>2 DEF relayRequested
    <3> QED BY <1>0, <3>1
  <2> QED BY <2>1, <2>2
<1> QED BY <1>1, <1>2, <1>3

(* Lists of contributions and of thanks.                                   *)
LEMMA QuietLists ==
  ASSUME NEW S \in SUBSET Guardians, NEW q, q = [i \in 1..Cardinality(S) |-> q[i]],
         \A g \in S, i \in 1..Cardinality(S) : SetToSeq(S)[i] = g => q[i] \in Seq(Quiet)
  PROVE  FlattenSeq(q) \in Seq(Quiet)
<1>1. IsFiniteSet(S) /\ S \in SUBSET Nat
  BY CommunityAssumption, FS_Subset
<1>2. PICK n \in Nat : n = Cardinality(S) /\ SetToSeq(S) \in [1..n -> S]
  BY <1>1, Listed
<1>3. q = [i \in 1..n |-> q[i]] /\ DOMAIN q = 1..n
  BY <1>2
<1>4. \A i \in 1..n : q[i] \in Seq(Quiet)
  <2> SUFFICES ASSUME NEW i \in 1..n PROVE q[i] \in Seq(Quiet)
    OBVIOUS
  <2>1. PICK g \in S : g = SetToSeq(S)[i]
    BY <1>2
  <2> QED BY <1>2, <2>1
<1> QED BY <1>3, <1>4, Flattened

-----------------------------------------------------------------------------
(* What a journal that knows all that was captured says of the journey.    *)
Tells(c, t) ==
  /\ c.assignment = t.assignment /\ c.last = t.last /\ c.checked = t.checked
  /\ t.guardian \in {c.guardian, Nobody}
  /\ t.checked = {g \in Guardians : t.checkIns[g] > 0}
  /\ (c.outcome # 0) <=> isClosed(t)
  /\ (c.outcome = 1) <=> t.status = "arrived"

LEMMA QuietTells ==
  ASSUME NEW c \in Chronicle, NEW s \in Seq(Quiet)
  PROVE  s \in Seq(Captured) /\ \E d \in Chronicle : tells(c, s, d) /\ same(c, d)
BY TellsQuietly, QuietIsCaptured

afterAssigned(c, d, b, a) ==
  /\ d.assignment = assignment(b, a) /\ d.outcome = c.outcome /\ d.checked = c.checked
  /\ d.guardian = IF replaced(b, a) THEN a.guardian ELSE c.guardian
  /\ d.last = IF replaced(b, a) THEN [c.last EXCEPT ![a.guardian] = assignment(b, a)] ELSE c.last

LEMMA AssignedTells ==
  ASSUME NEW c \in Chronicle, NEW b \in Trip, NEW a \in Trip, c.assignment = b.assignment
  PROVE  /\ assigned(b, a) \in Seq(Captured)
         /\ \E d \in Chronicle : tells(c, assigned(b, a), d) /\ afterAssigned(c, d, b, a)
<1>1. CASE ~replaced(b, a)
  <2>1. assigned(b, a) = <<>> /\ <<>> \in Seq(Captured)
    BY <1>1 DEF assigned
  <2>2. tells(c, <<>>, c)
    BY TellsNothing
  <2>3. assignment(b, a) = c.assignment
    <3>1. b.assignment \in Nat
      BY TripFields
    <3> QED BY <1>1, <3>1 DEF assignment
  <2>4. afterAssigned(c, c, b, a)
    BY <1>1, <2>3 DEF afterAssigned
  <2> QED BY <2>1, <2>2, <2>4
<1>2. CASE replaced(b, a)
  <2>1. a.guardian \in Guardians
    BY <1>2, TripFields DEF replaced
  <2>2. PICK n \in Nat : n = assignment(b, a)
    BY TripFields DEF assignment
  <2>3. "assigned" \in Kinds /\ Rider \in Members \cup {Nobody} /\ 0 \in 0..3 /\ a.guardian \in Members
    BY <2>1 DEF Kinds, Members
  <2>4. PICK e \in Captured : /\ of("assigned", Rider, a.guardian, n, 0) = <<e>>
                              /\ e.kind = "assigned" /\ e.actor = Rider /\ e.subject = a.guardian
                              /\ e.assignment = n /\ e.value = 0
    <3>1. PICK g \in Guardians : g = a.guardian
      BY <2>1
    <3>2. \E e \in Captured : /\ of("assigned", Rider, g, n, 0) = <<e>>
                              /\ e.kind = "assigned" /\ e.actor = Rider /\ e.subject = g
                              /\ e.assignment = n /\ e.value = 0
      <4>1. PICK k \in Kinds : k = "assigned"
        BY <2>3
      <4>2. PICK r \in Members \cup {Nobody} : r = Rider
        BY <2>3
      <4>3. PICK v \in 0..3 : v = 0
        OBVIOUS
      <4>4. g \in Members
        BY <2>3, <3>1
      <4>5. \E e \in Captured : /\ of(k, r, g, n, v) = <<e>>
                              /\ e.kind = k /\ e.actor = r /\ e.subject = g
                              /\ e.assignment = n /\ e.value = v
        BY <4>4, OneCapture
      <4> QED BY <4>1, <4>2, <4>3, <4>5
    <3> QED BY <3>1, <3>2
  <2>5. assigned(b, a) = <<e>>
    BY <1>2, <2>2, <2>4 DEF assigned
  <2>6. PICK d \in Chronicle : d = told(c, e)
    BY ToldCaptured
  <2>7. tells(c, <<e>>, d)
    BY <2>6, TellsOne
  <2>8. /\ d.assignment = n /\ d.outcome = c.outcome /\ d.checked = c.checked
        /\ d.guardian = a.guardian /\ d.last = [c.last EXCEPT ![a.guardian] = n]
    <3>1. d.last = [c.last EXCEPT ![e.subject] = e.assignment]
      BY <2>4, <2>6 DEF told
    <3>2. d.assignment = e.assignment /\ d.outcome = c.outcome /\ d.checked = c.checked /\ d.guardian = e.subject
      BY <2>4, <2>6 DEF told
    <3> QED BY <2>4, <3>1, <3>2
  <2>9. afterAssigned(c, d, b, a)
    BY <1>2, <2>2, <2>8 DEF afterAssigned
  <2>10. <<e>> \in Seq(Captured)
    OBVIOUS
  <2> QED BY <2>5, <2>7, <2>9, <2>10
<1> QED BY <1>1, <1>2

afterCheckIn(c, d, b, a) ==
  /\ d.assignment = c.assignment /\ d.outcome = c.outcome /\ d.guardian = c.guardian /\ d.last = c.last
  /\ d.checked = IF hasCheckedIn(b, a) THEN c.checked \cup {a.guardian} ELSE c.checked

LEMMA CheckInTells ==
  ASSUME NEW c \in Chronicle, NEW b \in Trip, NEW a \in Trip
  PROVE  /\ checkIn(b, a) \in Seq(Captured)
         /\ \E d \in Chronicle : tells(c, checkIn(b, a), d) /\ afterCheckIn(c, d, b, a)
<1>1. CASE ~hasCheckedIn(b, a)
  <2>1. checkIn(b, a) = <<>> /\ <<>> \in Seq(Captured)
    BY <1>1 DEF checkIn
  <2>2. tells(c, <<>>, c)
    BY TellsNothing
  <2>4. afterCheckIn(c, c, b, a)
    BY <1>1 DEF afterCheckIn
  <2> QED BY <2>1, <2>2, <2>4
<1>2. CASE hasCheckedIn(b, a)
  <2>1. a.guardian \in Guardians
    BY <1>2, TripFields DEF hasCheckedIn
  <2>2. PICK n \in Nat : n = assignment(b, a)
    BY TripFields DEF assignment
  <2>3. "check_in" \in Kinds /\ a.guardian \in Members \cup {Nobody} /\ 0 \in 0..3 /\ a.guardian \in Members
    BY <2>1 DEF Kinds, Members
  <2>4. PICK e \in Captured : /\ of("check_in", a.guardian, a.guardian, n, 0) = <<e>>
                              /\ e.kind = "check_in" /\ e.actor = a.guardian /\ e.subject = a.guardian
                              /\ e.assignment = n /\ e.value = 0
    BY <2>1, <2>3, OneCapture
  <2>5. checkIn(b, a) = <<e>>
    BY <1>2, <2>2, <2>4 DEF checkIn
  <2>6. PICK d \in Chronicle : d = told(c, e)
    BY ToldCaptured
  <2>7. tells(c, <<e>>, d)
    BY <2>6, TellsOne
  <2>8. /\ d.assignment = c.assignment /\ d.outcome = c.outcome /\ d.guardian = c.guardian /\ d.last = c.last
        /\ d.checked = c.checked \cup {a.guardian}
    BY <2>4, <2>6 DEF told
  <2>9. afterCheckIn(c, d, b, a)
    BY <1>2, <2>8 DEF afterCheckIn
  <2>10. <<e>> \in Seq(Captured)
    OBVIOUS
  <2> QED BY <2>5, <2>7, <2>9, <2>10
<1> QED BY <1>1, <1>2

LEMMA NotedInTrip ==
  ASSUME NEW b \in Trip, NEW a \in Trip
  PROVE  LET t == noted(b, a) IN
         /\ t \in Trip /\ t.status = a.status /\ t.guardian = a.guardian /\ t.checkIns = a.checkIns
         /\ t.members = a.members /\ t.deleted = a.deleted /\ t.gratitude = a.gratitude
         /\ t.agent = IF personalAgentLive(a) THEN a.agent ELSE "none"
         /\ t.assignment = assignment(b, a)
         /\ t.last = IF replaced(b, a) THEN [b.last EXCEPT ![a.guardian] = assignment(b, a)] ELSE b.last
         /\ t.checked = IF hasCheckedIn(b, a) THEN b.checked \cup {a.guardian} ELSE b.checked
<1>1. assignment(b, a) \in Nat
  BY TripFields DEF assignment
<1>2. replaced(b, a) => a.guardian \in Guardians
  BY TripFields DEF replaced
<1>3. hasCheckedIn(b, a) => a.guardian \in Guardians
  BY TripFields DEF hasCheckedIn
<1> DEFINE relay == IF a.relay = NoRelay THEN NoRelay ELSE Nobody
           agent == IF personalAgentLive(a) THEN a.agent ELSE "none"
           last == IF replaced(b, a) THEN [b.last EXCEPT ![a.guardian] = assignment(b, a)] ELSE b.last
           checked == IF hasCheckedIn(b, a) THEN b.checked \cup {a.guardian} ELSE b.checked
<1>4. /\ relay \in Members \cup {Nobody, NoRelay} /\ last \in [Guardians -> Nat] /\ checked \subseteq Guardians
      /\ agent \in {"none", "granted", "active", "ended", "unavailable", "resumed"}
  <2>1. relay \in Members \cup {Nobody, NoRelay}
    OBVIOUS
  <2>2. last \in [Guardians -> Nat]
    BY <1>1, <1>2, TripFields
  <2>3. checked \subseteq Guardians
    BY <1>3, TripFields
  <2>4. agent \in {"none", "granted", "active", "ended", "unavailable", "resumed"}
    BY TripFields
  <2> QED BY <2>1, <2>2, <2>3, <2>4
<1>5. noted(b, a) = [a EXCEPT !.relay = relay, !.agent = agent, !.tail = "other",
                             !.assignment = assignment(b, a), !.last = last, !.checked = checked]
  BY DEF noted
<1> HIDE DEF relay, agent, last, checked
<1>6. noted(b, a) \in Trip
  BY <1>1, <1>4, <1>5 DEF Trip
<1>7. LET t == noted(b, a) IN
         /\ t.status = a.status /\ t.guardian = a.guardian /\ t.checkIns = a.checkIns
         /\ t.members = a.members /\ t.deleted = a.deleted /\ t.gratitude = a.gratitude
         /\ t.agent = agent /\ t.assignment = assignment(b, a) /\ t.last = last /\ t.checked = checked
  BY <1>5 DEF Trip
<1> QED BY <1>6, <1>7 DEF agent, last, checked

afterClosed(c, d, b, a) ==
  /\ d.assignment = c.assignment /\ d.guardian = c.guardian /\ d.last = c.last /\ d.checked = c.checked
  /\ d.outcome = IF isClosed(a) /\ ~isClosed(b) THEN outcome(a) ELSE c.outcome

LEMMA ClosedTells ==
  ASSUME NEW c \in Chronicle, NEW b \in Trip, NEW a \in Trip
  PROVE  /\ closed(b, a) \in Seq(Captured)
         /\ \E d \in Chronicle : tells(c, closed(b, a), d) /\ afterClosed(c, d, b, a)
<1>1. CASE ~(isClosed(a) /\ ~isClosed(b))
  <2>1. closed(b, a) = <<>> /\ <<>> \in Seq(Captured)
    BY <1>1 DEF closed
  <2>2. tells(c, <<>>, c)
    BY TellsNothing
  <2>4. afterClosed(c, c, b, a)
    BY <1>1 DEF afterClosed
  <2> QED BY <2>1, <2>2, <2>4
<1>2. CASE isClosed(a) /\ ~isClosed(b)
  <2>1. PICK t \in Trip : t = noted(b, a)
    BY NotedInTrip
  <2>2. PICK v \in 0..3 : v = outcome(a)
    BY DEF outcome
  <2>3. t.assignment \in Nat /\ t.last \in [Guardians -> Nat] /\ t.checked \subseteq Guardians
    BY TripFields
  <2>4. "closed" \in Kinds /\ Rider \in Members \cup {Nobody} /\ Rider \in Members
    BY DEF Kinds, Members
  <2>5. PICK e \in Captured : /\ of("closed", Rider, Rider, t.assignment, v) = <<e>>
                              /\ e.kind = "closed" /\ e.actor = Rider /\ e.subject = Rider
                              /\ e.assignment = t.assignment /\ e.value = v
    BY <2>3, <2>4, OneCapture
  <2> DEFINE x(i) == of("contribution", SetToSeq(t.checked)[i], SetToSeq(t.checked)[i], t.last[SetToSeq(t.checked)[i]], 0)
  <2>6. PICK q : q = [i \in 1..Cardinality(t.checked) |-> x(i)]
    OBVIOUS
  <2>7. ASSUME NEW g \in t.checked, NEW i \in 1..Cardinality(t.checked), SetToSeq(t.checked)[i] = g
        PROVE  q[i] \in Seq(Quiet)
    <3>1. PICK n \in Nat : n = t.last[g]
      BY <2>3
    <3>2. g \in Members /\ g \in Members \cup {Nobody} /\ 0 \in 0..3 /\ g \in Guardians
      BY <2>3 DEF Members
    <3>3. of("contribution", g, g, n, 0) \in Seq(Quiet)
      BY <3>2, QuietCapture
    <3>4. x(i) = of("contribution", g, g, n, 0)
      BY <2>7, <3>1
    <3> HIDE DEF x
    <3> QED BY <2>6, <3>3, <3>4
  <2>8. FlattenSeq(q) \in Seq(Quiet)
    <3>1. q = [i \in 1..Cardinality(t.checked) |-> q[i]]
      <4> HIDE DEF x
      <4> QED BY <2>6
    <3>2. t.checked \in SUBSET Guardians
      BY <2>3
    <3> HIDE DEF x
    <3> QED BY <2>7, <3>1, <3>2, QuietLists
  <2>9. PICK l \in Seq(Quiet) : l = IF a.status = "arrived" THEN FlattenSeq(q) ELSE <<>>
    <3>1. <<>> \in Seq(Quiet)
      OBVIOUS
    <3> QED BY <2>8, <3>1
  <2>10. closed(b, a) = <<e>> \o l
    BY <1>2, <2>1, <2>2, <2>5, <2>6, <2>9 DEF closed
  <2>11. PICK f \in Chronicle : f = told(c, e)
    BY ToldCaptured
  <2>12. tells(c, <<e>>, f)
    BY <2>11, TellsOne
  <2>13. PICK d \in Chronicle : tells(f, l, d) /\ same(f, d)
    BY TellsQuietly
  <2>14. <<e>> \in Seq(Captured) /\ l \in Seq(Captured)
    <3>1. <<e>> \in Seq(Captured)
      OBVIOUS
    <3> QED BY <3>1, QuietIsCaptured
  <2>15. tells(c, <<e>> \o l, d)
    BY <2>12, <2>13, <2>14, TellsOn
  <2>16. /\ f.assignment = c.assignment /\ f.guardian = c.guardian /\ f.last = c.last /\ f.checked = c.checked
         /\ f.outcome = v
    BY <2>5, <2>11 DEF told
  <2>17. afterClosed(c, d, b, a)
    BY <1>2, <2>2, <2>13, <2>16 DEF afterClosed, same
  <2>18. <<e>> \o l \in Seq(Captured)
    BY <2>14
  <2> QED BY <2>10, <2>15, <2>17, <2>18
<1> QED BY <1>1, <1>2

LEMMA GratitudeQuiet ==
  ASSUME NEW b \in Trip, NEW a \in Trip
  PROVE  gratitude(b, a) \in Seq(Quiet)
<1>1. PICK S \in SUBSET Guardians : S = (a.gratitude \ b.gratitude) \cap a.members
  BY TripFields
<1>2. b.last \in [Guardians -> Nat]
  BY TripFields
<1> DEFINE x(i) == of("gratitude", Rider, SetToSeq(S)[i], b.last[SetToSeq(S)[i]], 1)
<1>3. PICK q : q = [i \in 1..Cardinality(S) |-> x(i)]
  OBVIOUS
<1>4. ASSUME NEW g \in S, NEW i \in 1..Cardinality(S), SetToSeq(S)[i] = g
      PROVE  q[i] \in Seq(Quiet)
  <2>1. PICK n \in Nat : n = b.last[g]
    BY <1>2
  <2>2. g \in Members /\ Rider \in Members \cup {Nobody} /\ 1 \in 0..3 /\ g \in Guardians
    BY DEF Members
  <2>3. of("gratitude", Rider, g, n, 1) \in Seq(Quiet)
    BY <2>2, QuietCapture
  <2>4. x(i) = of("gratitude", Rider, g, n, 1)
    BY <1>4, <2>1
  <2> HIDE DEF x
  <2> QED BY <1>3, <2>3, <2>4
<1>5. q = [i \in 1..Cardinality(S) |-> q[i]]
  <2> HIDE DEF x
  <2> QED BY <1>3
<1>6. FlattenSeq(q) \in Seq(Quiet)
  <2> HIDE DEF x
  <2> QED BY <1>4, <1>5, QuietLists
<1>7. gratitude(b, a) = FlattenSeq(q)
  BY <1>1, <1>3 DEF gratitude
<1> QED BY <1>6, <1>7

(* Who has checked in since, if anybody.                                   *)
CountsFor(b, a) ==
  \/ a.checkIns = b.checkIns
  \/ hasCheckedIn(b, a) /\ \A g \in Guardians : g # a.guardian => a.checkIns[g] = b.checkIns[g]

LEMMA CheckedStays ==
  ASSUME NEW b \in Trip, NEW a \in Trip, CountsFor(b, a),
         b.checked = {g \in Guardians : b.checkIns[g] > 0}
  PROVE  noted(b, a).checked = {g \in Guardians : a.checkIns[g] > 0}
<1>1. b.checkIns \in [Guardians -> 0..MaxCheckIns] /\ a.checkIns \in [Guardians -> 0..MaxCheckIns]
  BY TripFields
<1>2. \A g \in Guardians : a.checkIns[g] \in Nat /\ b.checkIns[g] \in Nat
  BY <1>1, OutboxAssumption
<1>3. noted(b, a).checked = IF hasCheckedIn(b, a) THEN b.checked \cup {a.guardian} ELSE b.checked
  BY NotedInTrip
<1>4. hasCheckedIn(b, a) => a.guardian \in Guardians /\ a.checkIns[a.guardian] > b.checkIns[a.guardian]
  BY TripFields DEF hasCheckedIn
<1>5. CASE a.checkIns = b.checkIns
  <2>1. ~hasCheckedIn(b, a)
    BY <1>2, <1>4, <1>5
  <2> QED BY <1>3, <1>5, <2>1
<1>6. CASE hasCheckedIn(b, a) /\ \A g \in Guardians : g # a.guardian => a.checkIns[g] = b.checkIns[g]
  <2>1. PICK x \in Guardians : x = a.guardian /\ a.checkIns[x] > b.checkIns[x]
    BY <1>4, <1>6
  <2>2. a.checkIns[x] > 0
    BY <1>2, <2>1
  <2>3. noted(b, a).checked = b.checked \cup {x}
    BY <1>3, <1>6, <2>1
  <2>4. \A g \in Guardians : g # x => a.checkIns[g] = b.checkIns[g]
    BY <1>6, <2>1
  <2> QED BY <2>2, <2>3, <2>4
<1> QED BY <1>5, <1>6 DEF CountsFor

LEMMA ThenTells ==
  ASSUME NEW s \in Seq(Captured), NEW t \in Seq(Captured), NEW c, NEW d, NEW f, tells(c, s, d), tells(d, t, f)
  PROVE  s \o t \in Seq(Captured) /\ tells(c, s \o t, f)
<1>1. tells(c, s \o t, f)
  BY TellsOn
<1> QED BY <1>1

LEMMA CapturedTells ==
  ASSUME NEW c \in Chronicle, NEW b \in Trip, NEW a \in Trip, Tells(c, b), Serving(b), Serving(a),
         isClosed(b) => a.status = b.status, CountsFor(b, a)
  PROVE  /\ captured(b, a) \in Seq(Captured)
         /\ \E d \in Chronicle : tells(c, captured(b, a), d) /\ Tells(d, noted(b, a))
<1> DEFINE s1 == agentStopped(b, a)
           s2 == assigned(b, a)
           s3 == agentStarted(b, a)
           s4 == checkIn(b, a)
           s5 == relayRequested(b, a)
           s6 == closed(b, a)
           s7 == gratitude(b, a)
<1>0. captured(b, a) = s1 \o s2 \o s3 \o s4 \o s5 \o s6 \o s7
  BY DEF captured
<1>1. s1 \in Seq(Quiet) /\ s3 \in Seq(Quiet) /\ s5 \in Seq(Quiet) /\ s7 \in Seq(Quiet)
  BY QuietSegments, GratitudeQuiet
<1> HIDE DEF s1, s3, s5, s7
<1>2. c.assignment = b.assignment /\ c.last = b.last /\ c.checked = b.checked
  BY DEF Tells
<1>3. PICK c1 \in Chronicle : tells(c, s1, c1) /\ same(c, c1)
  BY <1>1, QuietTells
<1>4. s2 \in Seq(Captured) /\ \E d \in Chronicle : tells(c1, s2, d) /\ afterAssigned(c1, d, b, a)
  <2>1. c1.assignment = b.assignment
    BY <1>2, <1>3 DEF same
  <2> QED BY <2>1, AssignedTells
<1>5. PICK c2 \in Chronicle : tells(c1, s2, c2) /\ afterAssigned(c1, c2, b, a)
  BY <1>4
<1> HIDE DEF s2
<1>6. PICK c3 \in Chronicle : tells(c2, s3, c3) /\ same(c2, c3)
  BY <1>1, QuietTells
<1>7. s4 \in Seq(Captured) /\ \E d \in Chronicle : tells(c3, s4, d) /\ afterCheckIn(c3, d, b, a)
  BY CheckInTells
<1>8. PICK c4 \in Chronicle : tells(c3, s4, c4) /\ afterCheckIn(c3, c4, b, a)
  BY <1>7
<1> HIDE DEF s4
<1>9. PICK c5 \in Chronicle : tells(c4, s5, c5) /\ same(c4, c5)
  BY <1>1, QuietTells
<1>10. s6 \in Seq(Captured) /\ \E d \in Chronicle : tells(c5, s6, d) /\ afterClosed(c5, d, b, a)
  BY ClosedTells
<1>11. PICK c6 \in Chronicle : tells(c5, s6, c6) /\ afterClosed(c5, c6, b, a)
  BY <1>10
<1> HIDE DEF s6
<1>12. PICK c7 \in Chronicle : tells(c6, s7, c7) /\ same(c6, c7)
  BY <1>1, QuietTells
<1>13. s1 \in Seq(Captured) /\ s3 \in Seq(Captured) /\ s5 \in Seq(Captured) /\ s7 \in Seq(Captured)
  BY <1>1, QuietIsCaptured
<1>14. s1 \o s2 \in Seq(Captured) /\ tells(c, s1 \o s2, c2)
  BY <1>3, <1>4, <1>5, <1>13, ThenTells
<1>15. PICK t2 \in Seq(Captured) : t2 = s1 \o s2 /\ tells(c, t2, c2)
  BY <1>14
<1>16. t2 \o s3 \in Seq(Captured) /\ tells(c, t2 \o s3, c3)
  BY <1>6, <1>13, <1>15, ThenTells
<1>17. PICK t3 \in Seq(Captured) : t3 = t2 \o s3 /\ tells(c, t3, c3)
  BY <1>16
<1>18. t3 \o s4 \in Seq(Captured) /\ tells(c, t3 \o s4, c4)
  BY <1>7, <1>8, <1>17, ThenTells
<1>19. PICK t4 \in Seq(Captured) : t4 = t3 \o s4 /\ tells(c, t4, c4)
  BY <1>18
<1>20. t4 \o s5 \in Seq(Captured) /\ tells(c, t4 \o s5, c5)
  BY <1>9, <1>13, <1>19, ThenTells
<1>21. PICK t5 \in Seq(Captured) : t5 = t4 \o s5 /\ tells(c, t5, c5)
  BY <1>20
<1>22. t5 \o s6 \in Seq(Captured) /\ tells(c, t5 \o s6, c6)
  BY <1>10, <1>11, <1>21, ThenTells
<1>23. PICK t6 \in Seq(Captured) : t6 = t5 \o s6 /\ tells(c, t6, c6)
  BY <1>22
<1>24. t6 \o s7 \in Seq(Captured) /\ tells(c, t6 \o s7, c7)
  BY <1>12, <1>13, <1>23, ThenTells
<1>25. captured(b, a) = t6 \o s7
  BY <1>0, <1>15, <1>17, <1>19, <1>21, <1>23
<1>26. Tells(c7, noted(b, a))
  <2>1. PICK t \in Trip : t = noted(b, a)
    BY NotedInTrip
  <2>2. /\ t.status = a.status /\ t.guardian = a.guardian /\ t.checkIns = a.checkIns
        /\ t.assignment = assignment(b, a)
        /\ t.last = IF replaced(b, a) THEN [b.last EXCEPT ![a.guardian] = assignment(b, a)] ELSE b.last
        /\ t.checked = IF hasCheckedIn(b, a) THEN b.checked \cup {a.guardian} ELSE b.checked
    BY <2>1, NotedInTrip
  <2>3. c7.assignment = assignment(b, a)
    BY <1>5, <1>6, <1>8, <1>9, <1>11, <1>12 DEF same, afterAssigned, afterCheckIn, afterClosed
  <2>4. c7.last = IF replaced(b, a) THEN [c.last EXCEPT ![a.guardian] = assignment(b, a)] ELSE c.last
    BY <1>3, <1>5, <1>6, <1>8, <1>9, <1>11, <1>12 DEF same, afterAssigned, afterCheckIn, afterClosed
  <2>5. c7.checked = IF hasCheckedIn(b, a) THEN c.checked \cup {a.guardian} ELSE c.checked
    BY <1>3, <1>5, <1>6, <1>8, <1>9, <1>11, <1>12 DEF same, afterAssigned, afterCheckIn, afterClosed
  <2>6. c7.guardian = IF replaced(b, a) THEN a.guardian ELSE c.guardian
    BY <1>3, <1>5, <1>6, <1>8, <1>9, <1>11, <1>12 DEF same, afterAssigned, afterCheckIn, afterClosed
  <2>7. c7.outcome = IF isClosed(a) /\ ~isClosed(b) THEN outcome(a) ELSE c.outcome
    BY <1>3, <1>5, <1>6, <1>8, <1>9, <1>11, <1>12 DEF same, afterAssigned, afterCheckIn, afterClosed
  <2>8. c7.assignment = t.assignment /\ c7.last = t.last /\ c7.checked = t.checked
    BY <1>2, <2>2, <2>3, <2>4, <2>5
  <2>9. t.guardian \in {c7.guardian, Nobody}
    <3>1. b.guardian \in {c.guardian, Nobody}
      BY DEF Tells
    <3> QED BY <2>2, <2>6, <3>1 DEF replaced
  <2>10. t.checked = {g \in Guardians : t.checkIns[g] > 0}
    <3>1. b.checked = {g \in Guardians : b.checkIns[g] > 0}
      BY DEF Tells
    <3>2. noted(b, a).checked = {g \in Guardians : a.checkIns[g] > 0}
      BY <3>1, CheckedStays
    <3> QED BY <2>1, <2>2, <3>2
  <2>11. (c.outcome # 0 <=> isClosed(b)) /\ (c.outcome = 1 <=> b.status = "arrived")
    BY DEF Tells
  <2>12. outcome(a) \in 1..3 /\ (outcome(a) = 1 <=> a.status = "arrived")
    BY DEF outcome
  <2>13. (c7.outcome # 0 <=> isClosed(t)) /\ (c7.outcome = 1 <=> t.status = "arrived")
    <3>1. CASE isClosed(a) /\ ~isClosed(b)
      <4>1. c7.outcome = outcome(a)
        BY <2>7, <3>1
      <4>2. isClosed(t)
        BY <2>2, <3>1 DEF isClosed
      <4>3. c7.outcome # 0
        BY <2>12, <4>1
      <4> QED BY <2>2, <2>12, <4>1, <4>2, <4>3
    <3>2. CASE isClosed(b)
      <4>1. c7.outcome = c.outcome
        BY <2>7, <3>2
      <4>2. t.status = b.status
        BY <2>2, <3>2
      <4>3. isClosed(t)
        BY <3>2, <4>2 DEF isClosed
      <4> QED BY <2>11, <3>2, <4>1, <4>2, <4>3
    <3>3. CASE ~isClosed(a) /\ ~isClosed(b)
      <4>1. c7.outcome = c.outcome
        BY <2>7, <3>3
      <4>2. ~isClosed(t)
        BY <2>2, <3>3 DEF isClosed
      <4>3. t.status # "arrived" /\ b.status # "arrived"
        BY <2>2, <3>3 DEF isClosed
      <4> QED BY <2>11, <3>3, <4>1, <4>2, <4>3
    <3> QED BY <3>1, <3>2, <3>3
  <2>14. Tells(c7, t)
    BY <2>8, <2>9, <2>10, <2>13 DEF Tells
  <2> QED BY <2>1, <2>14
<1> QED BY <1>24, <1>25, <1>26

(* The journal knows what was captured up to some row.                     *)
knows(h) == path(outbox, h) /\ h[0] = Blank /\ journal = h[Len(records)]

CaptureInv ==
  /\ Len(outbox) <= MaxEvents
  /\ \A i \in 1..Len(outbox) : outbox[i].sequence = i - 1
  /\ trip # Erased => Serving(trip)
  /\ \E h : knows(h) /\ (trip # Erased => Tells(h[Len(outbox)], trip))

(* What of a saved journey keeps it in step with what was captured.        *)
Sound(next) ==
  /\ next \in Trip
  /\ personalAgentLive(next) => trip.guardian # Nobody
  /\ isClosed(trip) => next.status = trip.status
  /\ CountsFor(trip, next)

LEMMA Reconciled ==
  ASSUME NEW b \in Trip, NEW a \in Trip
  PROVE  LET t == reconcilePersonalAgent(b, a) IN
         /\ t \in Trip /\ t.status = a.status /\ t.guardian = a.guardian /\ t.checkIns = a.checkIns
         /\ personalAgentLive(t) => personalAgentLive(a) /\ t.guardian = b.guardian
<1>1. CASE personalAgentLive(a) /\ (isClosed(a) \/ a.guardian # b.guardian)
  <2>1. reconcilePersonalAgent(b, a) = [a EXCEPT !.agent = "ended", !.tail = "other"]
    BY <1>1 DEF reconcilePersonalAgent
  <2>2. LET t == [a EXCEPT !.agent = "ended", !.tail = "other"] IN
        t \in Trip /\ t.status = a.status /\ t.guardian = a.guardian /\ t.checkIns = a.checkIns /\ t.agent = "ended"
    BY DEF Trip
  <2> QED BY <2>1, <2>2 DEF personalAgentLive
<1>2. CASE ~(personalAgentLive(a) /\ (isClosed(a) \/ a.guardian # b.guardian))
  <2>1. reconcilePersonalAgent(b, a) = a
    BY <1>2 DEF reconcilePersonalAgent
  <2> QED BY <1>2, <2>1
<1> QED BY <1>1, <1>2

LEMMA CountsReconciled ==
  ASSUME NEW b \in Trip, NEW a \in Trip, NEW t \in Trip, CountsFor(b, a),
         t.guardian = a.guardian, t.checkIns = a.checkIns
  PROVE  CountsFor(b, t)
BY DEF CountsFor, hasCheckedIn

LEMMA SaveKeeps ==
  ASSUME OutboxTypeOK, CaptureInv, Len(records) <= Len(outbox), trip # Erased,
         NEW next, Sound(next), Save(next), UNCHANGED Store, requests' \in 0..MaxRequests
  PROVE  /\ OutboxTypeOK' /\ CaptureInv'
         /\ Len(outbox) <= Len(outbox') /\ \A i \in 1..Len(outbox) : outbox'[i] = outbox[i]
<1>1. PICK b \in Trip : b = trip
  BY DEF OutboxTypeOK
<1>2. PICK a \in Trip : a = reconcilePersonalAgent(b, next) /\ \E e \in {captured(b, a)} :
        Len(outbox) + Len(e) <= MaxEvents /\ trip' = noted(b, a) /\ outbox' = outbox \o numbered(e, Len(outbox))
  BY <1>1, Reconciled DEF Save, Sound
<1>3. /\ Len(outbox) + Len(captured(b, a)) <= MaxEvents /\ trip' = noted(b, a)
      /\ outbox' = outbox \o numbered(captured(b, a), Len(outbox))
  BY <1>2
<1>4. a.status = next.status /\ a.guardian = next.guardian /\ a.checkIns = next.checkIns
      /\ (personalAgentLive(a) => personalAgentLive(next) /\ a.guardian = b.guardian)
  BY <1>2, Reconciled DEF Sound
<1>5. CountsFor(b, a)
  BY <1>1, <1>4, CountsReconciled DEF Sound
<1>6. Serving(a) /\ Serving(b) /\ (isClosed(b) => a.status = b.status)
  BY <1>1, <1>4 DEF Sound, Serving, CaptureInv
<1>7. PICK h : knows(h) /\ Tells(h[Len(outbox)], b)
  BY <1>1 DEF CaptureInv
<1>8. PICK n \in Nat : n = Len(outbox) /\ outbox \in Seq(Event)
  BY DEF OutboxTypeOK
<1>9. PICK c \in Chronicle : c = h[n]
  <2>1. n \in 0..n
    OBVIOUS
  <2> QED BY <1>7, <1>8, <2>1 DEF knows, path
<1>10. captured(b, a) \in Seq(Captured) /\ \E d \in Chronicle : tells(c, captured(b, a), d) /\ Tells(d, noted(b, a))
  BY <1>5, <1>6, <1>7, <1>8, <1>9, CapturedTells
<1>11. PICK d \in Chronicle : tells(c, captured(b, a), d) /\ Tells(d, noted(b, a))
  BY <1>10
<1>12. PICK t : t = numbered(captured(b, a), n)
  OBVIOUS
<1>13. /\ tells(c, t, d) /\ t \in Seq(Event) /\ Len(t) = Len(captured(b, a))
       /\ \A i \in 1..Len(captured(b, a)) : t[i].sequence = n + i - 1
  BY <1>10, <1>11, <1>12, TellsNumbered
<1>14. PICK m \in Nat : m = Len(t) /\ m = Len(captured(b, a))
  BY <1>13
<1>15. outbox' = outbox \o t
  BY <1>3, <1>8, <1>12
<1>16. PICK k : goesOn(outbox, h, t, d, k)
  BY <1>7, <1>8, <1>9, <1>13, PathGoesOn DEF knows
<1>17. /\ outbox' \in Seq(Event) /\ Len(outbox') = n + m
       /\ \A i \in 1..n : outbox'[i] = outbox[i]
       /\ \A i \in (n + 1)..(n + m) : outbox'[i] = t[i - n]
  <2>1. PICK o \in Seq(Event) : o = outbox /\ Len(o) = n
    BY <1>8
  <2>2. o \o t \in Seq(Event) /\ Len(o \o t) = n + m
    BY <1>13, <1>14, <2>1
  <2>3. \A i \in 1..n : (o \o t)[i] = o[i]
    BY <1>13, <1>14, <2>1
  <2>4. \A i \in (n + 1)..(n + m) : (o \o t)[i] = t[i - n]
    BY <1>13, <1>14, <2>1
  <2>5. outbox' = o \o t
    BY <1>15, <2>1
  <2> QED BY <2>1, <2>2, <2>3, <2>4, <2>5
<1>18. CaptureInv'
  <2>1. Len(outbox') <= MaxEvents
    BY <1>3, <1>8, <1>14, <1>17
  <2>2. ASSUME NEW i \in 1..Len(outbox') PROVE outbox'[i].sequence = i - 1
    <3>1. CASE i \in 1..n
      <4>1. outbox[i].sequence = i - 1
        BY <1>8, <3>1 DEF CaptureInv
      <4> QED BY <1>17, <3>1, <4>1
    <3>2. CASE i \in (n + 1)..(n + m)
      <4>1. i - n \in 1..m
        BY <3>2
      <4>2. t[i - n].sequence = n + (i - n) - 1
        BY <1>13, <1>14, <4>1
      <4> QED BY <1>17, <3>2, <4>2
    <3> QED BY <1>17, <3>1, <3>2
  <2>3. Serving(trip')
    BY <1>3, <1>6, NotedInTrip DEF Serving, personalAgentLive
  <2>4. k[0] = Blank /\ journal' = k[Len(records')]
    <3>1. journal' = journal /\ records' = records /\ Len(records) \in 0..n
      BY <1>8 DEF Store, OutboxTypeOK
    <3>2. k[0] = h[0] /\ k[Len(records)] = h[Len(records)]
      BY <1>8, <1>16, <3>1 DEF goesOn
    <3> QED BY <1>7, <3>1, <3>2 DEF knows
  <2>5. path(outbox', k) /\ Tells(k[Len(outbox')], trip')
    BY <1>3, <1>11, <1>15, <1>16 DEF goesOn
  <2> DEFINE K(g) == path(outbox', g) /\ g[0] = Blank /\ journal' = g[Len(records')] /\ Tells(g[Len(outbox')], trip')
  <2>6. K(k)
    BY <2>4, <2>5
  <2>7. \E g : K(g)
    <3> HIDE DEF K
    <3> QED BY <2>6
  <2>8. \E g : knows(g)' /\ Tells(g[Len(outbox')], trip')
    BY <2>7 DEF knows
  <2> QED BY <2>1, <2>2, <2>3, <2>8 DEF CaptureInv
<1>19. OutboxTypeOK'
  <2>1. trip' \in Trip
    BY <1>3, NotedInTrip
  <2>2. /\ records' = records /\ journal' = journal /\ delivered' = delivered /\ calls' = calls /\ lost' = lost
    BY DEF Store
  <2>3. delivered' \subseteq 0..Len(outbox') - 1
    <3>1. delivered \subseteq 0..n - 1
      BY <1>8 DEF OutboxTypeOK
    <3> QED BY <1>17, <2>2, <3>1
  <2>4. records \in Seq(Record) /\ journal \in Chronicle /\ calls \subseteq Call /\ lost \in 0..MaxLost
    BY DEF OutboxTypeOK
  <2> QED BY <1>17, <2>1, <2>2, <2>3, <2>4 DEF OutboxTypeOK
<1> QED BY <1>8, <1>17, <1>18, <1>19

JourneySaved ==
  /\ UNCHANGED Store /\ requests' \in 0..MaxRequests
  /\ \E next : Sound(next) /\ Save(next)

LEMMA SoundSave ==
  ASSUME NEW next, next \in Trip, next.checkIns = trip.checkIns, Save(next),
         isClosed(trip) => next.status = trip.status,
         personalAgentLive(next) => trip.guardian # Nobody,
         UNCHANGED Store, requests' \in 0..MaxRequests
  PROVE  JourneySaved
BY DEF JourneySaved, Sound, CountsFor

LEMMA OpenedRelay ==
  ASSUME NEW t \in Trip, NEW by \in Members \cup {Nobody}
  PROVE  LET r == openRelay(t, by) IN
         /\ r \in Trip /\ r.checkIns = t.checkIns /\ r.status = t.status
         /\ r.agent = t.agent /\ r.guardian = t.guardian
<1>1. CASE t.status = "active" /\ t.relay = NoRelay
  <2>1. openRelay(t, by) = [t EXCEPT !.relay = by]
    BY <1>1 DEF openRelay
  <2>2. LET r == [t EXCEPT !.relay = by] IN
        r \in Trip /\ r.checkIns = t.checkIns /\ r.status = t.status /\ r.agent = t.agent /\ r.guardian = t.guardian
    BY DEF Trip
  <2> QED BY <2>1, <2>2
<1>2. CASE ~(t.status = "active" /\ t.relay = NoRelay)
  <2>1. openRelay(t, by) = t
    BY <1>2 DEF openRelay
  <2> QED BY <2>1
<1> QED BY <1>1, <1>2

LEMMA RunningTrip ==
  ASSUME OutboxTypeOK, CaptureInv, Running
  PROVE  /\ trip # Erased /\ trip \in Trip /\ ~isClosed(trip)
         /\ personalAgentLive(trip) => trip.guardian # Nobody
         /\ requests \in 0..MaxRequests
BY DEF Running, OutboxTypeOK, CaptureInv, Serving, isClosed

LEMMA AcceptSaves ==
  ASSUME OutboxTypeOK, CaptureInv, NEW g \in Guardians, Accept(g)
  PROVE  trip # Erased /\ JourneySaved
<1>1. Running /\ Save([trip EXCEPT !.members = @ \cup {g}, !.tail = "other"]) /\ UNCHANGED <<requests, Store>>
  BY DEF Accept, Recruiting
<1>2. PICK t \in Trip : t = trip
  BY <1>1, RunningTrip
<1>3. PICK n : n = [t EXCEPT !.members = @ \cup {g}, !.tail = "other"]
  OBVIOUS
<1>4. n \in Trip /\ n.checkIns = t.checkIns /\ n.agent = t.agent
  BY <1>3 DEF Trip
<1> QED BY <1>1, <1>2, <1>3, <1>4, RunningTrip, SoundSave DEF personalAgentLive

LEMMA ApproveSaves ==
  ASSUME OutboxTypeOK, CaptureInv, NEW g \in Guardians, Approve(g)
  PROVE  trip # Erased /\ JourneySaved
<1>1. /\ Running /\ UNCHANGED <<requests, Store>>
      /\ Save([trip EXCEPT !.guardian = g, !.status = "active", !.relay = NoRelay, !.tail = "other"])
  BY DEF Approve, Recruiting
<1>2. PICK t \in Trip : t = trip
  BY <1>1, RunningTrip
<1>3. PICK n : n = [t EXCEPT !.guardian = g, !.status = "active", !.relay = NoRelay, !.tail = "other"]
  OBVIOUS
<1>4. n \in Trip /\ n.checkIns = t.checkIns /\ n.agent = t.agent
  BY <1>3 DEF Trip
<1> QED BY <1>1, <1>2, <1>3, <1>4, RunningTrip, SoundSave DEF personalAgentLive

LEMMA GuardianCheckInSaves ==
  ASSUME OutboxTypeOK, CaptureInv, GuardianCheckIn
  PROVE  trip # Erased /\ JourneySaved
<1>1. /\ Running /\ UNCHANGED <<requests, Store>> /\ trip.guardian # Nobody /\ trip.checkIns[trip.guardian] < MaxCheckIns
      /\ Save([trip EXCEPT !.checkIns[trip.guardian] = @ + 1, !.tail = "other",
                           !.agent = IF personalAgentLive(trip) THEN "resumed" ELSE @])
  BY DEF GuardianCheckIn
<1>2. PICK t \in Trip : t = trip
  BY <1>1, RunningTrip
<1>3. PICK g \in Guardians : g = t.guardian
  BY <1>1, <1>2, TripFields
<1>4. PICK k \in 1..MaxCheckIns : k = t.checkIns[g] + 1 /\ k > t.checkIns[g]
  <2>1. t.checkIns[g] \in 0..MaxCheckIns /\ t.checkIns[g] < MaxCheckIns /\ MaxCheckIns \in Nat
    BY <1>1, <1>2, <1>3, TripFields, OutboxAssumption
  <2>2. t.checkIns[g] + 1 \in 1..MaxCheckIns /\ t.checkIns[g] + 1 > t.checkIns[g]
    BY <2>1
  <2> QED BY <2>2
<1>5. PICK counts \in [Guardians -> 0..MaxCheckIns] : counts = [t.checkIns EXCEPT ![g] = k]
  <2>1. t.checkIns \in [Guardians -> 0..MaxCheckIns] /\ k \in 0..MaxCheckIns
    BY TripFields
  <2> QED BY <2>1
<1>6. PICK how : how = IF personalAgentLive(t) THEN "resumed" ELSE t.agent
  OBVIOUS
<1>7. PICK n : n = [t EXCEPT !.checkIns = counts, !.tail = "other", !.agent = how]
  OBVIOUS
<1>8. how \in {"none", "granted", "active", "ended", "unavailable", "resumed"}
  BY <1>6, TripFields
<1>9. n \in Trip /\ n.checkIns = counts /\ n.agent = how /\ n.guardian = g /\ n.status = t.status
  BY <1>3, <1>5, <1>7, <1>8 DEF Trip
<1>10. Save(n)
  <2>1. n = [t EXCEPT !.checkIns[t.guardian] = @ + 1, !.tail = "other",
                      !.agent = IF personalAgentLive(t) THEN "resumed" ELSE @]
    BY <1>3, <1>4, <1>5, <1>6, <1>7 DEF Trip
  <2> QED BY <1>1, <1>2, <2>1
<1>11. CountsFor(trip, n)
  <2>1. n.checkIns[g] > t.checkIns[g] /\ \A x \in Guardians : x # g => n.checkIns[x] = t.checkIns[x]
    <3>1. t.checkIns \in [Guardians -> 0..MaxCheckIns]
      BY TripFields
    <3>2. n.checkIns[g] = k
      BY <1>5, <1>9, <3>1
    <3>3. \A x \in Guardians : x # g => n.checkIns[x] = t.checkIns[x]
      BY <1>5, <1>9, <3>1
    <3> QED BY <1>4, <3>2, <3>3
  <2>2. ~isClosed(trip) /\ n.guardian # Nobody
    BY <1>1, <1>2, <1>3, <1>9, RunningTrip
  <2> QED BY <1>2, <1>9, <2>1, <2>2 DEF CountsFor, hasCheckedIn
<1>12. Sound(n)
  BY <1>1, <1>2, <1>9, <1>11 DEF Sound
<1> QED BY <1>1, <1>10, <1>12, RunningTrip DEF JourneySaved

LEMMA RequestRelaySaves ==
  ASSUME OutboxTypeOK, CaptureInv, NEW by \in Members \cup {Nobody}, RequestRelay(by)
  PROVE  trip # Erased /\ JourneySaved
<1>1. /\ Running /\ UNCHANGED Store /\ requests < MaxRequests /\ requests' = requests + 1
      /\ Save(openRelay([trip EXCEPT !.status = "active", !.tail = "other"], by))
  BY DEF RequestRelay
<1>2. PICK t \in Trip : t = trip
  BY <1>1, RunningTrip
<1>3. PICK n : n = [t EXCEPT !.status = "active", !.tail = "other"]
  OBVIOUS
<1>4. n \in Trip /\ n.checkIns = t.checkIns /\ n.agent = t.agent
  BY <1>3 DEF Trip
<1>5. PICK r \in Trip : r = openRelay(n, by) /\ r.checkIns = t.checkIns /\ r.agent = t.agent
  BY <1>4, OpenedRelay
<1>6. requests' \in 0..MaxRequests
  BY <1>1, RunningTrip, OutboxAssumption
<1> QED BY <1>1, <1>2, <1>3, <1>5, <1>6, RunningTrip, SoundSave DEF personalAgentLive

LEMMA RelayEndsSaves ==
  ASSUME OutboxTypeOK, CaptureInv, RelayEnds
  PROVE  trip # Erased /\ JourneySaved
<1>1. Running /\ Save([trip EXCEPT !.relay = NoRelay, !.tail = "other"]) /\ UNCHANGED <<requests, Store>>
  BY DEF RelayEnds
<1>2. PICK t \in Trip : t = trip
  BY <1>1, RunningTrip
<1>3. PICK n : n = [t EXCEPT !.relay = NoRelay, !.tail = "other"]
  OBVIOUS
<1>4. n \in Trip /\ n.checkIns = t.checkIns /\ n.agent = t.agent
  BY <1>3 DEF Trip
<1> QED BY <1>1, <1>2, <1>3, <1>4, RunningTrip, SoundSave DEF personalAgentLive

LEMMA DelegateSaves ==
  ASSUME OutboxTypeOK, CaptureInv, Delegate
  PROVE  trip # Erased /\ JourneySaved
<1>1. /\ Running /\ UNCHANGED Store /\ requests < MaxRequests /\ requests' = requests + 1 /\ trip.guardian # Nobody
      /\ Save([trip EXCEPT !.agent = "granted", !.tail = "other"])
  BY DEF Delegate
<1>2. PICK t \in Trip : t = trip
  BY <1>1, RunningTrip
<1>3. PICK n : n = [t EXCEPT !.agent = "granted", !.tail = "other"]
  OBVIOUS
<1>4. n \in Trip /\ n.checkIns = t.checkIns
  BY <1>3 DEF Trip
<1>6. requests' \in 0..MaxRequests
  BY <1>1, RunningTrip, OutboxAssumption
<1> QED BY <1>1, <1>2, <1>3, <1>4, <1>6, RunningTrip, SoundSave

LEMMA AgentServesSaves ==
  ASSUME OutboxTypeOK, CaptureInv, AgentServes
  PROVE  trip # Erased /\ JourneySaved
<1>1. /\ Running /\ UNCHANGED <<requests, Store>> /\ trip.agent = "granted"
      /\ Save([trip EXCEPT !.agent = "active", !.tail = "other"])
  BY DEF AgentServes
<1>2. PICK t \in Trip : t = trip
  BY <1>1, RunningTrip
<1>3. PICK n : n = [t EXCEPT !.agent = "active", !.tail = "other"]
  OBVIOUS
<1>4. n \in Trip /\ n.checkIns = t.checkIns
  BY <1>3 DEF Trip
<1> QED BY <1>1, <1>2, <1>3, <1>4, RunningTrip, SoundSave DEF personalAgentLive

LEMMA AgentEndsSaves ==
  ASSUME OutboxTypeOK, CaptureInv, NEW how \in {"ended", "unavailable"}, AgentEnds(how)
  PROVE  trip # Erased /\ JourneySaved
<1>1. PICK n : /\ n = [trip EXCEPT !.agent = how, !.tail = "other"]
               /\ Save(openRelay(n, Nobody)) \/ Save(n)
  BY DEF AgentEnds
<1>2. Running /\ UNCHANGED <<requests, Store>>
  BY DEF AgentEnds
<1>3. PICK t \in Trip : t = trip
  BY <1>2, RunningTrip
<1>4. n \in Trip /\ n.checkIns = t.checkIns /\ n.agent = how
  BY <1>1, <1>3 DEF Trip
<1>5. PICK r \in Trip : r = openRelay(n, Nobody) /\ r.checkIns = t.checkIns /\ r.agent = how
  <2>1. Nobody \in Members \cup {Nobody}
    OBVIOUS
  <2> QED BY <1>4, <2>1, OpenedRelay
<1>6. CASE Save(r)
  BY <1>2, <1>3, <1>5, <1>6, RunningTrip, SoundSave DEF personalAgentLive
<1>7. CASE Save(n)
  BY <1>2, <1>3, <1>4, <1>7, RunningTrip, SoundSave DEF personalAgentLive
<1> QED BY <1>1, <1>5, <1>6, <1>7

LEMMA CloseSaves ==
  ASSUME OutboxTypeOK, CaptureInv, Close
  PROVE  trip # Erased /\ JourneySaved
<1>1. PICK status \in {"arrived", "cancelled"}, expired \in BOOLEAN : Save(ended(status, expired))
  BY DEF Close
<1>2. Running /\ UNCHANGED <<requests, Store>>
  BY DEF Close
<1>3. PICK t \in Trip : t = trip
  BY <1>2, RunningTrip
<1>4. PICK tail \in {"expired", "other"} : tail = IF expired THEN "expired" ELSE "other"
  OBVIOUS
<1>5. PICK n : n = [t EXCEPT !.status = status, !.relay = NoRelay, !.tail = tail]
  OBVIOUS
<1>6. n = ended(status, expired)
  BY <1>3, <1>4, <1>5 DEF ended
<1>7. n \in Trip /\ n.checkIns = t.checkIns /\ n.agent = t.agent
  BY <1>5 DEF Trip
<1> QED BY <1>1, <1>2, <1>3, <1>6, <1>7, RunningTrip, SoundSave DEF personalAgentLive

LEMMA SendGratitudeSaves ==
  ASSUME OutboxTypeOK, CaptureInv, NEW g \in Guardians, SendGratitude(g)
  PROVE  trip # Erased /\ JourneySaved
<1>1. trip # Erased /\ Save([trip EXCEPT !.gratitude = @ \cup {g}]) /\ UNCHANGED <<requests, Store>>
  BY DEF SendGratitude
<1>2. PICK t \in Trip : t = trip
  BY <1>1 DEF OutboxTypeOK
<1>3. PICK n : n = [t EXCEPT !.gratitude = @ \cup {g}]
  OBVIOUS
<1>4. n \in Trip /\ n.checkIns = t.checkIns /\ n.agent = t.agent /\ n.status = t.status
  BY <1>3 DEF Trip
<1>5. (personalAgentLive(n) => t.guardian # Nobody) /\ requests \in 0..MaxRequests
  BY <1>1, <1>2, <1>4 DEF CaptureInv, Serving, personalAgentLive, OutboxTypeOK
<1> QED BY <1>1, <1>2, <1>3, <1>4, <1>5, SoundSave

LEMMA ScrubUserSaves ==
  ASSUME OutboxTypeOK, CaptureInv, NEW g \in Guardians, ScrubUser(g)
  PROVE  trip # Erased /\ JourneySaved
<1>1. PICK n : /\ n = [trip EXCEPT !.gratitude = @ \ {g}, !.members = @ \ {g}, !.deleted = @ \cup {g},
                                   !.agent = "none", !.tail = "other",
                                   !.guardian = IF @ = g THEN Nobody ELSE @]
               /\ Save(openRelay(n, Nobody)) \/ Save(n)
  BY DEF ScrubUser
<1>2. trip # Erased /\ UNCHANGED <<requests, Store>>
  BY DEF ScrubUser
<1>3. PICK t \in Trip : t = trip
  BY <1>2 DEF OutboxTypeOK
<1>4. n \in Trip /\ n.checkIns = t.checkIns /\ n.agent = "none" /\ n.status = t.status
  BY <1>1, <1>3 DEF Trip
<1>5. PICK r \in Trip : r = openRelay(n, Nobody) /\ r.checkIns = t.checkIns /\ r.agent = "none" /\ r.status = t.status
  <2>1. Nobody \in Members \cup {Nobody}
    OBVIOUS
  <2> QED BY <1>4, <2>1, OpenedRelay
<1>6. requests \in 0..MaxRequests
  BY DEF OutboxTypeOK
<1>7. CASE Save(r)
  BY <1>2, <1>3, <1>5, <1>6, <1>7, SoundSave DEF personalAgentLive
<1>8. CASE Save(n)
  BY <1>2, <1>3, <1>4, <1>6, <1>8, SoundSave DEF personalAgentLive
<1> QED BY <1>1, <1>5, <1>7, <1>8

LEMMA BusinessSaves ==
  ASSUME OutboxTypeOK, CaptureInv, Business
  PROVE  (trip # Erased /\ JourneySaved) \/ Purge
<1> SUFFICES ASSUME ~Purge PROVE trip # Erased /\ JourneySaved
  OBVIOUS
<1>1. CASE \E g \in Guardians : Accept(g) \/ Approve(g) \/ SendGratitude(g) \/ ScrubUser(g)
  BY <1>1, AcceptSaves, ApproveSaves, SendGratitudeSaves, ScrubUserSaves
<1>2. CASE GuardianCheckIn
  BY <1>2, GuardianCheckInSaves
<1>3. CASE RelayEnds
  BY <1>3, RelayEndsSaves
<1>4. CASE Delegate
  BY <1>4, DelegateSaves
<1>5. CASE AgentServes
  BY <1>5, AgentServesSaves
<1>6. CASE Close
  BY <1>6, CloseSaves
<1>7. CASE \E by \in Members \cup {Nobody} : RequestRelay(by)
  BY <1>7, RequestRelaySaves
<1>8. CASE \E how \in {"ended", "unavailable"} : AgentEnds(how)
  BY <1>8, AgentEndsSaves
<1> QED BY <1>1, <1>2, <1>3, <1>4, <1>5, <1>6, <1>7, <1>8 DEF Business

-----------------------------------------------------------------------------
(* The shares of the pool.                                                 *)
rankOf(x, S) == Cardinality({g \in S : g < x})
firstBy(S, r) == {g \in S : rankOf(g, S) < r}

LEMMA RankedFirst ==
  ASSUME NEW S \in SUBSET Nat, IsFiniteSet(S), NEW r \in 0..Cardinality(S)
  PROVE  Cardinality(firstBy(S, r)) = r
<1>1. PICK n \in Nat : n = Cardinality(S)
  BY FS_CardinalityType
<1>2. PICK s \in [1..n -> S] : /\ s = ascending(S) /\ ascends(s, n)
                               /\ \A x \in S : \E i \in 1..n : s[i] = x
                               /\ \A i \in 1..n : Cardinality({g \in S : g < s[i]}) = i - 1
  BY <1>1, Ascending
<1>3. \A i \in 1..n : rankOf(s[i], S) = i - 1
  BY <1>2 DEF rankOf
<1>4. r \in Nat /\ r <= n /\ \A i \in 1..n : i \in Nat
  BY <1>1
<1>5. firstBy(S, r) = firstOf(s, r)
  <2>1. ASSUME NEW x \in firstBy(S, r) PROVE x \in firstOf(s, r)
    <3>1. PICK i \in 1..n : s[i] = x
      BY <1>2 DEF firstBy
    <3>2. i - 1 < r
      BY <1>3, <3>1 DEF firstBy
    <3>3. i \in 1..r
      BY <1>4, <3>2
    <3> QED BY <3>1, <3>3 DEF firstOf
  <2>2. ASSUME NEW x \in firstOf(s, r) PROVE x \in firstBy(S, r)
    <3>1. PICK i \in 1..r : s[i] = x
      BY DEF firstOf
    <3>2. i \in 1..n /\ i - 1 < r
      BY <1>4
    <3>3. s[i] \in S /\ rankOf(s[i], S) < r
      BY <1>3, <3>2
    <3> QED BY <3>1, <3>3 DEF firstBy
  <2> QED BY <2>1, <2>2
<1>6. Cardinality(firstOf(s, r)) = r
  <2>1. r \in 0..n
    BY <1>4
  <2> QED BY <1>2, <2>1, CountAscending
<1> QED BY <1>5, <1>6

LEMMA Divided ==
  ASSUME NEW pool \in Nat, NEW n \in Nat, n > 0, NEW q \in Nat, NEW r \in Nat, q = pool \div n, r = pool % n
  PROVE  n * q + r = pool
BY SMTT(30)

divides(n, q, r) == q = Pool \div n /\ r = Pool % n /\ q * n + r = Pool

LEMMA Shares ==
  ASSUME NEW n \in Nat, n > 0
  PROVE  \E q \in Nat, r \in 0..(n - 1) : divides(n, q, r)
<1>1. PICK p \in Nat : p = Pool
  BY CommunityAssumption
<1>2. p \div n \in Nat
  OBVIOUS
<1>3. p % n \in 0..(n - 1)
  OBVIOUS
<1>4. PICK q \in Nat : q = p \div n
  BY <1>2
<1>5. PICK r \in 0..(n - 1) : r = p % n
  BY <1>3
<1>6. r \in Nat
  OBVIOUS
<1>7. n * q + r = p
  BY <1>4, <1>5, <1>6, Divided
<1>8. q * n = n * q
  OBVIOUS
<1>9. divides(n, q, r)
  BY <1>1, <1>4, <1>5, <1>7, <1>8 DEF divides
<1> QED BY <1>9

LEMMA MoreTimes ==
  ASSUME NEW q \in Nat, NEW k \in Nat, NEW n \in Nat, k <= n
  PROVE  q * k <= q * n
<1>1. PICK d \in Nat : n = k + d
  <2>1. n - k \in Nat /\ n = k + (n - k)
    OBVIOUS
  <2> QED BY <2>1
<1>2. q * (k + d) = q * k + q * d
  OBVIOUS
<1>3. q * d \in Nat /\ q * k \in Nat
  OBVIOUS
<1> QED BY <1>1, <1>2, <1>3

LEMMA OneTimeMore == ASSUME NEW q \in Nat, NEW k \in Nat PROVE q * (k + 1) = q * k + q
OBVIOUS

LEMMA GuardiansFinite ==
  ASSUME NEW S \in SUBSET Guardians
  PROVE  IsFiniteSet(S) /\ S \in SUBSET Nat /\ Cardinality(S) \in Nat /\ (S # {} => Cardinality(S) > 0)
<1>1. IsFiniteSet(S) /\ S \in SUBSET Nat
  BY CommunityAssumption, FS_Subset
<1> QED BY <1>1, FS_CardinalityType, FS_EmptySet

bonus(x, S) == IF rankOf(x, S) < Pool % Cardinality(S) THEN 1 ELSE 0

(* The journal's and the program's points of a contribution.               *)
LEMMA PointsAgree ==
  ASSUME NEW c \in Chronicle, NEW e, e.kind = "contribution", e.subject \in c.checked
  PROVE  /\ journalPoints(c, e) = (Pool \div Cardinality(c.checked)) + bonus(e.subject, c.checked)
         /\ programPoints(c, e) = journalPoints(c, e)
         /\ journalPoints(c, e) \in 0..Pool
<1>1. PICK S \in SUBSET Guardians : S = c.checked
  BY DEF Chronicle
<1>2. IsFiniteSet(S) /\ S \in SUBSET Nat /\ Cardinality(S) \in Nat /\ Cardinality(S) > 0
  BY <1>1, GuardiansFinite
<1>3. PICK x \in S : x = e.subject
  BY <1>1
<1>4. (CHOOSE i \in 1..Cardinality(S) : ascending(S)[i] = x) - 1 = rankOf(x, S)
  BY <1>2, SortedRank DEF rankOf
<1>5. journalPoints(c, e) = (Pool \div Cardinality(S)) + bonus(x, S)
  <2> DEFINE ranked == (CHOOSE i \in 1..Cardinality(S) : ascending(S)[i] = x) - 1
  <2>1. journalPoints(c, e) = (Pool \div Cardinality(S)) + (IF ranked < Pool % Cardinality(S) THEN 1 ELSE 0)
    BY <1>1, <1>3 DEF journalPoints
  <2> HIDE DEF ranked
  <2>2. ranked = rankOf(x, S)
    BY <1>4 DEF ranked
  <2> QED BY <2>1, <2>2 DEF bonus
<1>6. programPoints(c, e) = (Pool \div Cardinality(S)) + bonus(x, S)
  BY <1>1, <1>3 DEF programPoints, bonus, rankOf
<1>7. (Pool \div Cardinality(S)) + bonus(x, S) \in 0..Pool
  <2>1. PICK n \in Nat : n = Cardinality(S) /\ n > 0
    BY <1>2
  <2>2. PICK q \in Nat, r \in 0..(n - 1) : q = Pool \div n /\ r = Pool % n /\ q * n + r = Pool
    BY <2>1, Shares DEF divides
  <2>3. q * 1 <= q * n
    BY <2>1, MoreTimes
  <2>4. rankOf(x, S) \in Nat
    <3>1. {g \in S : g < x} \in SUBSET Guardians
      OBVIOUS
    <3> QED BY <3>1, GuardiansFinite DEF rankOf
  <2>5. bonus(x, S) \in {0, 1} /\ (bonus(x, S) = 1 => r > 0)
    BY <2>1, <2>2, <2>4 DEF bonus
  <2>6. bonus(x, S) <= r
    BY <2>2, <2>5
  <2>7. PICK p \in Nat : p = Pool /\ p = q * n + r
    BY <2>2, CommunityAssumption
  <2>8. q + bonus(x, S) \in 0..p
    <3>1. q <= q * n /\ q * n \in Nat
      BY <2>3
    <3>2. PICK m \in Nat : m = q * n
      BY <3>1
    <3>3. PICK b \in {0, 1} : b = bonus(x, S)
      BY <2>5
    <3>4. q <= m /\ p = m + r /\ b <= r
      BY <2>6, <2>7, <3>1, <3>2, <3>3
    <3>5. q + b \in 0..p
      BY <3>4
    <3> QED BY <3>3, <3>5
  <2> QED BY <2>1, <2>2, <2>7, <2>8
<1> QED BY <1>1, <1>3, <1>5, <1>6, <1>7

(* The points of those credited so far.                                    *)
shared(c) ==
  IF c.credited = {} THEN 0
  ELSE (Pool \div Cardinality(c.checked)) * Cardinality(c.credited)
       + Cardinality({g \in c.credited : bonus(g, c.checked) = 1})

Credits(c, rs) ==
  /\ c.credited \subseteq c.checked /\ (c.outcome # 1 => c.credited = {})
  /\ total(rs) = shared(c)

LEMMA ContributionCredits ==
  ASSUME NEW c \in Chronicle, NEW e \in Event, NEW rs \in Seq(Record), Credits(c, rs),
         journalAccepts(c, e), e.kind = "contribution"
  PROVE  LET r == [event |-> e, points |-> journalPoints(c, e)] IN
         r \in Record /\ Credits(told(c, e), Append(rs, r))
<1>1. c.outcome = 1 /\ e.subject \in c.checked /\ e.subject \notin c.credited
  BY DEF journalAccepts, journalRecognizes
<1>2. PICK r : r = [event |-> e, points |-> journalPoints(c, e)]
  OBVIOUS
<1>3. PICK t : t = told(c, e)
  OBVIOUS
<1>4. t.outcome = c.outcome /\ t.checked = c.checked /\ t.credited = c.credited \cup {e.subject}
  BY <1>3 DEF told
<1>5. r \in Record /\ r.points = (Pool \div Cardinality(c.checked)) + bonus(e.subject, c.checked)
  BY <1>1, <1>2, PointsAgree DEF Record
<1>6. total(rs) \in Nat /\ total(Append(rs, r)) = total(rs) + r.points
  BY <1>5, TotalOfMore
<1> DEFINE B == {g \in c.credited : bonus(g, c.checked) = 1}
           D == {g \in t.credited : bonus(g, c.checked) = 1}
<1>7. PICK x \in c.checked : x = e.subject
  BY <1>1
<1>8. c.credited \in SUBSET Guardians /\ c.checked \in SUBSET Guardians /\ c.credited \subseteq c.checked
  BY DEF Chronicle, Credits
<1>9. /\ IsFiniteSet(c.credited) /\ Cardinality(c.credited) \in Nat
      /\ IsFiniteSet(B) /\ Cardinality(B) \in Nat
      /\ Cardinality(c.checked) \in Nat /\ Cardinality(c.checked) > 0
  <2>1. B \in SUBSET Guardians /\ c.checked # {}
    BY <1>1, <1>8
  <2> HIDE DEF B
  <2> QED BY <1>8, <2>1, GuardiansFinite
<1>10. Cardinality(t.credited) = Cardinality(c.credited) + 1
  BY <1>1, <1>4, <1>9, FS_AddElement
<1>11. bonus(x, c.checked) \in {0, 1}
  BY DEF bonus
<1>12. Cardinality(D) = Cardinality(B) + bonus(x, c.checked)
  <2>1. CASE bonus(x, c.checked) = 1
    <3>1. D = B \cup {x} /\ x \notin B
      BY <1>1, <1>4, <1>7, <2>1
    <3> HIDE DEF D, B
    <3> QED BY <1>9, <2>1, <3>1, FS_AddElement
  <2>2. CASE bonus(x, c.checked) = 0
    <3>1. D = B
      BY <1>4, <1>7, <2>2
    <3> HIDE DEF D, B
    <3> QED BY <1>9, <2>2, <3>1
  <2> QED BY <1>11, <2>1, <2>2
<1>13. PICK q \in Nat : q = Pool \div Cardinality(c.checked)
  BY <1>9, Shares DEF divides
<1>14. PICK k \in Nat : k = Cardinality(c.credited)
  BY <1>9
<1>15. PICK b \in Nat : b = Cardinality(B)
  BY <1>9
<1>16. shared(c) = q * k + b
  <2>1. CASE c.credited = {}
    <3>1. B = {}
      BY <2>1
    <3>2. k = 0 /\ b = 0
      <4> HIDE DEF B
      <4> QED BY <1>14, <1>15, <2>1, <3>1, FS_EmptySet
    <3>3. q * k + b = 0
      BY <3>2
    <3> QED BY <2>1, <3>3 DEF shared
  <2>2. CASE c.credited # {}
    BY <1>13, <1>14, <1>15, <2>2 DEF shared
  <2> QED BY <2>1, <2>2
<1>17. shared(t) = q * (k + 1) + (b + bonus(x, c.checked))
  <2>1. t.credited # {} /\ t.checked = c.checked
    BY <1>4
  <2>2. shared(t) = q * Cardinality(t.credited) + Cardinality(D)
    BY <1>13, <2>1 DEF shared
  <2> HIDE DEF D
  <2> QED BY <1>10, <1>12, <1>14, <1>15, <2>2
<1>18. total(Append(rs, r)) = shared(t)
  <2>1. PICK v \in {0, 1} : v = bonus(x, c.checked)
    BY <1>11
  <2>2. PICK m \in Nat : m = q * k
    OBVIOUS
  <2>3. q * (k + 1) = m + q
    BY <2>2, OneTimeMore
  <2>4. shared(t) = (m + q) + (b + v)
    BY <1>17, <2>1, <2>3
  <2>5. total(rs) = m + b
    BY <1>16, <2>2 DEF Credits
  <2>6. r.points = q + v
    BY <1>5, <1>7, <1>13, <2>1
  <2> QED BY <1>6, <2>4, <2>5, <2>6
<1>19. Credits(t, Append(rs, r))
  BY <1>1, <1>4, <1>8, <1>18 DEF Credits
<1> QED BY <1>2, <1>3, <1>5, <1>19

LEMMA AnyCredits ==
  ASSUME NEW c \in Chronicle, NEW e \in Event, NEW rs \in Seq(Record), Credits(c, rs), journalAccepts(c, e)
  PROVE  LET r == [event |-> e, points |-> journalPoints(c, e)] IN
         r \in Record /\ Credits(told(c, e), Append(rs, r))
<1>1. CASE e.kind = "contribution"
  BY <1>1, ContributionCredits
<1>2. CASE e.kind # "contribution"
  <2>1. PICK r : r = [event |-> e, points |-> journalPoints(c, e)]
    OBVIOUS
  <2>2. PICK t : t = told(c, e)
    OBVIOUS
  <2>3. r.points = 0 /\ r \in Record
    <3>1. journalPoints(c, e) = 0
      BY <1>2 DEF journalPoints
    <3>2. 0 \in 0..Pool
      BY CommunityAssumption
    <3> QED BY <2>1, <3>1, <3>2 DEF Record
  <2>4. total(rs) \in Nat /\ total(Append(rs, r)) = total(rs) + r.points
    BY <2>3, TotalOfMore
  <2>5. total(Append(rs, r)) = total(rs)
    BY <2>3, <2>4
  <2>6. t.credited = c.credited
    BY <1>2, <2>2 DEF told
  <2>7. CASE e.kind = "check_in"
    <3>1. c.outcome = 0 /\ c.credited = {}
      BY <2>7 DEF journalAccepts, Credits
    <3>2. shared(t) = 0 /\ shared(c) = 0
      BY <2>6, <3>1 DEF shared
    <3> QED BY <2>1, <2>2, <2>3, <2>5, <2>6, <3>1, <3>2 DEF Credits
  <2>8. CASE e.kind = "closed"
    <3>1. c.outcome = 0 /\ c.credited = {}
      BY <2>8 DEF journalAccepts, Credits
    <3>2. shared(t) = 0 /\ shared(c) = 0
      BY <2>6, <3>1 DEF shared
    <3> QED BY <2>1, <2>2, <2>3, <2>5, <2>6, <3>1, <3>2 DEF Credits
  <2>9. CASE e.kind \notin {"check_in", "closed"}
    <3>1. t.checked = c.checked /\ t.outcome = c.outcome
      BY <2>2, <2>9 DEF told
    <3>2. shared(t) = shared(c)
      BY <2>6, <3>1 DEF shared
    <3> QED BY <2>1, <2>2, <2>3, <2>5, <2>6, <3>1, <3>2 DEF Credits
  <2> QED BY <2>7, <2>8, <2>9
<1> QED BY <1>1, <1>2

(* What the credits come to.                                               *)
LEMMA CreditsShare ==
  ASSUME NEW c \in Chronicle, NEW rs, Credits(c, rs)
  PROVE  /\ total(rs) <= Pool
         /\ c.checked # {} /\ c.credited = c.checked => total(rs) = Pool
         /\ c.outcome # 1 => total(rs) = 0
<1>0. Pool \in Nat
  BY CommunityAssumption
<1>1. CASE c.credited = {}
  <2>1. total(rs) = 0
    BY <1>1 DEF Credits, shared
  <2> QED BY <1>0, <1>1, <2>1
<1>2. CASE c.credited # {}
  <2>1. c.credited \in SUBSET Guardians /\ c.checked \in SUBSET Guardians /\ c.credited \subseteq c.checked
    BY DEF Chronicle, Credits
  <2> DEFINE B == {g \in c.credited : bonus(g, c.checked) = 1}
  <2>2. PICK n \in Nat : n = Cardinality(c.checked) /\ n > 0
    BY <1>2, <2>1, GuardiansFinite
  <2>3. PICK k \in Nat : k = Cardinality(c.credited) /\ k <= n
    BY <2>1, <2>2, GuardiansFinite, FS_Subset
  <2>4. PICK q \in Nat, r \in 0..(n - 1) : q = Pool \div n /\ r = Pool % n /\ q * n + r = Pool
    BY <2>2, Shares DEF divides
  <2>5. Cardinality(firstBy(c.checked, r)) = r /\ IsFiniteSet(firstBy(c.checked, r))
    <3>1. r \in 0..n
      BY <2>4
    <3>2. PICK S \in SUBSET Guardians : S = c.checked
      BY <2>1
    <3>3. firstBy(S, r) \in SUBSET Guardians
      BY DEF firstBy
    <3>4. IsFiniteSet(S) /\ S \in SUBSET Nat /\ IsFiniteSet(firstBy(S, r))
      BY <3>3, GuardiansFinite
    <3>5. Cardinality(firstBy(S, r)) = r
      BY <2>2, <3>1, <3>2, <3>4, RankedFirst
    <3> QED BY <3>2, <3>4, <3>5
  <2>6. \A g \in c.checked : bonus(g, c.checked) = 1 <=> rankOf(g, c.checked) < r
    BY <2>2, <2>4 DEF bonus
  <2>7. B \in SUBSET firstBy(c.checked, r)
    BY <2>1, <2>6 DEF firstBy
  <2>8. PICK b \in Nat : b = Cardinality(B) /\ b <= r
    <3>1. B \in SUBSET Guardians
      BY <2>1
    <3> HIDE DEF B
    <3>2. Cardinality(B) \in Nat
      BY <3>1, GuardiansFinite
    <3>3. Cardinality(B) <= r
      BY <2>5, <2>7, FS_Subset
    <3> QED BY <3>2, <3>3
  <2>9. total(rs) = q * k + b
    BY <1>2, <2>2, <2>3, <2>4, <2>8 DEF Credits, shared
  <2>10. total(rs) <= Pool
    <3>1. q * k <= q * n /\ q * k \in Nat /\ q * n \in Nat
      BY <2>3, MoreTimes
    <3>2. PICK x \in Nat, y \in Nat : x = q * k /\ y = q * n /\ x <= y
      BY <3>1
    <3>3. x + b <= y + r
      BY <2>4, <2>8, <3>2
    <3> QED BY <2>4, <2>9, <3>2, <3>3
  <2>11. ASSUME c.credited = c.checked PROVE total(rs) = Pool
    <3>1. B = firstBy(c.checked, r)
      BY <2>6, <2>11 DEF firstBy
    <3>2. b = r /\ k = n
      <4> HIDE DEF B
      <4> QED BY <2>2, <2>3, <2>5, <2>8, <2>11, <3>1
    <3> QED BY <2>4, <2>9, <3>2
  <2>12. c.outcome = 1
    BY <1>2 DEF Credits
  <2> QED BY <2>10, <2>11, <2>12
<1> QED BY <1>1, <1>2

-----------------------------------------------------------------------------
(* A journal and its records, while one call appends to them: in step with *)
(* rows o and what h knows after each.                                     *)
InStep(o, h, c, rs) ==
  /\ Len(rs) <= Len(o) /\ \A i \in 1..Len(rs) : rs[i].event = o[i]
  /\ c = h[Len(rs)] /\ c.next = Len(rs) /\ Consistent(c) /\ Credits(c, rs)

Stores == [accepted: BOOLEAN, journal: Chronicle, records: Seq(Record)]

(* The rows of s are recorded if they were accepted, and those from        *)
(* before, m of them, still are.                                           *)
Keeps(o, h, m, s, v) ==
  /\ s \subseteq Nat /\ v \in Stores
  /\ InStep(o, h, v.journal, v.records) /\ m <= Len(v.records)
  /\ v.accepted => \A i \in s : i <= Len(v.records)

LEMMA OneRecordMore ==
  ASSUME NEW rs \in Seq(Record), NEW r \in Record
  PROVE  /\ Append(rs, r) \in Seq(Record) /\ Len(Append(rs, r)) = Len(rs) + 1
         /\ Append(rs, r)[Len(rs) + 1] = r /\ \A i \in 1..Len(rs) : Append(rs, r)[i] = rs[i]
OBVIOUS

LEMMA RecordsOne ==
  ASSUME NEW o \in Seq(Event), NEW h, path(o, h), NEW n \in 1..Len(o),
         NEW c \in Chronicle, NEW rs \in Seq(Record), InStep(o, h, c, rs),
         Len(rs) = n - 1, journalAccepts(c, o[n])
  PROVE  LET r == [event |-> o[n], points |-> journalPoints(c, o[n])] IN
         /\ told(c, o[n]) \in Chronicle /\ Append(rs, r) \in Seq(Record) /\ Len(Append(rs, r)) = n
         /\ InStep(o, h, told(c, o[n]), Append(rs, r))
<1>1. PICK e \in Event : e = o[n]
  OBVIOUS
<1>2. PICK r : r = [event |-> e, points |-> journalPoints(c, e)]
  OBVIOUS
<1>3. Consistent(c) /\ Credits(c, rs)
  BY DEF InStep
<1>4. r \in Record /\ Credits(told(c, e), Append(rs, r))
  BY <1>1, <1>2, <1>3, AnyCredits
<1>5. told(c, e) \in Chronicle /\ Consistent(told(c, e))
  BY <1>1, <1>3, ToldConsistent
<1>6. told(c, e).next = n
  <2>1. c.next = n - 1 /\ n \in Nat
    BY DEF InStep
  <2>2. told(c, e).next = c.next + 1
    BY DEF told
  <2> QED BY <2>1, <2>2
<1>7. told(c, e) = h[n]
  <2>1. c = h[n - 1]
    BY DEF InStep
  <2>2. h[n] = told(h[n - 1], o[n])
    BY DEF path
  <2> QED BY <1>1, <2>1, <2>2
<1>8. PICK ss \in Seq(Record) : ss = Append(rs, r)
  <2>1. r \in Record
    BY <1>4
  <2> QED BY <2>1, OneRecordMore
<1>9. Len(ss) = n /\ ss[n] = r /\ \A i \in 1..(n - 1) : ss[i] = rs[i]
  <2>1. Len(rs) + 1 = n /\ Len(rs) = n - 1
    OBVIOUS
  <2>2. Len(ss) = Len(rs) + 1 /\ ss[Len(rs) + 1] = r /\ \A i \in 1..Len(rs) : ss[i] = rs[i]
    BY <1>4, <1>8, OneRecordMore
  <2> QED BY <2>1, <2>2
<1>10. \A i \in 1..n : ss[i].event = o[i]
  <2>1. \A i \in 1..n : i = n \/ i \in 1..(n - 1)
    OBVIOUS
  <2>2. \A i \in 1..(n - 1) : rs[i].event = o[i]
    BY DEF InStep
  <2>3. r.event = o[n]
    BY <1>1, <1>2
  <2> QED BY <1>9, <2>1, <2>2, <2>3
<1>11. InStep(o, h, told(c, e), ss)
  <2>1. n <= Len(o)
    OBVIOUS
  <2> QED BY <1>4, <1>5, <1>6, <1>7, <1>8, <1>9, <1>10, <2>1 DEF InStep
<1> QED BY <1>1, <1>2, <1>5, <1>8, <1>9, <1>11

LEMMA TakesOne ==
  ASSUME NEW o \in Seq(Event), NEW h, path(o, h), \A i \in 1..Len(o) : o[i].sequence = i - 1,
         NEW m \in Nat, NEW s, NEW v, Keeps(o, h, m, s, v), NEW n \in 1..Len(o)
  PROVE  Keeps(o, h, m, s \cup {n}, takes(v, o[n]))
<1>00. s \cup {n} \subseteq Nat
  <2>1. s \subseteq Nat /\ n \in Nat
    BY DEF Keeps
  <2> QED BY <2>1
<1>0. takes(v, o[n]) = appended(v, o[n])
  BY TakesIsAppended
<1>1. PICK c \in Chronicle, rs \in Seq(Record) :
        c = v.journal /\ rs = v.records /\ InStep(o, h, c, rs) /\ m <= Len(rs) /\ v.accepted \in BOOLEAN /\ v \in Stores
  BY DEF Keeps, Stores
<1>2. PICK e \in Event : e = o[n] /\ e.sequence = n - 1
  OBVIOUS
<1>3. PICK l \in Nat : l = Len(rs)
  OBVIOUS
<1>4. CASE ~v.accepted
  <2>1. appended(v, e) = v
    BY <1>4 DEF appended
  <2> QED BY <1>0, <1>2, <1>4, <2>1, <1>00 DEF Keeps
<1>5. CASE v.accepted /\ n - 1 < l
  <2>1. PICK b \in BOOLEAN : b = (rs[n].event = e)
    OBVIOUS
  <2>2. (n - 1) + 1 = n
    OBVIOUS
  <2>3. appended(v, e) = [v EXCEPT !.accepted = b]
    BY <1>1, <1>2, <1>3, <1>5, <2>1, <2>2 DEF appended
  <2>4. PICK w : w = [v EXCEPT !.accepted = b]
    OBVIOUS
  <2>5. w \in Stores /\ w.journal = c /\ w.records = rs
    BY <1>1, <2>4 DEF Stores
  <2>6. n <= Len(rs)
    BY <1>3, <1>5
  <2>7. \A i \in s \cup {n} : i <= Len(rs)
    BY <1>1, <1>5, <2>6 DEF Keeps
  <2>8. Keeps(o, h, m, s \cup {n}, w)
    BY <1>1, <2>5, <2>7, <1>00 DEF Keeps
  <2> QED BY <1>0, <1>2, <2>3, <2>4, <2>8
<1>6. CASE v.accepted /\ ~(n - 1 < l) /\ journalAccepts(c, e)
  <2>1. c.next = l /\ e.sequence = c.next
    BY <1>1, <1>3, <1>6 DEF InStep, journalAccepts
  <2>2. Len(rs) = n - 1 /\ n = l + 1
    BY <1>2, <1>3, <2>1
  <2>3. PICK r : r = [event |-> e, points |-> journalPoints(c, e)]
    OBVIOUS
  <2>4. /\ told(c, e) \in Chronicle /\ Append(rs, r) \in Seq(Record) /\ Len(Append(rs, r)) = n
        /\ InStep(o, h, told(c, e), Append(rs, r))
    BY <1>1, <1>2, <1>6, <2>2, <2>3, RecordsOne
  <2>5. PICK d \in Chronicle, ss \in Seq(Record) :
          d = told(c, e) /\ ss = Append(rs, r) /\ Len(ss) = n /\ InStep(o, h, d, ss)
    BY <2>4
  <2>6. appended(v, e) = [accepted |-> TRUE, journal |-> d, records |-> ss]
    BY <1>1, <1>2, <1>3, <1>6, <2>3, <2>5 DEF appended
  <2>7. PICK w : w = [accepted |-> TRUE, journal |-> d, records |-> ss]
    OBVIOUS
  <2>8. w \in Stores /\ w.journal = d /\ w.records = ss
    BY <2>7 DEF Stores
  <2>9. m <= n
    BY <1>1, <1>3, <2>2
  <2>10. \A i \in s \cup {n} : i <= n
    <3>1. \A i \in s : i <= l /\ i <= Len(rs)
      BY <1>1, <1>3, <1>6 DEF Keeps
    <3>2. s \subseteq Nat
      BY DEF Keeps
    <3> QED BY <2>2, <3>1, <3>2
  <2>11. Keeps(o, h, m, s \cup {n}, w)
    BY <2>5, <2>8, <2>9, <2>10, <1>00 DEF Keeps
  <2> QED BY <1>0, <1>2, <2>6, <2>7, <2>11
<1>7. CASE v.accepted /\ ~(n - 1 < l) /\ ~journalAccepts(c, e)
  <2>1. appended(v, e) = [v EXCEPT !.accepted = FALSE]
    BY <1>1, <1>2, <1>3, <1>7 DEF appended
  <2>2. PICK w : w = [v EXCEPT !.accepted = FALSE]
    OBVIOUS
  <2>3. w \in Stores /\ w.journal = c /\ w.records = rs /\ ~w.accepted
    BY <1>1, <2>2 DEF Stores
  <2>4. Keeps(o, h, m, s \cup {n}, w)
    BY <1>1, <2>3, <1>00 DEF Keeps
  <2> QED BY <1>0, <1>2, <2>1, <2>2, <2>4
<1> QED BY <1>4, <1>5, <1>6, <1>7

(* A whole call.                                                           *)
LEMMA CallKeeps ==
  ASSUME NEW o \in Seq(Event), NEW h, path(o, h), \A i \in 1..Len(o) : o[i].sequence = i - 1,
         NEW m \in Nat, NEW base, Keeps(o, h, m, {}, base),
         NEW S \in SUBSET (0..Len(o) - 1), NEW sent,
         sent = [i \in 1..Cardinality(S) |-> o[ascending(S)[i] + 1]],
         NEW R, R = {i + 1 : i \in S}
  PROVE  Keeps(o, h, m, R, FoldLeft(takes, base, sent))
<1>0. IsFiniteSet(S) /\ S \in SUBSET Nat
  <2>1. 0 \in Int /\ Len(o) - 1 \in Int
    OBVIOUS
  <2>2. IsFiniteSet(0..Len(o) - 1)
    BY <2>1, FS_Interval
  <2>3. IsFiniteSet(S)
    BY <2>2, FS_Subset
  <2>4. \A i \in 0..Len(o) - 1 : i \in Nat
    OBVIOUS
  <2> QED BY <2>3, <2>4
<1>1. PICK n \in Nat : n = Cardinality(S)
  BY <1>0, FS_CardinalityType
<1>2. PICK a \in [1..n -> S] : a = ascending(S) /\ \A x \in S : \E i \in 1..n : a[i] = x
  BY <1>0, <1>1, Ascending
<1>3. \A i \in 1..n : a[i] + 1 \in 1..Len(o)
  <2> SUFFICES ASSUME NEW i \in 1..n PROVE a[i] + 1 \in 1..Len(o)
    OBVIOUS
  <2>1. PICK x \in 0..Len(o) - 1 : x = a[i]
    OBVIOUS
  <2>2. x + 1 \in 1..Len(o)
    OBVIOUS
  <2> QED BY <2>1, <2>2
<1>4. sent = [i \in 1..n |-> o[a[i] + 1]] /\ sent \in [1..n -> Event]
  <2>1. \A i \in 1..n : o[a[i] + 1] \in Event
    BY <1>3
  <2> QED BY <1>1, <1>2, <2>1
<1> DEFINE V == {v \in Stores : Keeps(o, h, m, {}, v)}
<1>5. base \in V
  BY DEF Keeps
<1>6. \A v \in V : \A i \in 1..n : takes(v, sent[i]) \in V
  <2> SUFFICES ASSUME NEW v \in V, NEW i \in 1..n PROVE takes(v, sent[i]) \in V
    OBVIOUS
  <2>1. PICK k \in 1..Len(o) : k = a[i] + 1
    BY <1>3
  <2>2. Keeps(o, h, m, {} \cup {k}, takes(v, o[k]))
    BY TakesOne
  <2>3. sent[i] = o[k]
    BY <1>4, <2>1
  <2>4. PICK w : w = takes(v, sent[i]) /\ Keeps(o, h, m, {k}, w)
    <3>1. {} \cup {k} = {k}
      OBVIOUS
    <3> QED BY <2>2, <2>3, <3>1
  <2>5. Keeps(o, h, m, {}, w)
    BY <2>4 DEF Keeps
  <2> QED BY <2>4, <2>5 DEF Keeps
<1>7. PICK g : appends(n, sent, base, g)
  <2> HIDE DEF V
  <2> QED BY <1>4, <1>5, <1>6, AppendFolds
<1> DEFINE at(s) == {a[i] + 1 : i \in s}
           G == {s \in SUBSET (1..n) : Keeps(o, h, m, at(s), g[s])}
<1>8. {} \in G
  <2>1. g[{}] = base
    BY <1>7 DEF taking, appends
  <2>2. at({}) = {}
    OBVIOUS
  <2> HIDE DEF at
  <2> QED BY <2>1, <2>2
<1>9. ASSUME NEW s \in SUBSET (1..n), s # {}, s \ {Max(s)} \in G PROVE s \in G
  <2>1. PICK x \in s : x = Max(s)
    BY <1>9, LastOf
  <2>2. PICK t : t = s \ {x} /\ Keeps(o, h, m, at(t), g[t])
    BY <1>9, <2>1
  <2>3. g[s] = takes(g[t], sent[x])
    BY <1>7, <1>9, <2>1, <2>2 DEF taking, appends
  <2>4. PICK k \in 1..Len(o) : k = a[x] + 1 /\ sent[x] = o[k]
    BY <1>3, <1>4
  <2>5. Keeps(o, h, m, at(t) \cup {k}, takes(g[t], o[k]))
    <3> HIDE DEF at
    <3> QED BY <2>2, TakesOne
  <2>6. at(s) = at(t) \cup {k}
    BY <2>2, <2>4
  <2> HIDE DEF at
  <2>7. Keeps(o, h, m, at(s), g[s])
    BY <2>3, <2>4, <2>5, <2>6
  <2> QED BY <2>7
<1>10. Keeps(o, h, m, at(1..n), g[1..n])
  <2>1. SUBSET (1..n) \subseteq G
    <3> HIDE DEF G
    <3> QED BY <1>8, <1>9, EveryPositions
  <2> HIDE DEF at
  <2> QED BY <2>1
<1>11. at(1..n) = R
  <2>1. \A i \in 1..n : a[i] \in S
    OBVIOUS
  <2>2. at(1..n) = {i + 1 : i \in S}
    BY <1>2, <2>1
  <2> HIDE DEF at
  <2> QED BY <2>2
<1> HIDE DEF at
<1> QED BY <1>7, <1>10, <1>11 DEF appends

-----------------------------------------------------------------------------
(* The invariant of capture, outbox and journal.                           *)
CallsInv ==
  \A c \in calls : /\ c.rows \subseteq 0..Len(outbox) - 1
                   /\ c.answer = "accepted" => \A i \in c.rows : i < Len(records)

LedgerInv ==
  /\ JournalIsPrefix /\ CallsInv
  /\ journal.next = Len(records) /\ Consistent(journal) /\ Credits(journal, records)

OutboxInv == OutboxTypeOK /\ CaptureInv /\ LedgerInv

LEMMA OutboxStarts == OutboxInit => OutboxInv
<1> SUFFICES ASSUME OutboxInit PROVE OutboxInv
  OBVIOUS
<1> USE DEF OutboxInit
<1>0. Nobody \notin Guardians /\ NoRelay \notin Members /\ Rider \in Members
  BY NobodyElse
<1>1. trip \in Trip
  <2>1. [g \in Guardians |-> 0] \in [Guardians -> 0..MaxCheckIns] /\ [g \in Guardians |-> 0] \in [Guardians -> Nat]
    BY OutboxAssumption
  <2> QED BY <2>1 DEF Trip
<1>2. Created \in Event
  BY <1>0 DEF Created, Event, Kinds
<1>3. PICK e \in Event : e = Created
  BY <1>2
<1>4. outbox = <<e>> /\ outbox \in Seq(Event) /\ Len(outbox) = 1 /\ outbox[1] = e
  <2>1. outbox = <<e>>
    BY <1>3
  <2>2. <<e>> \in Seq(Event) /\ Len(<<e>>) = 1 /\ <<e>>[1] = e
    OBVIOUS
  <2> QED BY <2>1, <2>2
<1>5. Blank \in Chronicle
  BY <1>0 DEF Blank, Chronicle
<1>6. records = <<>> /\ records \in Seq(Record) /\ Len(records) = 0
  <2>1. <<>> \in Seq(Record) /\ Len(<<>>) = 0
    OBVIOUS
  <2> QED BY <2>1
<1>7. OutboxTypeOK
  <2>1. requests \in 0..MaxRequests /\ lost \in 0..MaxLost /\ delivered \subseteq 0..Len(outbox) - 1 /\ calls \subseteq Call
    BY OutboxAssumption
  <2> QED BY <1>1, <1>4, <1>5, <1>6, <2>1 DEF OutboxTypeOK
<1>8. CaptureInv
  <2>1. PICK d : d = told(Blank, e)
    OBVIOUS
  <2>2. /\ d.next = 1 /\ d.assignment = 0 /\ d.guardian = Nobody /\ d.outcome = 0
        /\ d.last = [g \in Guardians |-> 0] /\ d.checked = {} /\ d.credited = {} /\ d.thanked = {}
        /\ d = [next |-> 1, assignment |-> 0, guardian |-> Nobody, outcome |-> 0,
                last |-> [g \in Guardians |-> 0], checked |-> {}, credited |-> {}, thanked |-> {}]
    BY <1>3, <2>1 DEF told, Blank, Created
  <2>3. d \in Chronicle
    BY <2>2 DEF Chronicle
  <2> DEFINE h == [i \in 0..1 |-> IF i = 0 THEN Blank ELSE d]
  <2>4. h \in [0..1 -> Chronicle] /\ h[0] = Blank /\ h[1] = d
    BY <1>5, <2>3
  <2> HIDE DEF h
  <2>5. path(outbox, h)
    <3>1. \A i \in 1..1 : i = 1 /\ i - 1 = 0
      OBVIOUS
    <3> QED BY <1>4, <2>1, <2>4, <3>1 DEF path
  <2>6. knows(h)
    BY <1>6, <2>4, <2>5 DEF knows
  <2>7. Tells(d, trip)
    <3>1. {g \in Guardians : [x \in Guardians |-> 0][g] > 0} = {}
      OBVIOUS
    <3> QED BY <2>2, <3>1 DEF Tells, isClosed
  <2>8. Serving(trip)
    BY DEF Serving, personalAgentLive
  <2>9. Len(outbox) <= MaxEvents
    BY <1>4, CommunityAssumption
  <2>10. \A i \in 1..Len(outbox) : outbox[i].sequence = i - 1
    <3>1. \A i \in 1..1 : i = 1 /\ i - 1 = 0
      OBVIOUS
    <3>2. e.sequence = 0
      BY <1>3 DEF Created
    <3> QED BY <1>4, <3>1, <3>2
  <2> QED BY <1>4, <2>4, <2>6, <2>7, <2>8, <2>9, <2>10 DEF CaptureInv
<1>9. LedgerInv
  <2>1. JournalIsPrefix
    BY <1>4, <1>6 DEF JournalIsPrefix
  <2>2. CallsInv
    BY DEF CallsInv
  <2>3. Blank.next = 0 /\ Consistent(Blank)
    BY <1>0 DEF Blank, Consistent
  <2>4. total(records) = 0
    BY TotalOfNone
  <2>5. Credits(Blank, records)
    BY <2>4 DEF Credits, shared, Blank
  <2> QED BY <1>6, <2>1, <2>2, <2>3, <2>5 DEF LedgerInv
<1> QED BY <1>7, <1>8, <1>9 DEF OutboxInv

LEMMA SavedKeeps == OutboxInv /\ trip # Erased /\ JourneySaved => OutboxInv'
<1> SUFFICES ASSUME OutboxInv, trip # Erased, JourneySaved PROVE OutboxInv'
  OBVIOUS
<1>1. PICK next : Sound(next) /\ Save(next)
  BY DEF JourneySaved
<1>2. UNCHANGED Store /\ requests' \in 0..MaxRequests
  BY DEF JourneySaved
<1>3. Len(records) <= Len(outbox)
  BY DEF OutboxInv, LedgerInv, JournalIsPrefix
<1>4. /\ OutboxTypeOK' /\ CaptureInv'
      /\ Len(outbox) <= Len(outbox') /\ \A i \in 1..Len(outbox) : outbox'[i] = outbox[i]
  BY <1>1, <1>2, <1>3, SaveKeeps DEF OutboxInv
<1>5. delivered' = delivered /\ calls' = calls /\ journal' = journal /\ records' = records
  BY <1>2 DEF Store
<1>6. PICK m \in Nat, n \in Nat, l \in Nat : m = Len(records) /\ n = Len(outbox) /\ l = Len(outbox') /\ m <= n /\ n <= l
  BY <1>3, <1>4 DEF OutboxInv, OutboxTypeOK
<1>7. JournalIsPrefix'
  <2>1. \A i \in 1..m : records[i].event = outbox[i] /\ outbox'[i] = outbox[i]
    BY <1>4, <1>6 DEF OutboxInv, LedgerInv, JournalIsPrefix
  <2>2. \A i \in delivered : i < m
    BY <1>6 DEF OutboxInv, LedgerInv, JournalIsPrefix
  <2> QED BY <1>5, <1>6, <2>1, <2>2 DEF JournalIsPrefix
<1>8. CallsInv'
  <2>1. 0..n - 1 \subseteq 0..l - 1
    BY <1>6
  <2>2. \A c \in calls : c.rows \subseteq 0..n - 1 /\ (c.answer = "accepted" => \A i \in c.rows : i < m)
    BY <1>6 DEF OutboxInv, LedgerInv, CallsInv
  <2>3. \A c \in calls : c.rows \subseteq 0..l - 1
    BY <2>1, <2>2
  <2> QED BY <1>5, <1>6, <2>2, <2>3 DEF CallsInv
<1> QED BY <1>4, <1>5, <1>7, <1>8 DEF OutboxInv, LedgerInv

LEMMA PurgeKeeps == OutboxInv /\ Purge => OutboxInv'
<1> SUFFICES ASSUME OutboxInv, Purge PROVE OutboxInv'
  OBVIOUS
<1>1. /\ trip' = Erased /\ outbox' = outbox /\ requests' = requests /\ delivered' = delivered /\ calls' = calls
      /\ journal' = journal /\ records' = records /\ lost' = lost
  BY DEF Purge, Store
<1>2. OutboxTypeOK'
  BY <1>1 DEF OutboxInv, OutboxTypeOK
<1>3. CaptureInv'
  <2>1. PICK h : knows(h)
    BY DEF OutboxInv, CaptureInv
  <2>2. knows(h)'
    BY <1>1, <2>1 DEF knows
  <2> QED BY <1>1, <2>2 DEF OutboxInv, CaptureInv
<1>4. LedgerInv'
  BY <1>1 DEF OutboxInv, LedgerInv, JournalIsPrefix, CallsInv
<1> QED BY <1>2, <1>3, <1>4 DEF OutboxInv

(* What leaves journey, rows and journal alone.                            *)
LEMMA CallsChange ==
  ASSUME OutboxInv, UNCHANGED <<trip, requests, outbox, journal, records>>,
         calls' \subseteq Call, lost' \in 0..MaxLost,
         \A i \in delivered' : i \in 0..Len(outbox) - 1 /\ i < Len(records),
         \A c \in calls' : /\ c.rows \subseteq 0..Len(outbox) - 1
                           /\ c.answer = "accepted" => \A i \in c.rows : i < Len(records)
  PROVE  OutboxInv'
<1>1. OutboxTypeOK'
  BY DEF OutboxInv, OutboxTypeOK
<1>2. CaptureInv'
  <2>1. PICK h : knows(h) /\ (trip # Erased => Tells(h[Len(outbox)], trip))
    BY DEF OutboxInv, CaptureInv
  <2>2. knows(h)' /\ (trip' # Erased => Tells(h[Len(outbox')], trip'))
    BY <2>1 DEF knows
  <2> QED BY <2>2 DEF OutboxInv, CaptureInv
<1>3. JournalIsPrefix'
  BY DEF OutboxInv, LedgerInv, JournalIsPrefix
<1>4. CallsInv'
  BY DEF CallsInv
<1> QED BY <1>1, <1>2, <1>3, <1>4 DEF OutboxInv, LedgerInv

LEMMA CallShapes ==
  ASSUME OutboxInv
  PROVE  /\ calls \subseteq Call /\ lost \in 0..MaxLost
         /\ \A i \in delivered : i \in 0..Len(outbox) - 1 /\ i < Len(records)
         /\ \A c \in calls : /\ c.rows \subseteq 0..Len(outbox) - 1
                             /\ c.answer = "accepted" => \A i \in c.rows : i < Len(records)
<1>1. calls \subseteq Call /\ lost \in 0..MaxLost /\ delivered \subseteq 0..Len(outbox) - 1
  BY DEF OutboxInv, OutboxTypeOK
<1>2. (\A i \in delivered : i < Len(records)) /\ CallsInv
  BY DEF OutboxInv, LedgerInv, JournalIsPrefix
<1> QED BY <1>1, <1>2 DEF CallsInv

LEMMA DeliverKeeps == OutboxInv /\ DeliverCommunity => OutboxInv'
<1> SUFFICES ASSUME OutboxInv, DeliverCommunity PROVE OutboxInv'
  OBVIOUS
<1>1. PICK c : c = [rows |-> batch, answer |-> "none"] /\ calls' = calls \cup {c}
  BY DEF DeliverCommunity
<1>2. UNCHANGED <<trip, requests, outbox, delivered, journal, records, lost>>
  BY DEF DeliverCommunity
<1>3. c.rows \subseteq 0..Len(outbox) - 1 /\ c.answer = "none"
  BY <1>1 DEF batch, undelivered
<1>4. c \in Call
  <2>1. Len(outbox) \in Nat /\ Len(outbox) <= MaxEvents /\ MaxEvents \in Nat
    BY CommunityAssumption DEF OutboxInv, OutboxTypeOK, CaptureInv
  <2>2. 0..Len(outbox) - 1 \subseteq 0..MaxEvents - 1
    BY <2>1
  <2>3. c.rows \subseteq 0..MaxEvents - 1
    BY <1>3, <2>2
  <2> QED BY <1>1, <1>3, <2>3 DEF Call
<1> QED BY <1>1, <1>2, <1>3, <1>4, CallShapes, CallsChange

LEMMA LoseAnswerKeeps ==
  ASSUME OutboxInv, NEW c \in calls, LoseAnswer(c)
  PROVE  OutboxInv'
<1>1. PICK k : k = [c EXCEPT !.answer = "lost"] /\ calls' = (calls \ {c}) \cup {k}
  BY DEF LoseAnswer
<1>2. UNCHANGED <<trip, requests, outbox, delivered, journal, records>> /\ lost < MaxLost /\ lost' = lost + 1
  BY DEF LoseAnswer
<1>3. k \in Call /\ k.rows = c.rows /\ k.answer = "lost"
  BY <1>1, CallShapes DEF Call
<1>4. lost' \in 0..MaxLost
  BY <1>2, CallShapes, OutboxAssumption
<1> QED BY <1>1, <1>2, <1>3, <1>4, CallShapes, CallsChange

LEMMA AnsweredKeeps ==
  ASSUME OutboxInv, NEW c \in calls, Answered(c)
  PROVE  OutboxInv'
<1>1. /\ delivered' = delivered \cup marked(c) /\ calls' = calls \ {c}
      /\ UNCHANGED <<trip, requests, outbox, journal, records, lost>>
  BY DEF Answered
<1>2. \A i \in marked(c) : i \in 0..Len(outbox) - 1 /\ i < Len(records)
  BY CallShapes DEF marked
<1> QED BY <1>1, <1>2, CallShapes, CallsChange

LEMMA AppendCallKeeps ==
  ASSUME OutboxInv, NEW c \in calls, AppendCall(c)
  PROVE  OutboxInv'
<1>1. PICK h : knows(h) /\ (trip # Erased => Tells(h[Len(outbox)], trip))
  BY DEF OutboxInv, CaptureInv
<1>2. PICK o \in Seq(Event) : o = outbox /\ \A i \in 1..Len(o) : o[i].sequence = i - 1
  BY DEF OutboxInv, OutboxTypeOK, CaptureInv
<1>3. path(o, h)
  BY <1>1, <1>2 DEF knows
<1>4. PICK j \in Chronicle, rs \in Seq(Record) : j = journal /\ rs = records
  BY DEF OutboxInv, OutboxTypeOK
<1>5. PICK m \in Nat : m = Len(rs)
  OBVIOUS
<1>6. PICK base : base = [accepted |-> TRUE, journal |-> j, records |-> rs]
  OBVIOUS
<1>7. InStep(o, h, j, rs)
  <2>1. Len(rs) <= Len(o) /\ \A i \in 1..Len(rs) : rs[i].event = o[i]
    BY <1>2, <1>4 DEF OutboxInv, LedgerInv, JournalIsPrefix
  <2>2. j = h[Len(rs)]
    BY <1>1, <1>4 DEF knows
  <2> QED BY <1>4, <2>1, <2>2 DEF InStep, OutboxInv, LedgerInv
<1>8. Keeps(o, h, m, {}, base)
  <2>1. base \in Stores /\ base.journal = j /\ base.records = rs
    BY <1>6 DEF Stores
  <2> QED BY <1>5, <1>7, <2>1 DEF Keeps
<1>9. PICK S \in SUBSET (0..Len(o) - 1) : S = c.rows
  BY <1>2, CallShapes
<1>10. PICK sent : sent = events(c) /\ sent = [i \in 1..Cardinality(S) |-> o[ascending(S)[i] + 1]]
  BY <1>2, <1>9 DEF events
<1>01. PICK R : R = {i + 1 : i \in S}
  OBVIOUS
<1>11. PICK v : v = FoldLeft(takes, base, sent) /\ Keeps(o, h, m, R, v)
  <2>1. Keeps(o, h, m, R, FoldLeft(takes, base, sent))
    BY <1>2, <1>3, <1>01, <1>8, <1>10, CallKeeps
  <2> QED BY <2>1
<1>12. /\ calls' = (calls \ {c}) \cup {[c EXCEPT !.answer = IF v.accepted THEN "accepted" ELSE "refused"]}
       /\ IF v.accepted THEN journal' = v.journal /\ records' = v.records ELSE UNCHANGED <<journal, records>>
       /\ UNCHANGED <<trip, requests, outbox, delivered, lost>>
  <2>1. base = Empty
    BY <1>4, <1>6 DEF Empty
  <2>2. v = FoldLeft(takes, Empty, events(c))
    BY <1>10, <1>11, <2>1
  <2> QED BY <2>2 DEF AppendCall
<1>13. PICK k : k = [c EXCEPT !.answer = IF v.accepted THEN "accepted" ELSE "refused"]
  OBVIOUS
<1>14. /\ k \in Call /\ k.rows = c.rows /\ (k.answer = "accepted" => v.accepted)
  BY <1>13, CallShapes DEF Call
<1>15. CASE ~v.accepted
  <2>1. UNCHANGED <<trip, requests, outbox, journal, records>> /\ delivered' = delivered /\ lost' = lost
    BY <1>12, <1>15
  <2>2. calls' = (calls \ {c}) \cup {k}
    BY <1>12, <1>13
  <2> QED BY <1>14, <1>15, <2>1, <2>2, CallShapes, CallsChange
<1>16. CASE v.accepted
  <2>1. PICK d \in Chronicle, ss \in Seq(Record) : d = v.journal /\ ss = v.records /\ InStep(o, h, d, ss) /\ m <= Len(ss)
    BY <1>11 DEF Keeps, Stores
  <2>2. journal' = d /\ records' = ss /\ outbox' = o /\ trip' = trip /\ requests' = requests /\ delivered' = delivered /\ lost' = lost
    BY <1>2, <1>12, <1>16, <2>1
  <2>3. calls' = (calls \ {c}) \cup {k}
    BY <1>12, <1>13
  <2>4. PICK l \in Nat : l = Len(ss) /\ m <= l
    BY <2>1
  <2>5. \A i \in c.rows : i < l
    <3>1. \A i \in R : i <= l
      BY <1>11, <1>16, <2>1, <2>4 DEF Keeps
    <3>2. \A i \in 0..Len(o) - 1 : i \in Int
      OBVIOUS
    <3>3. \A i \in S : i \in Int /\ i + 1 \in R
      BY <1>01, <3>2
    <3>4. \A i \in S : i \in Int /\ i + 1 <= l
      BY <3>1, <3>3
    <3> QED BY <1>9, <3>4
  <2>6. CallsInv'
    <3>1. \A x \in calls : x.rows \subseteq 0..Len(o) - 1 /\ (x.answer = "accepted" => \A i \in x.rows : i < m /\ i \in Int)
      <4>1. \A x \in calls : x.rows \subseteq 0..Len(o) - 1 /\ (x.answer = "accepted" => \A i \in x.rows : i < m)
        BY <1>2, <1>4, <1>5, CallShapes
      <4>2. \A i \in 0..Len(o) - 1 : i \in Int
        OBVIOUS
      <4> QED BY <4>1, <4>2
    <3>2. \A x \in calls : x.answer = "accepted" => \A i \in x.rows : i < l
      BY <2>4, <3>1
    <3>3. k.rows \subseteq 0..Len(o) - 1 /\ \A i \in k.rows : i < l
      BY <1>14, <2>5, <3>1
    <3> QED BY <2>2, <2>3, <2>4, <3>1, <3>2, <3>3 DEF CallsInv
  <2>7. JournalIsPrefix'
    <3>1. \A i \in delivered : i < m /\ i \in Int
      <4>1. \A i \in delivered : i < m /\ i \in 0..Len(o) - 1
        BY <1>2, <1>4, <1>5, CallShapes
      <4> QED BY <4>1
    <3>2. \A i \in delivered : i < l
      BY <2>4, <3>1
    <3> QED BY <2>1, <2>2, <2>4, <3>2 DEF JournalIsPrefix, InStep
  <2>8. LedgerInv'
    BY <2>1, <2>2, <2>6, <2>7 DEF LedgerInv, InStep
  <2>9. OutboxTypeOK'
    <3>1. calls' \subseteq Call
      BY <1>14, <2>3, CallShapes
    <3> QED BY <1>2, <2>2, <3>1 DEF OutboxInv, OutboxTypeOK
  <2>10. CaptureInv'
    <3>1. d = h[Len(ss)]
      BY <2>1 DEF InStep
    <3>2. knows(h)' /\ (trip' # Erased => Tells(h[Len(outbox')], trip'))
      BY <1>1, <1>2, <2>2, <3>1 DEF knows
    <3> QED BY <1>2, <2>2, <3>2 DEF OutboxInv, CaptureInv
  <2> QED BY <2>8, <2>9, <2>10 DEF OutboxInv
<1> QED BY <1>15, <1>16

LEMMA OutboxKeeps == OutboxSpec => []OutboxInv
<1>1. OutboxInv /\ [OutboxNext]_outboxVars => OutboxInv'
  <2> SUFFICES ASSUME OutboxInv, [OutboxNext]_outboxVars PROVE OutboxInv'
    OBVIOUS
  <2>1. CASE Business
    BY <2>1, BusinessSaves, SavedKeeps, PurgeKeeps DEF OutboxInv
  <2>2. CASE DeliverCommunity
    BY <2>2, DeliverKeeps
  <2>3. CASE \E c \in calls : AppendCall(c)
    BY <2>3, AppendCallKeeps
  <2>4. CASE \E c \in calls : Answered(c)
    BY <2>4, AnsweredKeeps
  <2>5. CASE \E c \in calls : LoseAnswer(c)
    BY <2>5, LoseAnswerKeeps
  <2>6. CASE UNCHANGED outboxVars
    <3>1. UNCHANGED <<trip, requests, outbox, journal, records>> /\ calls' = calls /\ lost' = lost /\ delivered' = delivered
      BY <2>6 DEF outboxVars
    <3> QED BY <3>1, CallShapes, CallsChange
  <2> QED BY <2>1, <2>2, <2>3, <2>4, <2>5, <2>6 DEF OutboxNext, Delivery
<1> QED BY <1>1, OutboxStarts, PTL DEF OutboxSpec

(* The outbox, its calls and the journal keep the shape the code gives     *)
(* them: captureCommunityEvents, deliverCommunity and append, for any      *)
(* guardians, calls and failures.                                          *)
THEOREM OutboxTyped == OutboxSpec => []OutboxTypeOK
<1>1. OutboxInv => OutboxTypeOK
  BY DEF OutboxInv
<1> QED BY <1>1, OutboxKeeps, PTL

(* The journal holds what was captured, each event once and in order, a    *)
(* row marked as delivered is in it, and once up to date it names the      *)
(* guardian, the check-ins and the end that the journey itself has,        *)
(* whatever calls of append failed, were repeated or came late.            *)
THEOREM JournalTells == OutboxSpec => []JournalTellsJourney
<1>1. OutboxInv => JournalTellsJourney
  <2> SUFFICES ASSUME OutboxInv PROVE JournalTellsJourney
    OBVIOUS
  <2>1. JournalIsPrefix
    BY DEF OutboxInv, LedgerInv
  <2>2. ASSUME trip # Erased, Len(records) = Len(outbox) PROVE Tells(journal, trip)
    BY <2>2 DEF OutboxInv, CaptureInv, knows
  <2> QED BY <2>1, <2>2 DEF JournalTellsJourney, Tells
<1> QED BY <1>1, OutboxKeeps, PTL

(* The points of a journal never exceed the pool, an arrival whose         *)
(* contributions are all recorded has shared exactly all of it, and the    *)
(* program computes the same share for every guardian who checked in,      *)
(* though one sorts references and the other counts the lower ones.        *)
THEOREM PoolIsShared == OutboxSpec => []PoolShared
<1>1. OutboxInv => PoolShared
  <2> SUFFICES ASSUME OutboxInv PROVE PoolShared
    OBVIOUS
  <2>1. PICK c \in Chronicle : c = journal
    BY DEF OutboxInv, OutboxTypeOK
  <2>2. PICK rs : rs = records /\ Credits(c, rs)
    BY <2>1 DEF OutboxInv, LedgerInv
  <2>3. /\ total(rs) <= Pool
        /\ c.checked # {} /\ c.credited = c.checked => total(rs) = Pool
        /\ c.outcome # 1 => total(rs) = 0
    BY <2>2, CreditsShare
  <2>4. ASSUME NEW g \in c.checked, NEW e,
               e = [sequence |-> c.next, kind |-> "contribution", actor |-> g, subject |-> g,
                    assignment |-> c.last[g], value |-> 0]
        PROVE  journalPoints(c, e) = programPoints(c, e)
    <3>1. e.kind = "contribution" /\ e.subject = g
      BY <2>4
    <3> QED BY <3>1, PointsAgree
  <2>5. \A g \in c.checked :
          \E e \in {[sequence |-> c.next, kind |-> "contribution", actor |-> g, subject |-> g,
                     assignment |-> c.last[g], value |-> 0]} :
            journalPoints(c, e) = programPoints(c, e)
    BY <2>4
  <2> QED BY <2>1, <2>2, <2>3, <2>5 DEF PoolShared, total
<1> QED BY <1>1, OutboxKeeps, PTL

=============================================================================
