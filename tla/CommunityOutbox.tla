-------------------------- MODULE CommunityOutbox --------------------------
(***************************************************************************)
(* How what happens in a journey reaches its public journal: the capture   *)
(* of events in the transaction that saves the journey                     *)
(* (captureCommunityEvents in src/worker/src/community-events.ts), the     *)
(* outbox (TripRoom.deliverCommunity in src/worker/src/trips.ts) and       *)
(* CommunityLedger.append (src/worker/src/community-ledger.ts), a durable  *)
(* object apart.                                                           *)
(*                                                                         *)
(* The journey is reduced to what is captured.  Leases and retry times of  *)
(* the outbox may run out at any moment, so that a batch may be sent again *)
(* while it is under way.                                                  *)
(***************************************************************************)
EXTENDS CommunityRules, FiniteSetsExt

CONSTANTS
  BatchLimit,                       \* 32 events of one call
  MaxCheckIns, MaxRequests, MaxCalls, MaxLost      \* bounds

ASSUME OutboxAssumption ==
  /\ BatchLimit \in Nat \ {0}
  /\ MaxCalls \in Nat \ {0}
  /\ MaxCheckIns \in Nat /\ MaxRequests \in Nat /\ MaxLost \in Nat

VARIABLES
  trip,       \* the stored journey, or Erased
  outbox,     \* table community_source, in sequence
  delivered,  \* sequence numbers of rows marked as delivered
  calls,      \* append calls under way
  journal,    \* metadata "journey" and "next"
  records,    \* the journal's records, in sequence
  requests,   \* bound on requests of a relay or a delegation
  lost        \* bound on failed calls

outboxVars == <<trip, outbox, delivered, calls, journal, records, requests, lost>>

NoRelay == -2

(* relay is who requested it.  The agent's owner is the guardian.  tail is *)
(* the type of the last entry of trip.events, as far as capture asks.      *)
Trip == [status: {"open", "active", "arrived", "cancelled"}, guardian: Guardians \cup {Nobody},
         members: SUBSET Guardians, deleted: SUBSET Guardians,
         checkIns: [Guardians -> 0..MaxCheckIns], relay: Members \cup {Nobody, NoRelay},
         agent: {"none", "granted", "active", "ended", "unavailable", "resumed"},
         gratitude: SUBSET Guardians, tail: {"expired", "other"},
         assignment: Nat, last: [Guardians -> Nat], checked: SUBSET Guardians]
Erased == [status |-> "erased"]

Record == [event: Event, points: 0..Pool]
Call == [rows: SUBSET (0..MaxEvents - 1), answer: {"none", "accepted", "refused", "lost"}]

isClosed(t) == t.status \in {"arrived", "cancelled"}
personalAgentLive(t) == t.agent \in {"granted", "active"}

----------------------------------------------------------------------------
(* captureCommunityEvents: what changed from the stored journey to the one *)
(* being saved, in the order of the code.                                  *)

of(kind, actor, subject, assignment, value) ==
  <<[kind |-> kind, actor |-> actor, subject |-> subject, assignment |-> assignment, value |-> value]>>

agentStopped(before, after) ==
  IF before.agent = "active" /\ (after.agent # "active" \/ after.guardian # before.guardian \/ isClosed(after))
  THEN IF after.agent = "resumed" /\ after.guardian = before.guardian /\ ~isClosed(after)
       THEN of("agent_service", before.guardian, before.guardian, before.assignment, 3)
       ELSE of("agent_service", Nobody, before.guardian, before.assignment,
               IF after.agent = "unavailable" THEN 2 ELSE 1)
  ELSE <<>>

replaced(before, after) == after.guardian \notin {Nobody, before.guardian}
assignment(before, after) == before.assignment + (IF replaced(before, after) THEN 1 ELSE 0)

assigned(before, after) ==
  IF replaced(before, after)
  THEN of("assigned", Rider, after.guardian, assignment(before, after), 0) ELSE <<>>

agentStarted(before, after) ==
  IF after.agent = "active" /\ before.agent # "active" /\ ~isClosed(after)
  THEN of("agent_service", after.guardian, after.guardian, assignment(before, after), 0) ELSE <<>>

hasCheckedIn(before, after) ==
  /\ after.guardian # Nobody /\ ~isClosed(before)
  /\ after.checkIns[after.guardian] > before.checkIns[after.guardian]

checkIn(before, after) ==
  IF hasCheckedIn(before, after)
  THEN of("check_in", after.guardian, after.guardian, assignment(before, after), 0) ELSE <<>>

relayRequested(before, after) ==
  IF after.relay # NoRelay /\ before.relay = NoRelay /\ after.guardian # Nobody
  THEN of("relay_requested", after.relay, after.guardian, assignment(before, after),
          IF after.relay = Nobody THEN 1 ELSE 0)
  ELSE <<>>

outcome(after) == IF after.status = "arrived" THEN 1 ELSE IF after.tail = "expired" THEN 3 ELSE 2

(* What community.guardians holds once the event is captured.  What no     *)
(* later capture asks, who requested a relay and how service ended, is     *)
(* forgotten.                                                              *)
noted(before, after) ==
  [after EXCEPT
    !.relay = IF @ = NoRelay THEN NoRelay ELSE Nobody,
    !.agent = IF personalAgentLive(after) THEN @ ELSE "none",
    !.tail = "other",
    !.assignment = assignment(before, after),
    !.last = IF replaced(before, after)
             THEN [before.last EXCEPT ![after.guardian] = assignment(before, after)] ELSE before.last,
    !.checked = IF hasCheckedIn(before, after)
                THEN before.checked \cup {after.guardian} ELSE before.checked]

closed(before, after) ==
  LET t == noted(before, after)
      contribution(g) == of("contribution", g, g, t.last[g], 0)
  IN IF isClosed(after) /\ ~isClosed(before)
     THEN of("closed", Rider, Rider, t.assignment, outcome(after))
          \o (IF after.status = "arrived"
              THEN FlattenSeq([i \in 1..Cardinality(t.checked) |-> contribution(SetToSeq(t.checked)[i])])
              ELSE <<>>)
     ELSE <<>>

gratitude(before, after) ==
  LET new == (after.gratitude \ before.gratitude) \cap after.members
  IN FlattenSeq([i \in 1..Cardinality(new) |->
       LET g == SetToSeq(new)[i] IN of("gratitude", Rider, g, before.last[g], 1)])

capturedFirstGuardianOnly(before, after) ==
  agentStopped(before, after)
  \o (IF before.guardian = Nobody THEN assigned(before, after) ELSE <<>>)
  \o agentStarted(before, after) \o relayRequested(before, after)
  \o closed(before, after) \o gratitude(before, after)

captured(before, after) ==
  agentStopped(before, after) \o assigned(before, after) \o agentStarted(before, after)
  \o checkIn(before, after) \o relayRequested(before, after)
  \o closed(before, after) \o gratitude(before, after)

numbered(s, from) ==
  [i \in 1..Len(s) |->
    [sequence |-> from + i - 1, kind |-> s[i].kind, actor |-> s[i].actor, subject |-> s[i].subject,
     assignment |-> s[i].assignment, value |-> s[i].value]]

(* save: a live delegation ends with the journey or its guardian.          *)
reconcilePersonalAgent(before, after) ==
  IF personalAgentLive(after) /\ (isClosed(after) \/ after.guardian # before.guardian)
  THEN [after EXCEPT !.agent = "ended", !.tail = "other"] ELSE after

Save(next) ==
  \E t \in {reconcilePersonalAgent(trip, next)}: \E e \in {captured(trip, t)}:
    /\ Len(outbox) + Len(e) <= MaxEvents
    /\ trip' = noted(trip, t)
    /\ outbox' = outbox \o numbered(e, Len(outbox))

----------------------------------------------------------------------------
(* What happens in the journey.                                            *)

Created == [sequence |-> 0, kind |-> "created", actor |-> Rider, subject |-> Rider,
            assignment |-> 0, value |-> 0]

OutboxInit ==
  /\ trip = [status |-> "open", guardian |-> Nobody, members |-> {}, deleted |-> {},
             checkIns |-> [g \in Guardians |-> 0], relay |-> NoRelay, agent |-> "none",
             gratitude |-> {}, tail |-> "other",
             assignment |-> 0, last |-> [g \in Guardians |-> 0], checked |-> {}]
  /\ outbox = <<Created>>
  /\ delivered = {} /\ calls = {} /\ journal = Blank /\ records = <<>> /\ requests = 0 /\ lost = 0

Store == <<delivered, calls, journal, records, lost>>

Running == trip # Erased /\ trip.status \in {"open", "active"}
Recruiting == Running /\ (trip.status = "open" \/ trip.relay # NoRelay)
openRelay(t, by) == IF t.status = "active" /\ t.relay = NoRelay THEN [t EXCEPT !.relay = by] ELSE t
mayJoin(g) == g \in {h \in Guardians : trip.last[h] > 0}
              \/ Cardinality({h \in Guardians : trip.last[h] > 0}) < MaxGuardians

Accept(g) ==
  /\ Recruiting /\ g \notin trip.members \cup trip.deleted \cup {trip.guardian}
  /\ Cardinality({h \in Guardians : trip.last[h] > 0}) < MaxGuardians
  /\ Save([trip EXCEPT !.members = @ \cup {g}, !.tail = "other"])
  /\ UNCHANGED <<requests, Store>>

Approve(g) ==
  /\ Recruiting /\ g \in trip.members \ {trip.guardian} /\ mayJoin(g)
  /\ Save([trip EXCEPT !.guardian = g, !.status = "active", !.relay = NoRelay, !.tail = "other"])
  /\ UNCHANGED <<requests, Store>>

(* A guardian who checks in or resumes ends the delegation.                *)
GuardianCheckIn ==
  /\ Running /\ trip.guardian # Nobody /\ trip.checkIns[trip.guardian] < MaxCheckIns
  /\ Save([trip EXCEPT !.checkIns[trip.guardian] = @ + 1, !.tail = "other",
                       !.agent = IF personalAgentLive(trip) THEN "resumed" ELSE @])
  /\ UNCHANGED <<requests, Store>>

(* A request by a participant or the platform; a takeover starts an open   *)
(* journey.                                                                *)
RequestRelay(by) ==
  /\ Running /\ trip.relay = NoRelay /\ by \in {Rider, Nobody, trip.guardian}
  /\ requests < MaxRequests /\ requests' = requests + 1
  /\ Save(openRelay([trip EXCEPT !.status = "active", !.tail = "other"], by))
  /\ UNCHANGED Store

RelayEnds ==
  /\ Running /\ trip.relay # NoRelay
  /\ Save([trip EXCEPT !.relay = NoRelay, !.tail = "other"])
  /\ UNCHANGED <<requests, Store>>

Delegate ==
  /\ Running /\ trip.guardian # Nobody /\ ~personalAgentLive(trip)
  /\ requests < MaxRequests /\ requests' = requests + 1
  /\ Save([trip EXCEPT !.agent = "granted", !.tail = "other"])
  /\ UNCHANGED Store

AgentServes ==
  /\ Running /\ trip.agent = "granted"
  /\ Save([trip EXCEPT !.agent = "active", !.tail = "other"])
  /\ UNCHANGED <<requests, Store>>

(* Revoked, expired or out of reach; service that ends needs a relay.      *)
AgentEnds(how) ==
  /\ Running /\ personalAgentLive(trip)
  /\ \E t \in {[trip EXCEPT !.agent = how, !.tail = "other"]}:
       \/ Save(openRelay(t, Nobody))
       \/ trip.agent = "granted" /\ Save(t)
  /\ UNCHANGED <<requests, Store>>

ended(status, expired) ==
  [trip EXCEPT !.status = status, !.relay = NoRelay, !.tail = IF expired THEN "expired" ELSE "other"]

Close ==
  /\ Running
  /\ \/ Save(ended("arrived", FALSE))
     \/ Save(ended("cancelled", FALSE))
     \/ Save(ended("cancelled", TRUE))
  /\ UNCHANGED <<requests, Store>>

eligibleGratitude == {g \in trip.checked \cap trip.members : trip.checkIns[g] > 0}
SendGratitude(g) ==
  /\ trip # Erased /\ isClosed(trip) /\ g \in eligibleGratitude \ trip.gratitude
  /\ Save([trip EXCEPT !.gratitude = @ \cup {g}])
  /\ UNCHANGED <<requests, Store>>

(* The account of a guardian or volunteer is deleted.  Any delegation ends *)
(* and is forgotten.                                                       *)
ScrubUser(g) ==
  /\ trip # Erased /\ g \in trip.members
  /\ \E t \in {[trip EXCEPT !.gratitude = @ \ {g}, !.members = @ \ {g}, !.deleted = @ \cup {g},
                            !.agent = "none", !.tail = "other",
                            !.guardian = IF @ = g THEN Nobody ELSE @]}:
       \/ Running /\ personalAgentLive(trip) /\ Save(openRelay(t, Nobody))
       \/ Running /\ trip.guardian = g /\ Save(openRelay(t, Nobody))
       \/ (Running => trip.guardian # g /\ trip.agent # "active") /\ Save(t)
  /\ UNCHANGED <<requests, Store>>

(* The rider erases a closed journey.  When the rider's account is         *)
(* deleted a running one is cancelled first, as Close does.                *)
Purge ==
  /\ trip # Erased /\ isClosed(trip)
  /\ trip' = Erased
  /\ UNCHANGED <<outbox, requests, Store>>

----------------------------------------------------------------------------
(* deliverCommunity and append.                                            *)

undelivered == (0..Len(outbox) - 1) \ delivered
batch == {i \in undelivered : Cardinality({j \in undelivered : j < i}) < BatchLimit}

(* The alarm, also of an erased journey, comes back for as long as this    *)
(* holds.                                                                  *)
deliveryDueWhileLive == trip # Erased /\ undelivered # {}
deliveryDue == undelivered # {}

DeliverCommunity ==
  /\ deliveryDue /\ Cardinality(calls) < MaxCalls
  /\ \E c \in {[rows |-> batch, answer |-> "none"]}: c \notin calls /\ calls' = calls \cup {c}
  /\ UNCHANGED <<trip, requests, outbox, delivered, journal, records, lost>>

Empty == [accepted |-> TRUE, journal |-> journal, records |-> records]

appended(store, e) ==
  IF ~store.accepted THEN store
  ELSE IF e.sequence < Len(store.records)
  THEN [store EXCEPT !.accepted = store.records[e.sequence + 1].event = e]
  ELSE IF journalAccepts(store.journal, e)
  THEN [accepted |-> TRUE, journal |-> told(store.journal, e),
        records |-> Append(store.records, [event |-> e, points |-> journalPoints(store.journal, e)])]
  ELSE [store EXCEPT !.accepted = FALSE]

(* appended with its argument evaluated, which TLC would else do at every  *)
(* mention.                                                                *)
takes(store, e) == CHOOSE after \in {appended(s, e) : s \in {store}} : TRUE

events(c) == [i \in 1..Cardinality(c.rows) |-> outbox[ascending(c.rows)[i] + 1]]

(* One transaction: all events of the call or none.                        *)
AppendCall(c) ==
  /\ c.answer = "none"
  /\ \E store \in {FoldLeft(takes, Empty, sent) : sent \in {events(c)}}:
       /\ calls' = (calls \ {c}) \cup
            {[c EXCEPT !.answer = IF store.accepted THEN "accepted" ELSE "refused"]}
       /\ IF store.accepted THEN journal' = store.journal /\ records' = store.records
          ELSE UNCHANGED <<journal, records>>
  /\ UNCHANGED <<trip, requests, outbox, delivered, lost>>

(* The call fails or its answer is lost, before or after it took effect.   *)
LoseAnswer(c) ==
  /\ lost < MaxLost /\ c.answer \in {"none", "accepted", "refused"}
  /\ lost' = lost + 1
  /\ calls' = (calls \ {c}) \cup {[c EXCEPT !.answer = "lost"]}
  /\ UNCHANGED <<trip, requests, outbox, delivered, journal, records>>

marked(c) == IF c.answer = "accepted" THEN c.rows ELSE {}

Answered(c) ==
  /\ c.answer # "none"
  /\ delivered' = delivered \cup marked(c)
  /\ calls' = calls \ {c}
  /\ UNCHANGED <<trip, requests, outbox, journal, records, lost>>

Business == \/ \E g \in Guardians: Accept(g) \/ Approve(g) \/ SendGratitude(g) \/ ScrubUser(g)
            \/ GuardianCheckIn \/ RelayEnds \/ Delegate \/ AgentServes \/ Close \/ Purge
            \/ \E by \in Members \cup {Nobody}: RequestRelay(by)
            \/ \E how \in {"ended", "unavailable"}: AgentEnds(how)

Delivery == DeliverCommunity \/ \E c \in calls: AppendCall(c) \/ Answered(c)

OutboxNext == Business \/ Delivery \/ \E c \in calls: LoseAnswer(c)

(* The platform runs the alarm and the called object, and every call ends  *)
(* for who waits for it.                                                   *)
OutboxSpec == OutboxInit /\ [][OutboxNext]_outboxVars /\ WF_outboxVars(DeliverCommunity)
        /\ WF_outboxVars(\E c \in calls: AppendCall(c)) /\ WF_outboxVars(\E c \in calls: Answered(c))

----------------------------------------------------------------------------
(* The stored rows have the shape the code gives them.                     *)
OutboxTypeOK ==
  /\ trip \in Trip \cup {Erased}
  /\ outbox \in Seq(Event) /\ records \in Seq(Record) /\ journal \in Chronicle
  /\ delivered \subseteq 0..Len(outbox) - 1 /\ calls \subseteq Call
  /\ requests \in 0..MaxRequests /\ lost \in 0..MaxLost

(* The journal holds what was captured, each event once and in order, and  *)
(* a row marked as delivered is in it, whatever calls failed or came late. *)
JournalIsPrefix ==
  /\ Len(records) <= Len(outbox)
  /\ \A i \in 1..Len(records): records[i].event = outbox[i]
  /\ \A i \in delivered: i < Len(records)

(* The journal never says more than was captured, and once up to date it   *)
(* says of guardian, check-ins and end what the journey itself says.       *)
JournalTellsJourney ==
  JournalIsPrefix /\ (trip # Erased /\ Len(records) = Len(outbox) =>
    /\ journal.assignment = trip.assignment
    /\ trip.guardian \in {journal.guardian, Nobody}
    /\ journal.checked = {g \in Guardians : trip.checkIns[g] > 0}
    /\ (journal.outcome # 0) <=> isClosed(trip)
    /\ (journal.outcome = 1) <=> trip.status = "arrived")

(* An arrival whose contributions are all recorded has shared the whole    *)
(* pool; before, and otherwise, never more than that.  The program will    *)
(* compute the same shares, or their receipts would never be verified.     *)
PoolShared ==
  LET total == FoldLeft(LAMBDA sum, r: sum + r.points, 0, records) IN
  /\ total <= Pool
  /\ journal.outcome = 1 /\ journal.checked # {} /\ journal.credited = journal.checked
       => total = Pool
  /\ journal.outcome # 1 => total = 0
  /\ \A g \in journal.checked:
       \E e \in {[sequence |-> journal.next, kind |-> "contribution", actor |-> g, subject |-> g,
                  assignment |-> journal.last[g], value |-> 0]}:
         journalPoints(journal, e) = programPoints(journal, e)

(* Everything captured reaches the journal, also after private erasure.    *)
EventuallyJournaled == []<>(Len(records) = Len(outbox))

=============================================================================
