------------------------------ MODULE Journey ------------------------------
(***************************************************************************)
(* One private journey: the TripRoom durable object of                     *)
(* src/worker/src/trips.ts, seen from recruitment to erasure.              *)
(*                                                                         *)
(* A rider opens a guard request, guardians apply, the rider approves one, *)
(* the guardian checks in, a missed check-in hands monitoring to the       *)
(* server, a relay looks for a replacement, and the journey closes by      *)
(* arrival, cancellation or its lifetime limit.  A durable object runs one *)
(* request at a time between two awaits, so each handler up to its save    *)
(* and schedule is one step; what follows the save (index, notifications,  *)
(* rewards, community records) is modelled by the modules of those parts.  *)
(*                                                                         *)
(* Every absolute time the object stores is represented by the time left   *)
(* until it (0 when it has passed), so that Tick is the only action that   *)
(* reads the clock and no bound on time is needed.                         *)
(***************************************************************************)
EXTENDS Integers, FiniteSets

CONSTANTS
  Guardians,       \* accounts that may apply to guard this journey
  NoOne,           \* trip.guardian = null
  MaxRound,        \* relay identifiers 1..MaxRound are reused cyclically; 0 is the initial request
  MaxApplications, \* pending applications a request accepts (5 in the code)
  OpenLife,        \* 24 hours: lifetime of an unclaimed request
  ActiveLife,      \* 6 hours: lifetime of monitoring, from the first activation
  ApplicationTtl,  \* 5 minutes
  RelayTtl,        \* 10 minutes
  CheckInEvery,    \* trip.checkInIntervalSeconds, 30 to 300 seconds
  AiCheckInEvery,  \* Math.max(60, trip.checkInIntervalSeconds)
  Retention        \* 30 days: private data kept after closure

ASSUME JourneyAssumption ==
  /\ NoOne \notin Guardians
  /\ MaxRound \in Nat /\ MaxRound >= 2
  /\ MaxApplications \in Nat \ {0}
  /\ OpenLife \in Nat \ {0} /\ ActiveLife \in Nat \ {0}
  /\ ApplicationTtl \in Nat \ {0} /\ RelayTtl \in Nat \ {0}
  /\ CheckInEvery \in Nat \ {0} /\ AiCheckInEvery \in Nat \ {0}
  /\ Retention \in Nat \ {0}

VARIABLES
  trip,     \* the row of trip_state, or Erased
  alarm,    \* time left until the object's alarm, or NoTimer
  deleted   \* accounts whose deletion has scrubbed this journey

vars == <<trip, alarm, deleted>>

NoTimer == -1
Timer == Nat \cup {NoTimer}
Closed == {"arrived", "cancelled"}
Status == {"open", "active"} \cup Closed
Kind == {"none", "initial", "relay"}

(* A pending guardianRequests entry; round is a history field naming the  *)
(* recruitment round it was made for, which the code does not store.      *)
Application == [kind: Kind, round: 0..MaxRound, left: Timer]
NoApplication == [kind |-> "none", round |-> 0, left |-> NoTimer]

(* A contributions entry: absent, running (endedAt = null) or ended.      *)
Slot == {"absent", "running", "ended"}

Trip == [
  status: Status,
  guardian: Guardians \cup {NoOne},
  guardMode: {"waiting", "human", "ai"},
  life: Nat,                              \* until the lifetime limit
  round: 0..MaxRound,                     \* last relay opened
  relayLeft: Timer,                       \* trip.relay.expiresAt, NoTimer when no relay is open
  guardianRequests: [Guardians -> Application],
  slot: [Guardians -> Slot],
  nextCheckIn: Timer,                     \* trip.nextCheckInAt
  aiNextCheckIn: Timer,                   \* state.aiNextCheckInAt
  automatedCheckIns: BOOLEAN,             \* trip.assistance.automatedCheckIns
  timeoutContact: BOOLEAN,                \* trip.assistance.timeoutContact and notificationConsent
  missed: 0..2,                           \* state.aiMissedCheckIns, of which only >= 2 is read
  escalated: BOOLEAN,                     \* state.automatedEscalationSent
  silence: 0..2,                          \* history: automated checks since the rider's last sign of life
  privacy: Timer ]                        \* trip.privacyExpiresAt

Erased == [status |-> "erased"]
Live == trip # Erased

isClosed(t) == t.status \in Closed
NoApplications == [g \in Guardians |-> NoApplication]
Pending(t) == {g \in Guardians : t.guardianRequests[g] # NoApplication}
AtMostTwo(n) == IF n >= 2 THEN 2 ELSE n

----------------------------------------------------------------------------
(* Pure parts of the handlers, from one trip to the next.                  *)

(* What the directory offers: summary(trip).requestKind.                   *)
requestKind(t) ==
  IF t.status = "open" /\ t.life > 0 THEN "initial"
  ELSE IF t.status = "active" /\ t.relayLeft > 0 THEN "relay"
  ELSE "none"

requestRound(t) == IF requestKind(t) = "relay" THEN t.round ELSE 0
requestLeft(t) == IF requestKind(t) = "initial" THEN t.life ELSE t.relayLeft

(* allocateContributions, as far as the participation periods go.          *)
endSlots(t) ==
  [g \in Guardians |-> IF t.slot[g] = "running" THEN "ended" ELSE t.slot[g]]

(* The three ways a journey closes share everything but what they do to    *)
(* recruitment: expire() leaves that to its own filter.                    *)
closeAs(t, outcome) ==
  [t EXCEPT !.status = outcome, !.nextCheckIn = NoTimer,
            !.aiNextCheckIn = NoTimer, !.slot = endSlots(t)]

withoutRecruitment(t) ==
  [t EXCEPT !.relayLeft = NoTimer, !.guardianRequests = NoApplications]

(* The filter at the end of expire(): an application lives while it is     *)
(* unexpired and the request of its kind is still offered.                 *)
keepsApplication(t, a) ==
  /\ ~isClosed(t)
  /\ a.left > 0
  /\ IF a.kind = "initial" THEN t.status = "open" ELSE t.relayLeft # NoTimer

expireLife(t) == IF ~isClosed(t) /\ t.life = 0 THEN closeAs(t, "cancelled") ELSE t

expireRelay(t) ==
  IF t.relayLeft # NoTimer /\ (isClosed(t) \/ t.relayLeft = 0)
  THEN [t EXCEPT !.relayLeft = NoTimer] ELSE t

filterRequests(t) ==
  [t EXCEPT !.guardianRequests = [g \in Guardians |->
     IF keepsApplication(t, t.guardianRequests[g])
     THEN t.guardianRequests[g] ELSE NoApplication]]

expire(t) == filterRequests(expireRelay(expireLife(t)))

(* save(): a closed journey gets its retention limit once; without         *)
(* automated check-ins none is scheduled.                                  *)
save(t) ==
  [t EXCEPT !.privacy = IF isClosed(t) /\ t.privacy = NoTimer THEN Retention ELSE t.privacy,
            !.aiNextCheckIn = IF t.automatedCheckIns THEN t.aiNextCheckIn ELSE NoTimer]

openRelay(t) ==
  IF t.status # "active" \/ t.relayLeft # NoTimer THEN t
  ELSE [t EXCEPT !.round = (t.round % MaxRound) + 1, !.relayLeft = RelayTtl,
                 !.guardianRequests = NoApplications]

(* Monitoring starts once: state.monitoringStartedAt ??= now.              *)
activate(t) ==
  IF t.status = "open" THEN [t EXCEPT !.status = "active", !.life = ActiveLife] ELSE t

takeover(t) ==
  openRelay(activate([t EXCEPT !.guardMode = "ai", !.nextCheckIn = NoTimer,
    !.aiNextCheckIn = IF t.automatedCheckIns THEN AiCheckInEvery ELSE NoTimer,
    !.missed = 0]))

(* checkIns itself belongs to the reward pool, modelled by RewardSettlement. *)
guardianCheckIn(t) ==
  [t EXCEPT !.slot = [g \in Guardians |->
     IF g = t.guardian /\ t.slot[g] = "absent" THEN "running" ELSE t.slot[g]]]

(* approve-guardian: the former guardian's period ends as the new one      *)
(* begins, and the round of recruitment is over.                           *)
approveKeepingRecruitment(t, g) ==
  [activate(t) EXCEPT !.guardian = g, !.guardMode = "human",
    !.slot = [h \in Guardians |-> IF h = g THEN "running"
                                  ELSE IF h = t.guardian THEN "ended" ELSE t.slot[h]],
    !.nextCheckIn = CheckInEvery, !.aiNextCheckIn = NoTimer, !.missed = 0]

approve(t, g) ==
  withoutRecruitment([activate(t) EXCEPT !.guardian = g, !.guardMode = "human",
    !.slot = [h \in Guardians |-> IF h = g THEN "running"
                                  ELSE IF h = t.guardian THEN "ended" ELSE t.slot[h]],
    !.nextCheckIn = CheckInEvery, !.aiNextCheckIn = NoTimer, !.missed = 0])

----------------------------------------------------------------------------
(* The alarm.  schedule() collects every stored deadline.                  *)

RunningDeadlines(t) ==
  IF isClosed(t) THEN {}
  ELSE {t.life} \cup
       {d \in {t.nextCheckIn, t.relayLeft} : d # NoTimer} \cup
       {d \in {t.aiNextCheckIn} : t.guardMode = "ai" /\ d # NoTimer} \cup
       {t.guardianRequests[g].left : g \in Pending(t)}

Deadlines(t) == {d \in {t.privacy} : d # NoTimer} \cup RunningDeadlines(t)

Earliest(S) == CHOOSE d \in S : \A e \in S : d <= e
schedule(t) == IF Deadlines(t) = {} THEN NoTimer ELSE Earliest(Deadlines(t))

(* save(state); await this.schedule(): one step, because the alarm is set  *)
(* before the handler first yields.  (The bound u is save(t), named once.) *)
Store(t) == \E u \in {save(t)}:
  trip' = u /\ alarm' = schedule(u) /\ UNCHANGED deleted

(* An automated check-in is due and no answer came: the alarm sends one    *)
(* and, after two, may notify the trusted contact if the rider allowed it. *)
escalate(t) ==
  IF t.missed >= 2 /\ ~t.escalated /\ t.timeoutContact
  THEN [t EXCEPT !.escalated = TRUE] ELSE t

aiCheckIn(t) ==
  IF t.guardMode = "ai" /\ t.automatedCheckIns /\ t.aiNextCheckIn = 0
  THEN escalate([t EXCEPT !.missed = AtMostTwo(t.missed + 1),
                          !.silence = AtMostTwo(t.silence + 1),
                          !.aiNextCheckIn = AiCheckInEvery])
  ELSE t

missedGuardian(t) ==
  IF t.guardMode = "human" /\ t.nextCheckIn = 0 THEN takeover(t) ELSE t

Monitor(t) == IF isClosed(t) THEN t ELSE aiCheckIn(missedGuardian(t))

----------------------------------------------------------------------------
(* Initial state: initialize() for a real journey.                         *)

NewTrip(authorized) == [
  status |-> "open", guardian |-> NoOne, guardMode |-> "waiting", life |-> OpenLife,
  round |-> 0, relayLeft |-> NoTimer, guardianRequests |-> NoApplications,
  slot |-> [g \in Guardians |-> "absent"], nextCheckIn |-> NoTimer,
  aiNextCheckIn |-> NoTimer, automatedCheckIns |-> TRUE, timeoutContact |-> authorized,
  missed |-> 0, escalated |-> FALSE, silence |-> 0, privacy |-> NoTimer ]

Init == /\ trip = NewTrip(FALSE)
        /\ alarm = OpenLife
        /\ deleted = {}

----------------------------------------------------------------------------
(* act(): expiry is applied first, and a closed journey refuses the rest.  *)
(* A refused call leaves what Read leaves.                                 *)

Fresh == expire(trip)
CanAct == Live /\ ~isClosed(Fresh)

Sooner(d, e) == IF d <= e THEN d ELSE e

NewApplication(t, r) ==
  [kind |-> requestKind(t), round |-> r,
   left |-> Sooner(ApplicationTtl, requestLeft(t))]

mayAccept(t, g, r) ==
  /\ g # t.guardian
  /\ requestKind(t) # "none" /\ r = requestRound(t)
  /\ t.guardianRequests[g] = NoApplication
  /\ Cardinality(Pending(t)) < MaxApplications

(* A volunteer answers the request shown to it, r; an account that has     *)
(* been erased can no longer sign in.                                      *)
Accept(g, r) ==
  /\ CanAct /\ g \notin deleted /\ mayAccept(Fresh, g, r)
  /\ Store([Fresh EXCEPT !.guardianRequests[g] = NewApplication(Fresh, r)])

Withdraw(g) ==
  /\ CanAct /\ g \in Pending(Fresh)
  /\ Store([Fresh EXCEPT !.guardianRequests[g] = NoApplication])

mayDecide(t, g) ==
  /\ t.guardianRequests[g].left > 0
  /\ t.guardianRequests[g].kind = requestKind(t)

Approve(g) == CanAct /\ mayDecide(Fresh, g) /\ Store(approve(Fresh, g))

Reject(g) ==
  /\ CanAct /\ mayDecide(Fresh, g)
  /\ Store([Fresh EXCEPT !.guardianRequests[g] = NoApplication])

RequestRelay ==
  /\ CanAct /\ Fresh.status = "active" /\ Fresh.relayLeft = NoTimer
  /\ Store(openRelay(Fresh))

CancelRelay(r) ==
  /\ CanAct /\ Fresh.relayLeft # NoTimer /\ r = Fresh.round
  /\ Store(withoutRecruitment(Fresh))

(* The rider reports being okay; a message also counts as an answer.       *)
riderAnswersOnce(t) == [t EXCEPT !.escalated = FALSE, !.silence = 0]
riderAnswers(t) == [t EXCEPT !.missed = 0, !.escalated = FALSE, !.silence = 0]

RiderCheckIn ==
  /\ CanAct
  /\ Store([riderAnswers(Fresh) EXCEPT
       !.aiNextCheckIn = IF Fresh.guardMode = "ai" THEN AiCheckInEvery ELSE @])

RiderMessage == CanAct /\ Store(riderAnswers(Fresh))

GuardianCheckIn ==
  /\ CanAct /\ Fresh.guardian # NoOne
  /\ Store([guardianCheckIn(Fresh) EXCEPT
       !.nextCheckIn = IF Fresh.guardMode = "human" THEN CheckInEvery ELSE @])

(* Either participant reports that human monitoring is unavailable.        *)
Takeover == CanAct /\ Store(takeover(Fresh))

Resume ==
  /\ CanAct /\ Fresh.guardian # NoOne
  /\ Store([guardianCheckIn(Fresh) EXCEPT !.guardMode = "human",
       !.nextCheckIn = CheckInEvery, !.aiNextCheckIn = NoTimer, !.missed = 0])

Finish(outcome) == CanAct /\ Store(withoutRecruitment(closeAs(Fresh, outcome)))
Arrive == Finish("arrived")
Cancel == Finish("cancelled")

----------------------------------------------------------------------------
(* setAssistance(): on a closed journey it saves without scheduling.       *)

assist(t, automated, contact) ==
  [t EXCEPT !.automatedCheckIns = automated, !.timeoutContact = contact,
     !.aiNextCheckIn = IF ~t.automatedCheckIns /\ automated /\ t.guardMode = "ai"
                       THEN AiCheckInEvery ELSE @,
     !.missed = IF ~t.automatedCheckIns /\ automated /\ t.guardMode = "ai" THEN 0 ELSE @]

SetAssistance(automated, contact) ==
  CanAct /\ Store(assist(Fresh, automated, contact))

SetAssistanceClosed ==
  /\ Live /\ isClosed(Fresh)
  /\ trip' = save(Fresh)
  /\ UNCHANGED <<alarm, deleted>>

(* purge(): nothing is left, and no alarm.                                 *)
Purge == trip' = Erased /\ alarm' = NoTimer

(* read(), and every call that is refused.                                 *)
Read ==
  /\ Live
  /\ IF trip.privacy = 0 THEN Purge /\ UNCHANGED deleted
     ELSE Fresh # trip /\ Store(Fresh)

EraseForRider == Live /\ isClosed(trip) /\ Purge /\ UNCHANGED deleted

(* scrubUser() for the rider erases the journey whatever its state.        *)
ScrubRider == Live /\ Purge /\ UNCHANGED deleted

scrub(t, g) ==
  LET u == [t EXCEPT !.guardianRequests[g] = NoApplication] IN
  IF t.guardian # g THEN u
  ELSE IF isClosed(t) THEN [u EXCEPT !.guardian = NoOne]
  ELSE takeover([u EXCEPT !.guardian = NoOne])

ScrubUser(g) ==
  /\ Live /\ g \notin deleted
  /\ trip' = save(scrub(trip, g))
  /\ alarm' = schedule(save(scrub(trip, g)))
  /\ deleted' = deleted \cup {g}

AlarmFires ==
  /\ Live /\ alarm = 0
  /\ IF trip.privacy = 0 THEN Purge /\ UNCHANGED deleted
     ELSE \E t \in {Fresh}: Store(Monitor(t))

----------------------------------------------------------------------------
(* Time: every stored deadline comes one unit nearer.                      *)

Elapse(d) == IF d > 0 THEN d - 1 ELSE d

elapsed(t) ==
  [t EXCEPT !.life = Elapse(@), !.relayLeft = Elapse(@), !.nextCheckIn = Elapse(@),
    !.aiNextCheckIn = Elapse(@), !.privacy = Elapse(@),
    !.guardianRequests = [g \in Guardians |->
       [t.guardianRequests[g] EXCEPT !.left = Elapse(@)]]]

Tick == /\ Live
        /\ trip' = elapsed(trip)
        /\ alarm' = Elapse(alarm)
        /\ UNCHANGED deleted

Rider == \/ \E g \in Guardians: Approve(g) \/ Reject(g)
         \/ RiderCheckIn \/ RiderMessage \/ Arrive \/ Cancel
         \/ \E automated, contact \in BOOLEAN: SetAssistance(automated, contact)
         \/ SetAssistanceClosed \/ EraseForRider \/ ScrubRider

Volunteer == \E g \in Guardians:
  \/ \E r \in 0..MaxRound: Accept(g, r)
  \/ Withdraw(g)
  \/ ScrubUser(g)

Participant == \/ RequestRelay \/ \E r \in 1..MaxRound: CancelRelay(r)
               \/ GuardianCheckIn \/ Takeover \/ Resume \/ Read

Next == Rider \/ Volunteer \/ Participant \/ AlarmFires \/ Tick

(* The platform runs alarms and time passes; no person has to do anything. *)
Spec == Init /\ [][Next]_vars /\ WF_vars(Tick) /\ WF_vars(AlarmFires)

----------------------------------------------------------------------------
(* The stored row has the shape the handlers assume (trip_state).          *)
TypeOK == /\ trip \in Trip \cup {Erased}
          /\ alarm \in Timer
          /\ deleted \subseteq Guardians

(* A pending application belongs to the request that is open now: one made *)
(* for an earlier replacement round, or before activation, can never be    *)
(* approved in a later one.                                                *)
applicationsBelong(t, gone) ==
  \A g \in Guardians: t.guardianRequests[g] # NoApplication =>
    LET a == t.guardianRequests[g] IN
    /\ g # t.guardian /\ g \notin gone
    /\ \/ t.status = "open" /\ a.kind = "initial" /\ a.round = 0
       \/ /\ t.status = "active" /\ t.relayLeft # NoTimer
          /\ a.kind = "relay" /\ a.round = t.round
          /\ a.left <= t.relayLeft

ApplicationsBelongToRound == Live => applicationsBelong(trip, deleted)

(* Participation periods follow custody: while the journey runs, the       *)
(* current guardian's period is open and nobody else's is, save that of a  *)
(* deleted account; closure ends them all.                                 *)
periodsFollow(t, gone) ==
  \A g \in Guardians:
    IF isClosed(t) THEN t.slot[g] # "running"
    ELSE /\ t.slot[g] = "running" => g = t.guardian \/ g \in gone
         /\ g = t.guardian => t.slot[g] = "running"

PeriodsFollowCustody == Live => periodsFollow(trip, deleted)

(* Exactly one monitor is on duty: a human guardian with a deadline, or    *)
(* the server with a next check unless the rider switched checks off.      *)
(* No handler leaves an active journey with nobody due.                    *)
someoneIsDue(t) ==
  ~isClosed(t) =>
    /\ t.status = "open" <=> t.guardMode = "waiting"
    /\ t.nextCheckIn # NoTimer <=> t.guardMode = "human"
    /\ t.guardMode = "human" => t.guardian # NoOne
    /\ t.aiNextCheckIn # NoTimer <=> t.guardMode = "ai" /\ t.automatedCheckIns

SomeoneIsDue == Live => someoneIsDue(trip)

(* The object always has an alarm, and never later than a stored deadline, *)
(* although some handlers save without scheduling.                         *)
AlarmNeverLate ==
  Live => /\ Deadlines(trip) # {}
          /\ alarm # NoTimer
          /\ \A d \in Deadlines(trip): alarm <= d

(* The trusted contact is brought in only with the rider's standing        *)
(* permission and after two automated checks with no sign of life since.   *)
EscalatedOnlyAfterSilence ==
  [][Live /\ trip' # Erased /\ ~trip.escalated /\ trip'.escalated
       => /\ trip.timeoutContact /\ trip.automatedCheckIns
          /\ trip'.silence = 2]_vars

(* The journey implements the custody protocol: the people a rider can     *)
(* approve are exactly the live applicants of the open request.            *)
approvable(t) ==
  {g \in Guardians : /\ t.guardianRequests[g].left > 0
                     /\ requestKind(t) # "none"
                     /\ t.guardianRequests[g].kind = requestKind(t)}

candidates == IF Live THEN approvable(trip) ELSE {}

phase == IF ~Live THEN "erased" ELSE IF isClosed(trip) THEN "closed" ELSE trip.status

Protocol == INSTANCE Custody WITH
  People <- Guardians, Nobody <- NoOne, phase <- phase,
  guardian <- IF Live THEN trip.guardian ELSE NoOne, candidates <- candidates

ImplementsCustody == Protocol!Spec

(* Every private journey ends and is erased, even if nobody returns.       *)
EventuallyErased == <>(trip = Erased)

=============================================================================
