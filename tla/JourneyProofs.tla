--------------------------- MODULE JourneyProofs ---------------------------
(* Safety of a private journey for every number of candidates, every limit *)
(* and every interval: the inductive invariant of Journey and what follows *)
(* from it.  Then that Journey implements Custody: every handler, every    *)
(* alarm and every tick of the clock is one custody step or none; and that *)
(* only silence brings in the trusted contact.                             *)
EXTENDS Journey, WellFoundedInduction, TLAPS

(* Facts no handler disturbs, besides the invariants of Journey itself.    *)
phasesCohere(t) ==
  /\ t.status = "open" => t.guardian = NoOne /\ t.relayLeft = NoTimer
  /\ isClosed(t) => /\ t.relayLeft = NoTimer
                    /\ t.nextCheckIn = NoTimer /\ t.aiNextCheckIn = NoTimer
  /\ t.missed <= t.silence

pendingHaveDeadlines(t) ==
  \A g \in Guardians: t.guardianRequests[g] # NoApplication => t.guardianRequests[g].left \in Nat

(* What a handler may leave for save() to finish: an automated check still *)
(* scheduled although the rider has just switched checks off.              *)
monitorPrepared(t) ==
  ~isClosed(t) =>
    /\ t.status = "open" <=> t.guardMode = "waiting"
    /\ t.nextCheckIn # NoTimer <=> t.guardMode = "human"
    /\ t.guardMode = "human" => t.guardian # NoOne
    /\ t.aiNextCheckIn # NoTimer => t.guardMode = "ai"
    /\ t.guardMode = "ai" /\ t.automatedCheckIns => t.aiNextCheckIn # NoTimer

Prepared(t, gone) ==
  /\ t \in Trip
  /\ applicationsBelong(t, gone) /\ periodsFollow(t, gone)
  /\ phasesCohere(t) /\ pendingHaveDeadlines(t) /\ monitorPrepared(t)

Sound(t, gone) == Prepared(t, gone) /\ someoneIsDue(t)

IInv == /\ trip = Erased \/ Sound(trip, deleted)
        /\ deleted \subseteq Guardians

LEMMA ErasedIsNoTrip == Erased \notin Trip
BY DEF Erased, Trip, Status, Closed

LEMMA SaveSound ==
  ASSUME NEW t, NEW gone, Prepared(t, gone)
  PROVE  Sound(save(t), gone)
<1>1. save(t) \in Trip
  BY JourneyAssumption DEF Prepared, save, Trip, NoTimer, Timer
<1>2. applicationsBelong(save(t), gone)
  BY DEF Prepared, applicationsBelong, save, Trip, NoApplication
<1>3. periodsFollow(save(t), gone)
  BY DEF Prepared, periodsFollow, save, Trip, isClosed
<1>4. phasesCohere(save(t)) /\ pendingHaveDeadlines(save(t))
  BY DEF Prepared, phasesCohere, pendingHaveDeadlines, save, Trip, isClosed
<1>5. monitorPrepared(save(t)) /\ someoneIsDue(save(t))
  BY DEF Prepared, monitorPrepared, someoneIsDue, save, Trip, isClosed
<1> QED BY <1>1, <1>2, <1>3, <1>4, <1>5 DEF Sound, Prepared

----------------------------------------------------------------------------
(* Expiry                                                                  *)

(* What holds between the steps of expire(): applications may outlive the  *)
(* request they answered until the final filter.                           *)
Expiring(t, gone) ==
  /\ t \in Trip
  /\ periodsFollow(t, gone) /\ pendingHaveDeadlines(t) /\ someoneIsDue(t)
  /\ t.missed <= t.silence
  /\ t.status = "open" => t.guardian = NoOne /\ t.relayLeft = NoTimer
  /\ isClosed(t) => t.nextCheckIn = NoTimer /\ t.aiNextCheckIn = NoTimer
  /\ ~isClosed(t) =>
       \A g \in Guardians: t.guardianRequests[g] # NoApplication =>
         LET a == t.guardianRequests[g] IN
         /\ g # t.guardian /\ g \notin gone
         /\ \/ t.status = "open" /\ a.kind = "initial" /\ a.round = 0
            \/ /\ t.status = "active" /\ a.kind = "relay" /\ a.round = t.round
               /\ t.relayLeft # NoTimer => a.left <= t.relayLeft

LEMMA ExpireLifeExpiring ==
  ASSUME NEW t, NEW gone, Sound(t, gone)
  PROVE  Expiring(expireLife(t), gone)
<1>1. expireLife(t) \in Trip
  BY DEF Sound, Prepared, expireLife, Trip, closeAs, endSlots, Slot, Status, Closed, NoTimer, Timer
<1>2. CASE ~isClosed(t) /\ t.life = 0
  <2>1. expireLife(t) = closeAs(t, "cancelled")
    BY <1>2 DEF expireLife
  <2>2. isClosed(closeAs(t, "cancelled"))
    BY DEF closeAs, isClosed, Closed, Sound, Prepared, Trip
  <2>3. periodsFollow(closeAs(t, "cancelled"), gone)
    BY <2>2 DEF closeAs, endSlots, periodsFollow, Sound, Prepared, Trip
  <2> QED
    BY <1>1, <2>1, <2>2, <2>3 DEF Sound, Prepared, Expiring, phasesCohere, pendingHaveDeadlines,
       someoneIsDue, closeAs, Trip, isClosed, Closed
<1>3. CASE ~(~isClosed(t) /\ t.life = 0)
  BY <1>1, <1>3 DEF expireLife, Sound, Prepared, Expiring, phasesCohere, applicationsBelong
<1> QED BY <1>2, <1>3

LEMMA ExpireRelayExpiring ==
  ASSUME NEW t, NEW gone, Expiring(t, gone)
  PROVE  /\ Expiring(expireRelay(t), gone)
         /\ isClosed(expireRelay(t)) => expireRelay(t).relayLeft = NoTimer
<1>1. expireRelay(t) \in Trip
  BY DEF Expiring, expireRelay, Trip, Timer, NoTimer
<1>2. periodsFollow(expireRelay(t), gone) /\ someoneIsDue(expireRelay(t))
      /\ pendingHaveDeadlines(expireRelay(t))
  BY DEF Expiring, expireRelay, Trip, isClosed, periodsFollow, someoneIsDue, pendingHaveDeadlines
<1> QED
  BY <1>1, <1>2 DEF Expiring, expireRelay, Trip, isClosed

LEMMA FilterSound ==
  ASSUME NEW t, NEW gone, Expiring(t, gone), isClosed(t) => t.relayLeft = NoTimer
  PROVE  /\ Sound(filterRequests(t), gone)
         /\ \A g \in Guardians: filterRequests(t).guardianRequests[g] # NoApplication
               => filterRequests(t).guardianRequests[g].left > 0
<1> DEFINE u == filterRequests(t)
<1>1. u \in Trip
  BY JourneyAssumption DEF Expiring, filterRequests, Trip, NoApplication, Application, Kind, Timer, NoTimer
<1>2. /\ periodsFollow(u, gone) /\ someoneIsDue(u) /\ phasesCohere(u)
  BY DEF Expiring, filterRequests, Trip, isClosed, periodsFollow, someoneIsDue, phasesCohere
<1>3. \A g \in Guardians: u.guardianRequests[g] # NoApplication =>
         u.guardianRequests[g] = t.guardianRequests[g] /\ keepsApplication(t, t.guardianRequests[g])
  BY DEF Expiring, filterRequests, Trip
<1>4. applicationsBelong(u, gone)
  <2>1. u.status = t.status /\ u.guardian = t.guardian /\ u.round = t.round
        /\ u.relayLeft = t.relayLeft
    BY DEF Expiring, filterRequests, Trip
  <2> HIDE DEF u
  <2> QED BY <1>3, <2>1 DEF Expiring, applicationsBelong, keepsApplication
<1>5. pendingHaveDeadlines(u)
  BY <1>3 DEF Expiring, pendingHaveDeadlines
<1>6. monitorPrepared(u)
  BY <1>2 DEF monitorPrepared, someoneIsDue
<1>7. \A g \in Guardians: u.guardianRequests[g] # NoApplication => u.guardianRequests[g].left > 0
  BY <1>3 DEF keepsApplication
<1> QED BY <1>1, <1>2, <1>4, <1>5, <1>6, <1>7 DEF Sound, Prepared

LEMMA ExpireSound ==
  ASSUME NEW t, NEW gone, Sound(t, gone)
  PROVE  /\ Sound(expire(t), gone)
         /\ \A g \in Guardians: expire(t).guardianRequests[g] # NoApplication
               => expire(t).guardianRequests[g].left > 0
BY ExpireLifeExpiring, ExpireRelayExpiring, FilterSound DEF expire

----------------------------------------------------------------------------
(* The handlers: each prepares a trip that save() completes.               *)

LEMMA RecruitmentType ==
  /\ NoApplications \in [Guardians -> Application]
  /\ \A g \in Guardians: NoApplications[g] = NoApplication
BY JourneyAssumption DEF NoApplications, NoApplication, Application, Kind, Timer, NoTimer

LEMMA WithoutRecruitmentPrepared ==
  ASSUME NEW t, NEW gone, t \in Trip, periodsFollow(t, gone), monitorPrepared(t),
         t.missed <= t.silence,
         t.status = "open" => t.guardian = NoOne,
         isClosed(t) => t.nextCheckIn = NoTimer /\ t.aiNextCheckIn = NoTimer
  PROVE  Prepared(withoutRecruitment(t), gone)
<1> DEFINE u == withoutRecruitment(t)
<1>1. u \in Trip
  BY RecruitmentType DEF withoutRecruitment, Trip, Timer
<1>2. \A g \in Guardians: u.guardianRequests[g] = NoApplication
  BY RecruitmentType DEF withoutRecruitment, Trip
<1>3. applicationsBelong(u, gone) /\ pendingHaveDeadlines(u)
  BY <1>2 DEF applicationsBelong, pendingHaveDeadlines
<1>4. periodsFollow(u, gone) /\ monitorPrepared(u) /\ phasesCohere(u)
  BY DEF withoutRecruitment, Trip, periodsFollow, monitorPrepared, phasesCohere, isClosed
<1> QED BY <1>1, <1>3, <1>4 DEF Prepared

LEMMA AcceptPrepared ==
  ASSUME NEW t, NEW gone, Sound(t, gone), NEW g \in Guardians, g \notin gone,
         NEW r \in 0..MaxRound, mayAccept(t, g, r)
  PROVE  Prepared([t EXCEPT !.guardianRequests[g] = NewApplication(t, r)], gone)
<1> DEFINE a == NewApplication(t, r)
           u == [t EXCEPT !.guardianRequests[g] = a]
<1>1. t \in Trip
  BY DEF Sound, Prepared
<1>2. requestLeft(t) \in Nat
  BY <1>1 DEF mayAccept, requestKind, requestLeft, Trip, Timer, NoTimer
<1>3. a \in Application /\ a.left \in Nat /\ a.left <= requestLeft(t) /\ a.kind = requestKind(t)
      /\ a.round = r
  BY <1>2, JourneyAssumption DEF NewApplication, Application, Kind, Timer, Sooner, requestKind
<1>4. u \in Trip
  BY <1>1, <1>3 DEF Trip
<1>5. \A h \in Guardians: u.guardianRequests[h] = IF h = g THEN a ELSE t.guardianRequests[h]
  BY <1>1 DEF Trip
<1>6. /\ u.status = t.status /\ u.guardian = t.guardian /\ u.round = t.round
      /\ u.relayLeft = t.relayLeft
  BY <1>1 DEF Trip
<1>7. applicationsBelong(u, gone)
  <2> HIDE DEF a, u
  <2> QED
    BY <1>3, <1>5, <1>6 DEF mayAccept, applicationsBelong, requestKind, requestRound, requestLeft,
       Sound, Prepared, NoTimer
<1>8. pendingHaveDeadlines(u)
  <2> HIDE DEF a, u
  <2> QED BY <1>3, <1>5 DEF Sound, Prepared, pendingHaveDeadlines
<1>9. periodsFollow(u, gone) /\ phasesCohere(u) /\ monitorPrepared(u)
  BY <1>1 DEF Sound, Prepared, Trip, periodsFollow, phasesCohere, monitorPrepared, isClosed
<1> QED BY <1>4, <1>7, <1>8, <1>9 DEF Prepared

(* Withdrawal, refusal and the scrubbing of an applicant.                  *)
LEMMA RemovalPrepared ==
  ASSUME NEW t, NEW gone, Sound(t, gone), NEW g \in Guardians
  PROVE  LET u == [t EXCEPT !.guardianRequests[g] = NoApplication]
         IN  Prepared(u, gone) /\ applicationsBelong(u, gone \cup {g})
<1> DEFINE u == [t EXCEPT !.guardianRequests[g] = NoApplication]
<1>1. u \in Trip
  BY RecruitmentType DEF Sound, Prepared, Trip, NoApplications
<1>2. \A h \in Guardians: u.guardianRequests[h]
         = IF h = g THEN NoApplication ELSE t.guardianRequests[h]
  BY DEF Sound, Prepared, Trip
<1>3. /\ u.status = t.status /\ u.guardian = t.guardian /\ u.round = t.round
      /\ u.relayLeft = t.relayLeft
  BY DEF Sound, Prepared, Trip
<1>4. /\ applicationsBelong(u, gone) /\ applicationsBelong(u, gone \cup {g})
      /\ pendingHaveDeadlines(u)
  <2> HIDE DEF u
  <2> QED BY <1>2, <1>3 DEF Sound, Prepared, applicationsBelong, pendingHaveDeadlines
<1>5. periodsFollow(u, gone) /\ phasesCohere(u) /\ monitorPrepared(u)
  BY DEF Sound, Prepared, Trip, periodsFollow, phasesCohere, monitorPrepared, isClosed
<1> QED BY <1>1, <1>4, <1>5 DEF Prepared

LEMMA ApprovePrepared ==
  ASSUME NEW t, NEW gone, Sound(t, gone), ~isClosed(t), NEW g \in Guardians
  PROVE  Prepared(approve(t, g), gone)
<1> DEFINE a == activate(t)
           p == [h \in Guardians |-> IF h = g THEN "running"
                                     ELSE IF h = t.guardian THEN "ended" ELSE t.slot[h]]
           u == [a EXCEPT !.guardian = g, !.guardMode = "human", !.slot = p,
    !.nextCheckIn = CheckInEvery, !.aiNextCheckIn = NoTimer, !.missed = 0]
<1>1. t \in Trip
  BY DEF Sound, Prepared
<1>2. a \in Trip /\ a.status = "active"
  BY <1>1, JourneyAssumption DEF activate, Trip, Status, isClosed, Closed
<1>3. u \in Trip /\ u.status = "active"
  <2>1. p \in [Guardians -> Slot]
    BY <1>1 DEF Trip, Slot
  <2> HIDE DEF a, p
  <2>2. CheckInEvery \in Timer /\ NoTimer \in Timer /\ 0 \in 0..2 /\ g \in Guardians \cup {NoOne}
    BY JourneyAssumption DEF Timer, NoTimer
  <2> QED BY <1>2, <2>1, <2>2 DEF Trip
<1>4. /\ u.guardian = g /\ u.guardMode = "human" /\ u.nextCheckIn = CheckInEvery
      /\ u.aiNextCheckIn = NoTimer /\ u.missed = 0
      /\ u.slot = p
  <2> HIDE DEF a, p
  <2> QED BY <1>2 DEF Trip
<1>5. approve(t, g) = withoutRecruitment(u)
  BY DEF approve
<1>6. ~isClosed(u)
  BY <1>3 DEF isClosed, Closed
<1>7. periodsFollow(u, gone)
  <2> HIDE DEF u
  <2> QED BY <1>4, <1>6 DEF periodsFollow, Sound, Prepared
<1>8. monitorPrepared(u)
  <2> HIDE DEF u
  <2> QED BY <1>3, <1>4, JourneyAssumption DEF monitorPrepared, NoTimer
<1>9. u.missed <= u.silence
  <2> HIDE DEF u
  <2> QED BY <1>3, <1>4 DEF Trip
<1> HIDE DEF u
<1> QED BY <1>3, <1>5, <1>6, <1>7, <1>8, <1>9, WithoutRecruitmentPrepared

(* A trip about to lose its recruitment, or to have it replaced.           *)
Handover(t, gone) ==
  /\ t \in Trip /\ periodsFollow(t, gone) /\ monitorPrepared(t)
  /\ t.status = "active" /\ t.missed <= t.silence
  /\ t.relayLeft # NoTimer => applicationsBelong(t, gone) /\ pendingHaveDeadlines(t)

LEMMA OpenRelayPrepared ==
  ASSUME NEW t, NEW gone, Handover(t, gone)
  PROVE  Prepared(openRelay(t), gone)
<1>1. CASE t.relayLeft # NoTimer
  BY <1>1 DEF Handover, openRelay, Prepared, phasesCohere, isClosed, Closed
<1>2. CASE t.relayLeft = NoTimer
  <2> DEFINE n == (t.round % MaxRound) + 1
             u == [t EXCEPT !.round = n, !.relayLeft = RelayTtl,
                            !.guardianRequests = NoApplications]
  <2>1. openRelay(t) = u
    BY <1>2 DEF openRelay, Handover
  <2>2. n \in 0..MaxRound
    BY JourneyAssumption DEF Handover, Trip
  <2>3. RelayTtl \in Timer /\ RelayTtl # NoTimer
    BY JourneyAssumption DEF Timer, NoTimer
  <2> HIDE DEF n
  <2>4. u \in Trip /\ u.status = "active"
    BY <2>2, <2>3, RecruitmentType DEF Handover, Trip
  <2>5. \A g \in Guardians: u.guardianRequests[g] = NoApplication
    BY RecruitmentType DEF Handover, Trip
  <2>6. periodsFollow(u, gone) /\ monitorPrepared(u) /\ phasesCohere(u)
    BY <2>4 DEF Handover, Trip, periodsFollow, monitorPrepared, phasesCohere, isClosed, Closed
  <2>7. applicationsBelong(u, gone) /\ pendingHaveDeadlines(u)
    BY <2>5 DEF applicationsBelong, pendingHaveDeadlines
  <2> HIDE DEF u
  <2> QED BY <2>1, <2>4, <2>6, <2>7 DEF Prepared
<1> QED BY <1>1, <1>2

(* takeover() also serves the scrubbing of the guardian's account, when    *)
(* nobody is left to be on duty.                                           *)
LEMMA TakeoverPrepared ==
  ASSUME NEW t, NEW gone, t \in Trip, ~isClosed(t), periodsFollow(t, gone),
         t.missed <= t.silence,
         t.status = "open" => t.relayLeft = NoTimer,
         applicationsBelong(t, gone), pendingHaveDeadlines(t)
  PROVE  Prepared(takeover(t), gone)
<1> DEFINE c == IF t.automatedCheckIns THEN AiCheckInEvery ELSE NoTimer
           m == [t EXCEPT !.guardMode = "ai", !.nextCheckIn = NoTimer,
                          !.aiNextCheckIn = c, !.missed = 0]
           a == activate(m)
<1>1. /\ c \in Timer /\ NoTimer \in Timer /\ 0 \in 0..2
      /\ c = NoTimer <=> ~t.automatedCheckIns
  BY JourneyAssumption DEF Timer, NoTimer, Trip
<1>2. takeover(t) = openRelay(a)
  BY DEF takeover
<1> HIDE DEF c
<1>3. m \in Trip
  BY <1>1 DEF Trip
<1>4. /\ m.guardMode = "ai" /\ m.nextCheckIn = NoTimer /\ m.aiNextCheckIn = c /\ m.missed = 0
      /\ m.status = t.status /\ m.relayLeft = t.relayLeft /\ m.slot = t.slot
      /\ m.guardian = t.guardian /\ m.round = t.round
      /\ m.guardianRequests = t.guardianRequests /\ m.automatedCheckIns = t.automatedCheckIns
  BY DEF Trip
<1> HIDE DEF m
<1>5. a \in Trip /\ a.status = "active"
  BY <1>3, <1>4, JourneyAssumption DEF activate, Trip, Status, isClosed, Closed
<1>6. /\ a.guardMode = "ai" /\ a.nextCheckIn = NoTimer /\ a.aiNextCheckIn = c /\ a.missed = 0
      /\ a.relayLeft = t.relayLeft /\ a.slot = t.slot
      /\ a.guardian = t.guardian /\ a.round = t.round
      /\ a.guardianRequests = t.guardianRequests /\ a.automatedCheckIns = t.automatedCheckIns
  BY <1>3, <1>4 DEF activate, Trip
<1> HIDE DEF a
<1>7. ~isClosed(a)
  BY <1>5 DEF isClosed, Closed
<1>8. periodsFollow(a, gone) /\ pendingHaveDeadlines(a)
  BY <1>6, <1>7 DEF periodsFollow, pendingHaveDeadlines
<1>9. monitorPrepared(a)
  <2> USE DEF monitorPrepared
  <2>1. t.automatedCheckIns => a.aiNextCheckIn # NoTimer
    BY <1>1, <1>6
  <2> QED BY <1>5, <1>6, <2>1
<1>10. a.relayLeft # NoTimer => applicationsBelong(a, gone)
  BY <1>5, <1>6 DEF applicationsBelong, isClosed, Closed, Trip, Status
<1>11. a.missed <= a.silence
  BY <1>5, <1>6 DEF Trip
<1> QED BY <1>2, <1>5, <1>8, <1>9, <1>10, <1>11, OpenRelayPrepared DEF Handover

LEMMA GuardianCheckInSame ==
  ASSUME NEW t, NEW gone, t \in Trip, ~isClosed(t), periodsFollow(t, gone)
  PROVE  guardianCheckIn(t) = t
<1>1. \A g \in Guardians: t.slot[g]
         = IF g = t.guardian /\ t.slot[g] = "absent" THEN "running" ELSE t.slot[g]
  BY DEF periodsFollow
<1>2. [g \in Guardians |-> IF g = t.guardian /\ t.slot[g] = "absent"
                           THEN "running" ELSE t.slot[g]] = t.slot
  BY <1>1 DEF Trip
<1> QED BY <1>2 DEF guardianCheckIn, Trip

LEMMA RiderAnswersSound ==
  ASSUME NEW t, NEW gone, Sound(t, gone)
  PROVE  Sound(riderAnswers(t), gone)
<1>1. riderAnswers(t) \in Trip
  <2>1. t \in Trip /\ 0 \in 0..2 /\ FALSE \in BOOLEAN
    BY DEF Sound, Prepared
  <2> QED BY <2>1 DEF riderAnswers, Trip
<1> QED
  BY <1>1 DEF Sound, Prepared, riderAnswers, Trip, applicationsBelong, periodsFollow, phasesCohere,
     pendingHaveDeadlines, monitorPrepared, someoneIsDue, isClosed

(* A handler that only re-arms the two check-in timers.                    *)
LEMMA TimersPrepared ==
  ASSUME NEW t, NEW gone, Sound(t, gone), ~isClosed(t),
         NEW mode \in {"waiting", "human", "ai"}, NEW human \in Timer, NEW server \in Timer,
         NEW missed \in 0..2, missed <= t.missed,
         t.status = "open" <=> mode = "waiting",
         human # NoTimer <=> mode = "human",
         mode = "human" => t.guardian # NoOne,
         server # NoTimer => mode = "ai",
         mode = "ai" /\ t.automatedCheckIns => server # NoTimer
  PROVE  Prepared([t EXCEPT !.guardMode = mode, !.nextCheckIn = human,
                            !.aiNextCheckIn = server, !.missed = missed], gone)
<1> DEFINE u == [t EXCEPT !.guardMode = mode, !.nextCheckIn = human,
                          !.aiNextCheckIn = server, !.missed = missed]
<1>1. t \in Trip
  BY DEF Sound, Prepared
<1>2. u \in Trip
  BY <1>1 DEF Trip
<1>3. /\ u.guardMode = mode /\ u.nextCheckIn = human /\ u.aiNextCheckIn = server
      /\ u.missed = missed /\ u.silence = t.silence
      /\ u.status = t.status /\ u.relayLeft = t.relayLeft /\ u.slot = t.slot
      /\ u.guardian = t.guardian /\ u.round = t.round
      /\ u.guardianRequests = t.guardianRequests /\ u.automatedCheckIns = t.automatedCheckIns
  BY <1>1 DEF Trip
<1> HIDE DEF u
<1>4. applicationsBelong(u, gone) /\ pendingHaveDeadlines(u) /\ periodsFollow(u, gone)
  BY <1>3 DEF Sound, Prepared, applicationsBelong, pendingHaveDeadlines, periodsFollow, isClosed
<1>5. u.missed <= u.silence
  BY <1>1, <1>3 DEF Sound, Prepared, phasesCohere, Trip
<1>6. phasesCohere(u)
  BY <1>3, <1>5 DEF Sound, Prepared, phasesCohere, isClosed
<1>7. monitorPrepared(u)
  BY <1>3 DEF monitorPrepared
<1> QED BY <1>2, <1>4, <1>6, <1>7 DEF Prepared, u

LEMMA ClosePrepared ==
  ASSUME NEW t, NEW gone, Sound(t, gone), ~isClosed(t), NEW outcome \in Closed
  PROVE  Prepared(withoutRecruitment(closeAs(t, outcome)), gone)
<1> DEFINE u == closeAs(t, outcome)
<1>1. u \in Trip /\ u.status = outcome /\ isClosed(u)
  BY DEF Sound, Prepared, Trip, closeAs, endSlots, Slot, Status, isClosed, Timer, NoTimer
<1>2. /\ u.nextCheckIn = NoTimer /\ u.aiNextCheckIn = NoTimer /\ u.slot = endSlots(t)
      /\ u.missed = t.missed /\ u.silence = t.silence
  BY DEF Sound, Prepared, Trip, closeAs
<1> HIDE DEF u
<1>3. periodsFollow(u, gone) /\ monitorPrepared(u)
  BY <1>1, <1>2 DEF periodsFollow, endSlots, monitorPrepared
<1>4. u.status # "open" /\ u.missed <= u.silence
  BY <1>1, <1>2 DEF Closed, Sound, Prepared, phasesCohere
<1> QED BY <1>1, <1>2, <1>3, <1>4, WithoutRecruitmentPrepared DEF u

LEMMA AssistPrepared ==
  ASSUME NEW t, NEW gone, Sound(t, gone), ~isClosed(t),
         NEW automated \in BOOLEAN, NEW contact \in BOOLEAN
  PROVE  Prepared(assist(t, automated, contact), gone)
<1> DEFINE on == ~t.automatedCheckIns /\ automated /\ t.guardMode = "ai"
           s == IF on THEN AiCheckInEvery ELSE t.aiNextCheckIn
           m == IF on THEN 0 ELSE t.missed
           u == assist(t, automated, contact)
<1>1. t \in Trip
  BY DEF Sound, Prepared
<1>2. s \in Timer /\ m \in 0..2 /\ m <= t.missed
  BY <1>1, JourneyAssumption DEF Trip, Timer, NoTimer
<1>3. on => s # NoTimer
  BY JourneyAssumption DEF NoTimer
<1>4. u \in Trip
  BY <1>1, <1>2 DEF assist, Trip
<1>5. /\ u.guardMode = t.guardMode /\ u.nextCheckIn = t.nextCheckIn /\ u.aiNextCheckIn = s
      /\ u.missed = m /\ u.silence = t.silence
      /\ u.status = t.status /\ u.relayLeft = t.relayLeft /\ u.slot = t.slot
      /\ u.guardian = t.guardian /\ u.round = t.round
      /\ u.guardianRequests = t.guardianRequests /\ u.automatedCheckIns = automated
  BY <1>1 DEF assist, Trip
<1> HIDE DEF u
<1>6. applicationsBelong(u, gone) /\ pendingHaveDeadlines(u) /\ periodsFollow(u, gone)
  BY <1>5 DEF Sound, Prepared, applicationsBelong, pendingHaveDeadlines, periodsFollow, isClosed
<1>7. u.missed <= u.silence
  <2> HIDE DEF m, s
  <2> QED BY <1>1, <1>2, <1>5 DEF Sound, Prepared, phasesCohere, Trip
<1>8. phasesCohere(u)
  BY <1>5, <1>7 DEF Sound, Prepared, phasesCohere, isClosed
<1>9. monitorPrepared(u)
  BY <1>3, <1>5 DEF Sound, Prepared, monitorPrepared, someoneIsDue, isClosed
<1> QED BY <1>4, <1>6, <1>8, <1>9 DEF Prepared, u

----------------------------------------------------------------------------
(* The alarm, the erasure of an account, and time                          *)

LEMMA AiCheckInPrepared ==
  ASSUME NEW t, NEW gone, Prepared(t, gone), ~isClosed(t)
  PROVE  Prepared(aiCheckIn(t), gone)
<1>1. CASE ~(t.guardMode = "ai" /\ t.automatedCheckIns /\ t.aiNextCheckIn = 0)
  BY <1>1 DEF aiCheckIn
<1>2. CASE t.guardMode = "ai" /\ t.automatedCheckIns /\ t.aiNextCheckIn = 0
  <2> DEFINE m == AtMostTwo(t.missed + 1)
             s == AtMostTwo(t.silence + 1)
             v == [t EXCEPT !.missed = m, !.silence = s, !.aiNextCheckIn = AiCheckInEvery]
             u == escalate(v)
  <2>1. t \in Trip /\ AiCheckInEvery \in Timer /\ AiCheckInEvery # NoTimer /\ TRUE \in BOOLEAN
    BY JourneyAssumption DEF Prepared, Timer, NoTimer
  <2>2. m \in 0..2 /\ s \in 0..2 /\ m <= s
    BY DEF Prepared, phasesCohere, Trip, AtMostTwo
  <2>3. aiCheckIn(t) = u
    BY <1>2 DEF aiCheckIn
  <2> HIDE DEF m, s
  <2>4. v \in Trip
    BY <2>1, <2>2 DEF Trip
  <2>5. u \in Trip
    <3> HIDE DEF v
    <3> QED BY <2>1, <2>4 DEF escalate, Trip
  <2>6. /\ u.guardMode = t.guardMode /\ u.nextCheckIn = t.nextCheckIn
        /\ u.aiNextCheckIn = AiCheckInEvery /\ u.missed = m /\ u.silence = s
        /\ u.status = t.status /\ u.relayLeft = t.relayLeft /\ u.slot = t.slot
        /\ u.guardian = t.guardian /\ u.round = t.round
        /\ u.guardianRequests = t.guardianRequests /\ u.automatedCheckIns = t.automatedCheckIns
    BY <2>1 DEF escalate, Trip
  <2> HIDE DEF u
  <2>7. applicationsBelong(u, gone) /\ pendingHaveDeadlines(u) /\ periodsFollow(u, gone)
    BY <2>6 DEF Prepared, applicationsBelong, pendingHaveDeadlines, periodsFollow, isClosed
  <2>8. phasesCohere(u)
    BY <2>2, <2>6 DEF Prepared, phasesCohere, isClosed
  <2>9. monitorPrepared(u)
    BY <1>2, <2>1, <2>6 DEF Prepared, monitorPrepared, isClosed
  <2> QED BY <2>3, <2>5, <2>7, <2>8, <2>9 DEF Prepared
<1> QED BY <1>1, <1>2

LEMMA OpenRelayStatus ==
  ASSUME NEW t, t \in Trip
  PROVE  openRelay(t).status = t.status
BY DEF openRelay, Trip

LEMMA TakeoverStatus ==
  ASSUME NEW t, t \in Trip, ~isClosed(t)
  PROVE  takeover(t).status = "active"
<1> DEFINE m == [t EXCEPT !.guardMode = "ai", !.nextCheckIn = NoTimer,
                 !.aiNextCheckIn = IF t.automatedCheckIns THEN AiCheckInEvery ELSE NoTimer,
                 !.missed = 0]
<1>1. m \in Trip /\ m.status = t.status
  <2>1. NoTimer \in Timer /\ AiCheckInEvery \in Timer /\ 0 \in 0..2
    BY JourneyAssumption DEF Timer, NoTimer
  <2> QED BY <2>1 DEF Trip
<1>2. takeover(t) = openRelay(activate(m))
  BY DEF takeover
<1> HIDE DEF m
<1>3. activate(m) \in Trip /\ activate(m).status = "active"
  BY <1>1, JourneyAssumption DEF activate, Trip, Status, isClosed, Closed
<1> QED BY <1>2, <1>3, OpenRelayStatus

LEMMA MonitorPrepared ==
  ASSUME NEW t, NEW gone, Sound(t, gone)
  PROVE  Prepared(Monitor(t), gone)
<1>1. CASE isClosed(t)
  BY <1>1 DEF Monitor, Sound
<1>2. CASE ~isClosed(t)
  <2>1. /\ t \in Trip /\ periodsFollow(t, gone) /\ t.missed <= t.silence
        /\ t.status = "open" => t.relayLeft = NoTimer
        /\ applicationsBelong(t, gone) /\ pendingHaveDeadlines(t)
    BY DEF Sound, Prepared, phasesCohere
  <2>2. Prepared(missedGuardian(t), gone) /\ ~isClosed(missedGuardian(t))
    <3>1. Prepared(takeover(t), gone) /\ ~isClosed(takeover(t))
      BY <1>2, <2>1, TakeoverPrepared, TakeoverStatus DEF isClosed, Closed
    <3> QED BY <1>2, <3>1 DEF missedGuardian, Sound
  <2> QED BY <1>2, <2>2, AiCheckInPrepared DEF Monitor
<1> QED BY <1>1, <1>2

LEMMA ScrubPrepared ==
  ASSUME NEW t, NEW gone, Sound(t, gone), NEW g \in Guardians
  PROVE  Prepared(scrub(t, g), gone \cup {g})
<1> DEFINE all == gone \cup {g}
           u == [t EXCEPT !.guardianRequests[g] = NoApplication]
           v == [u EXCEPT !.guardian = NoOne]
<1>1. /\ Prepared(u, gone) /\ applicationsBelong(u, all)
      /\ u.guardian = t.guardian /\ u.status = t.status
  BY RemovalPrepared DEF Sound, Prepared, Trip
<1>2. Prepared(u, all)
  <2> HIDE DEF u
  <2> QED BY <1>1 DEF Prepared, periodsFollow
<1>3. CASE t.guardian # g
  BY <1>2, <1>3 DEF scrub
<1>4. CASE t.guardian = g
  <2> HIDE DEF u
  <2>1. v \in Trip
    BY <1>2 DEF Prepared, Trip
  <2>2. /\ v.guardian = NoOne /\ v.status = t.status /\ v.missed = u.missed /\ v.silence = u.silence
        /\ v.slot = u.slot /\ v.guardianRequests = u.guardianRequests
        /\ v.relayLeft = u.relayLeft /\ v.round = u.round
        /\ v.nextCheckIn = u.nextCheckIn /\ v.aiNextCheckIn = u.aiNextCheckIn
    BY <1>1, <1>2 DEF Prepared, Trip
  <2> HIDE DEF v
  <2>3. pendingHaveDeadlines(v) /\ applicationsBelong(v, all)
    BY <1>1, <1>2, <2>2, JourneyAssumption DEF Prepared, pendingHaveDeadlines, applicationsBelong
  <2>4. periodsFollow(v, all)
    BY <1>1, <1>2, <1>4, <2>2, JourneyAssumption DEF Prepared, periodsFollow, isClosed
  <2>5. v.missed <= v.silence /\ (v.status = "open" => v.relayLeft = NoTimer)
    BY <1>1, <1>2, <2>2 DEF Prepared, phasesCohere
  <2>6. CASE isClosed(t)
    <3>1. phasesCohere(v) /\ monitorPrepared(v)
      BY <1>1, <1>2, <2>2, <2>6 DEF Prepared, phasesCohere, monitorPrepared, isClosed
    <3> QED BY <1>4, <2>1, <2>3, <2>4, <2>6, <3>1 DEF scrub, Prepared, u, v
  <2>7. CASE ~isClosed(t)
    <3>1. Prepared(takeover(v), all)
      BY <2>1, <2>2, <2>3, <2>4, <2>5, <2>7, TakeoverPrepared DEF isClosed
    <3> QED BY <1>4, <2>7, <3>1 DEF scrub, u, v
  <2> QED BY <2>6, <2>7
<1> QED BY <1>3, <1>4

LEMMA ElapsedSound ==
  ASSUME NEW t, NEW gone, Sound(t, gone)
  PROVE  Sound(elapsed(t), gone)
<1> DEFINE q == [g \in Guardians |-> [t.guardianRequests[g] EXCEPT !.left = Elapse(@)]]
           u == [t EXCEPT !.life = Elapse(@), !.relayLeft = Elapse(@), !.nextCheckIn = Elapse(@),
                          !.aiNextCheckIn = Elapse(@), !.privacy = Elapse(@),
                          !.guardianRequests = q]
<1>1. t \in Trip
  BY DEF Sound, Prepared
<1>2. /\ \A d \in Timer: Elapse(d) \in Timer /\ (Elapse(d) = NoTimer <=> d = NoTimer)
      /\ \A d \in Nat: Elapse(d) \in Nat
      /\ \A d, e \in Timer: d <= e => Elapse(d) <= Elapse(e)
  BY DEF Elapse, Timer, NoTimer
<1>3. \A g \in Guardians: t.guardianRequests[g] \in Application
  BY <1>1 DEF Trip
<1>4. q \in [Guardians -> Application]
  BY <1>2, <1>3 DEF Application
<1>5. \A g \in Guardians:
        /\ q[g].left = Elapse(t.guardianRequests[g].left)
        /\ q[g].kind = t.guardianRequests[g].kind /\ q[g].round = t.guardianRequests[g].round
        /\ t.guardianRequests[g] = NoApplication => q[g] = NoApplication
  BY <1>3 DEF Application, NoApplication, Elapse, NoTimer
<1>6. elapsed(t) = u
  BY DEF elapsed
<1> HIDE DEF q
<1>7. u \in Trip
  BY <1>1, <1>2, <1>4 DEF Trip
<1>8. /\ u.guardMode = t.guardMode /\ u.nextCheckIn = Elapse(t.nextCheckIn)
      /\ u.aiNextCheckIn = Elapse(t.aiNextCheckIn) /\ u.missed = t.missed /\ u.silence = t.silence
      /\ u.status = t.status /\ u.relayLeft = Elapse(t.relayLeft) /\ u.slot = t.slot
      /\ u.guardian = t.guardian /\ u.round = t.round
      /\ u.guardianRequests = q /\ u.automatedCheckIns = t.automatedCheckIns
  BY <1>1 DEF Trip
<1> HIDE DEF u
<1>9. /\ t.nextCheckIn \in Timer /\ t.aiNextCheckIn \in Timer /\ t.relayLeft \in Timer
  BY <1>1 DEF Trip
<1>10. pendingHaveDeadlines(u)
  BY <1>2, <1>5, <1>8 DEF Sound, Prepared, pendingHaveDeadlines
<1>11. applicationsBelong(u, gone)
  <2> SUFFICES ASSUME NEW g \in Guardians, u.guardianRequests[g] # NoApplication
               PROVE  LET a == u.guardianRequests[g] IN
                      /\ g # u.guardian /\ g \notin gone
                      /\ \/ u.status = "open" /\ a.kind = "initial" /\ a.round = 0
                         \/ /\ u.status = "active" /\ u.relayLeft # NoTimer
                            /\ a.kind = "relay" /\ a.round = u.round
                            /\ a.left <= u.relayLeft
    BY DEF applicationsBelong
  <2>1. t.guardianRequests[g] # NoApplication
    BY <1>5, <1>8
  <2>2. t.guardianRequests[g].left \in Timer
    BY <1>3 DEF Application
  <2> QED BY <1>2, <1>5, <1>8, <1>9, <2>1, <2>2 DEF Sound, Prepared, applicationsBelong
<1>12. periodsFollow(u, gone)
  BY <1>8 DEF Sound, Prepared, periodsFollow, isClosed
<1>13. phasesCohere(u) /\ monitorPrepared(u) /\ someoneIsDue(u)
  BY <1>2, <1>8, <1>9 DEF Sound, Prepared, phasesCohere, monitorPrepared, someoneIsDue, isClosed, NoTimer, Elapse
<1> QED BY <1>6, <1>7, <1>10, <1>11, <1>12, <1>13 DEF Sound, Prepared

----------------------------------------------------------------------------
(* The invariant                                                           *)

LEMMA InitSound == Init => IInv
<1> SUFFICES ASSUME Init PROVE IInv
  OBVIOUS
<1> DEFINE t == NewTrip(FALSE)
<1>1. t \in Trip
  BY RecruitmentType, JourneyAssumption DEF NewTrip, Trip, Status, Closed, Slot, Timer, NoTimer
<1>2. applicationsBelong(t, {}) /\ pendingHaveDeadlines(t)
  BY RecruitmentType DEF NewTrip, applicationsBelong, pendingHaveDeadlines
<1>3. /\ periodsFollow(t, {}) /\ phasesCohere(t) /\ monitorPrepared(t) /\ someoneIsDue(t)
  BY JourneyAssumption DEF NewTrip, periodsFollow, phasesCohere, monitorPrepared, someoneIsDue,
     isClosed, Closed, NoTimer
<1> QED BY <1>1, <1>2, <1>3 DEF Init, IInv, Sound, Prepared

(* A step erases the trip, lets time pass, saves a closed trip without     *)
(* scheduling, or saves and schedules what a handler prepared.             *)
Stored == /\ deleted' \subseteq Guardians
          /\ \E t: Prepared(t, deleted') /\ trip' = save(t) /\ alarm' = schedule(save(t))

LEMMA StoreStored ==
  ASSUME NEW t, Prepared(t, deleted), deleted \subseteq Guardians, Store(t)
  PROVE  Stored
BY DEF Store, Stored

LEMMA StepCases ==
  ASSUME IInv, Next
  PROVE  \/ trip' = Erased /\ alarm' = NoTimer /\ deleted' \subseteq Guardians
         \/ Live /\ (SetAssistanceClosed \/ Tick \/ Stored)
<1>1. CASE Live /\ ~Purge
  <2> SUFFICES SetAssistanceClosed \/ Tick \/ Stored
    BY <1>1
  <2>1. Sound(trip, deleted) /\ deleted \subseteq Guardians
    BY <1>1 DEF IInv, Live
  <2>2. Sound(Fresh, deleted)
    BY <2>1, ExpireSound DEF Fresh
  <2>3. Fresh \in Trip /\ Prepared(Fresh, deleted)
    BY <2>2 DEF Sound, Prepared
  <2>4. CASE \E g \in Guardians: Approve(g)
    BY <2>1, <2>2, <2>4, ApprovePrepared, StoreStored DEF Approve, CanAct
  <2>5. CASE \E g \in Guardians: Reject(g) \/ Withdraw(g)
    BY <2>1, <2>2, <2>5, RemovalPrepared, StoreStored DEF Reject, Withdraw
  <2>6. CASE RiderCheckIn
    <3> DEFINE t == riderAnswers(Fresh)
               s == IF Fresh.guardMode = "ai" THEN AiCheckInEvery ELSE t.aiNextCheckIn
               u == [t EXCEPT !.guardMode = t.guardMode, !.nextCheckIn = t.nextCheckIn,
                              !.aiNextCheckIn = s, !.missed = t.missed]
    <3>1. Sound(t, deleted) /\ t.guardMode = Fresh.guardMode /\ t.status = Fresh.status
      BY <2>2, <2>3, RiderAnswersSound DEF riderAnswers, Trip
    <3> HIDE DEF t
    <3>2. t \in Trip /\ someoneIsDue(t) /\ ~isClosed(t)
      BY <2>6, <3>1 DEF Sound, Prepared, RiderCheckIn, CanAct, isClosed
    <3>3. /\ s \in Timer /\ t.nextCheckIn \in Timer /\ t.missed \in 0..2 /\ t.missed <= t.missed
          /\ AiCheckInEvery # NoTimer /\ t.guardMode \in {"waiting", "human", "ai"}
      BY <3>2, JourneyAssumption DEF Trip, Timer, NoTimer
    <3>4. Prepared(u, deleted)
      BY <3>1, <3>2, <3>3, TimersPrepared DEF someoneIsDue
    <3>5. u = [t EXCEPT !.aiNextCheckIn = s]
      BY <3>2 DEF Trip
    <3> QED BY <2>1, <2>6, <3>4, <3>5, StoreStored DEF RiderCheckIn, t
  <2>7. CASE RiderMessage
    BY <2>1, <2>2, <2>7, RiderAnswersSound, StoreStored DEF RiderMessage, Sound
  <2>8. CASE Arrive \/ Cancel
    BY <2>1, <2>2, <2>8, ClosePrepared, StoreStored DEF Arrive, Cancel, Finish, CanAct, Closed
  <2>9. CASE \E automated, contact \in BOOLEAN: SetAssistance(automated, contact)
    BY <2>1, <2>2, <2>9, AssistPrepared, StoreStored DEF SetAssistance, CanAct
  <2>10. CASE SetAssistanceClosed
    BY <2>10
  <2>11. CASE \E g \in Guardians, r \in 0..MaxRound: Accept(g, r)
    BY <2>1, <2>2, <2>11, AcceptPrepared, StoreStored DEF Accept
  <2>12. CASE \E g \in Guardians: ScrubUser(g)
    BY <2>1, <2>12, ScrubPrepared DEF ScrubUser, Stored
  <2>13. CASE RequestRelay
    BY <2>1, <2>2, <2>13, OpenRelayPrepared, StoreStored
       DEF RequestRelay, Handover, Sound, Prepared, phasesCohere
  <2>14. CASE \E r \in 1..MaxRound: CancelRelay(r)
    BY <2>1, <2>2, <2>14, WithoutRecruitmentPrepared, StoreStored
       DEF CancelRelay, Sound, Prepared, phasesCohere
  <2>15. CASE GuardianCheckIn \/ Resume
    <3>1. ~isClosed(Fresh) /\ Fresh.guardian # NoOne /\ guardianCheckIn(Fresh) = Fresh
      BY <2>2, <2>3, <2>15, GuardianCheckInSame DEF GuardianCheckIn, Resume, CanAct, Sound, Prepared
    <3>2. /\ CheckInEvery \in Timer /\ CheckInEvery # NoTimer /\ NoTimer \in Timer /\ 0 \in 0..2
          /\ Fresh.missed \in 0..2 /\ 0 <= Fresh.missed /\ Fresh.missed <= Fresh.missed
          /\ Fresh.nextCheckIn \in Timer /\ Fresh.aiNextCheckIn \in Timer
          /\ Fresh.guardMode \in {"waiting", "human", "ai"}
      BY <2>3, JourneyAssumption DEF Trip, Timer, NoTimer
    <3>3. someoneIsDue(Fresh) /\ Fresh.status # "open"
      BY <2>2, <3>1 DEF Sound, Prepared, phasesCohere
    <3>4. CASE GuardianCheckIn
      <4> DEFINE n == IF Fresh.guardMode = "human" THEN CheckInEvery ELSE Fresh.nextCheckIn
                 u == [Fresh EXCEPT !.guardMode = Fresh.guardMode, !.nextCheckIn = n,
                         !.aiNextCheckIn = Fresh.aiNextCheckIn, !.missed = Fresh.missed]
      <4>1. Prepared(u, deleted)
        BY <2>2, <3>1, <3>2, <3>3, TimersPrepared DEF someoneIsDue
      <4>2. u = [Fresh EXCEPT !.nextCheckIn = n]
        BY <2>3 DEF Trip
      <4> QED BY <2>1, <3>1, <3>4, <4>1, <4>2, StoreStored DEF GuardianCheckIn
    <3>5. CASE Resume
      <4> DEFINE u == [Fresh EXCEPT !.guardMode = "human", !.nextCheckIn = CheckInEvery,
                                    !.aiNextCheckIn = NoTimer, !.missed = 0]
      <4>1. Prepared(u, deleted)
        BY <2>2, <3>1, <3>2, <3>3, TimersPrepared
      <4> QED BY <2>1, <3>1, <3>5, <4>1, StoreStored DEF Resume
    <3> QED BY <2>15, <3>4, <3>5
  <2>16. CASE Takeover
    BY <2>1, <2>2, <2>16, TakeoverPrepared, StoreStored
       DEF Takeover, CanAct, Sound, Prepared, phasesCohere
  <2>17. CASE Read
    BY <1>1, <2>1, <2>3, <2>17, StoreStored DEF Read
  <2>18. CASE AlarmFires
    BY <1>1, <2>1, <2>2, <2>18, MonitorPrepared, StoreStored DEF AlarmFires
  <2>19. CASE Tick
    BY <2>19
  <2> QED
    BY <1>1, <2>4, <2>5, <2>6, <2>7, <2>8, <2>9, <2>10, <2>11, <2>12, <2>13, <2>14, <2>15,
       <2>16, <2>17, <2>18, <2>19
       DEF Next, Rider, Volunteer, Participant, EraseForRider, ScrubRider
<1>2. CASE ~Live
  BY <1>2 DEF Next, Rider, Volunteer, Participant, Approve, Reject, RiderCheckIn, RiderMessage,
     Arrive, Cancel, Finish, SetAssistance, SetAssistanceClosed, EraseForRider, ScrubRider,
     Accept, Withdraw, ScrubUser, RequestRelay, CancelRelay, GuardianCheckIn, Takeover, Resume,
     Read, AlarmFires, Tick, CanAct
<1>3. CASE Live /\ Purge
  <2>1. trip' = Erased /\ alarm' = NoTimer /\ deleted' \subseteq Guardians
    BY <1>3 DEF Purge, IInv, Next, Rider, Volunteer, Participant, Approve, Reject, RiderCheckIn,
     RiderMessage, Arrive, Cancel, Finish, SetAssistance, SetAssistanceClosed, EraseForRider,
     ScrubRider, Accept, Withdraw, ScrubUser, RequestRelay, CancelRelay, GuardianCheckIn, Takeover,
     Resume, Read, AlarmFires, Tick, Store
  <2> QED BY <2>1
<1> QED BY <1>1, <1>2, <1>3

LEMMA StepSound == IInv /\ [Next]_vars => IInv'
<1> SUFFICES ASSUME IInv, [Next]_vars PROVE IInv'
  OBVIOUS
<1>1. CASE UNCHANGED vars
  BY <1>1 DEF vars, IInv
<1>2. CASE Next
  <2>1. CASE trip' = Erased /\ deleted' \subseteq Guardians
    BY <2>1 DEF IInv
  <2>2. CASE Live /\ Stored
    BY <2>2, SaveSound DEF Stored, IInv
  <2>3. CASE Live /\ SetAssistanceClosed
    BY <2>3, ExpireSound, SaveSound DEF SetAssistanceClosed, Fresh, Sound, IInv, Live
  <2>4. CASE Live /\ Tick
    BY <2>4, ElapsedSound DEF Tick, IInv, Live
  <2> QED BY <1>2, <2>1, <2>2, <2>3, <2>4, StepCases
<1> QED BY <1>1, <1>2

----------------------------------------------------------------------------
(* The alarm: a closed journey that is stored has its retention limit, and *)
(* the stored alarm is at most every stored deadline.                      *)

LEMMA EarliestIsLeast ==
  ASSUME NEW S, S \subseteq Nat, S # {}
  PROVE  /\ Earliest(S) \in S
         /\ \A e \in S: Earliest(S) <= e
<1>1. PICK d \in S : \A e \in S : ~ (<<e, d>> \in OpToRel(<, Nat))
  BY WFMin, NatLessThanWellFounded, Zenon
<1>2. \A e \in S : <<e, d>> \in Nat \X Nat
  OBVIOUS
<1>3. \A e \in S : ~(e < d)
  BY <1>1, <1>2 DEF OpToRel
<1>4. \A e \in S : d <= e
  BY <1>3
<1> QED BY <1>4 DEF Earliest

Kept(t) == isClosed(t) => t.privacy # NoTimer

AlarmInv == IF Live
            THEN Kept(trip) /\ alarm \in Nat /\ \A d \in Deadlines(trip): alarm <= d
            ELSE alarm = NoTimer

LEMMA DeadlinesType ==
  ASSUME NEW t, NEW gone, Sound(t, gone), Kept(t)
  PROVE  Deadlines(t) \subseteq Nat /\ Deadlines(t) # {}
<1>1. t \in Trip /\ \A g \in Pending(t): t.guardianRequests[g].left \in Nat
  BY DEF Sound, Prepared, pendingHaveDeadlines, Pending
<1>2. Deadlines(t) \subseteq Nat
  BY <1>1 DEF Deadlines, RunningDeadlines, Trip, Timer
<1>3. IF isClosed(t) THEN t.privacy \in Deadlines(t) ELSE t.life \in Deadlines(t)
  BY DEF Kept, Deadlines, RunningDeadlines
<1> QED BY <1>2, <1>3

LEMMA SaveKept ==
  ASSUME NEW t, t \in Trip
  PROVE  Kept(save(t))
BY JourneyAssumption DEF Kept, save, Trip, isClosed, NoTimer

LEMMA ScheduleOnTime ==
  ASSUME NEW t, NEW gone, Sound(t, gone), Kept(t)
  PROVE  /\ schedule(t) \in Nat
         /\ \A d \in Deadlines(t): schedule(t) <= d
BY DeadlinesType, EarliestIsLeast DEF schedule

LEMMA StoreOnTime ==
  ASSUME NEW t, NEW gone, Prepared(t, gone), trip' = save(t), alarm' = schedule(save(t))
  PROVE  AlarmInv'
<1>1. t \in Trip /\ Sound(save(t), gone) /\ Kept(save(t))
  BY SaveSound, SaveKept DEF Prepared
<1>2. save(t) # Erased
  BY <1>1, ErasedIsNoTrip DEF Sound, Prepared
<1> QED BY <1>1, <1>2, ScheduleOnTime DEF AlarmInv, Live

LEMMA ElapsedDeadlines ==
  ASSUME NEW t, NEW gone, Sound(t, gone)
  PROVE  \A d \in Deadlines(elapsed(t)): \E e \in Deadlines(t): d = Elapse(e)
<1> DEFINE q == [g \in Guardians |-> [t.guardianRequests[g] EXCEPT !.left = Elapse(@)]]
           u == elapsed(t)
<1>1. t \in Trip /\ \A g \in Guardians: t.guardianRequests[g] \in Application
  BY DEF Sound, Prepared, Trip
<1>2. \A d \in Timer: Elapse(d) = NoTimer <=> d = NoTimer
  BY DEF Elapse, Timer, NoTimer
<1>3. \A g \in Guardians:
        /\ q[g].left = Elapse(t.guardianRequests[g].left)
        /\ t.guardianRequests[g] = NoApplication => q[g] = NoApplication
  BY <1>1 DEF Application, NoApplication, Elapse, NoTimer
<1>4. /\ u.life = Elapse(t.life) /\ u.nextCheckIn = Elapse(t.nextCheckIn)
      /\ u.aiNextCheckIn = Elapse(t.aiNextCheckIn) /\ u.relayLeft = Elapse(t.relayLeft)
      /\ u.privacy = Elapse(t.privacy) /\ u.guardMode = t.guardMode /\ u.status = t.status
      /\ u.guardianRequests = q
  BY <1>1 DEF elapsed, Trip
<1> HIDE DEF q, u
<1>5. \A g \in Pending(u): g \in Pending(t) /\ u.guardianRequests[g].left = Elapse(t.guardianRequests[g].left)
  BY <1>3, <1>4 DEF Pending
<1>6. /\ t.life \in Timer /\ t.nextCheckIn \in Timer /\ t.aiNextCheckIn \in Timer
      /\ t.relayLeft \in Timer /\ t.privacy \in Timer
  BY <1>1 DEF Trip, Timer
<1>7. ASSUME NEW d \in Deadlines(u) PROVE \E e \in Deadlines(t): d = Elapse(e)
  <2>1. CASE d = u.privacy /\ d # NoTimer
    BY <1>2, <1>4, <1>6, <2>1 DEF Deadlines
  <2>2. CASE d \in RunningDeadlines(u)
    <3>1. \E e \in RunningDeadlines(t): d = Elapse(e)
      BY <1>2, <1>4, <1>5, <1>6, <2>2 DEF RunningDeadlines, isClosed
    <3> QED BY <3>1 DEF Deadlines
  <2> QED BY <2>1, <2>2 DEF Deadlines
<1> QED BY <1>7 DEF u

LEMMA ExpireClosedSame ==
  ASSUME NEW t, NEW gone, Sound(t, gone), Kept(t), isClosed(expire(t)), alarm \in Nat,
         \A d \in Deadlines(t): alarm <= d
  PROVE  \A d \in Deadlines(save(expire(t))): alarm <= d
<1> DEFINE u == save(expire(t))
<1>1. /\ expire(t) \in Trip /\ expire(t).privacy = t.privacy
      /\ isClosed(t) \/ t.life = 0
  <2> DEFINE a == expireLife(t)
             b == expireRelay(a)
  <2>1. a \in Trip /\ b \in Trip /\ expire(t) \in Trip
    BY ExpireSound, ExpireLifeExpiring, ExpireRelayExpiring DEF Sound, Prepared, Expiring
  <2>2. a.privacy = t.privacy /\ (a.status = t.status \/ (~isClosed(t) /\ t.life = 0))
    <3>1. closeAs(t, "cancelled").privacy = t.privacy
      BY DEF Sound, Prepared, closeAs, Trip
    <3> QED BY <2>1, <3>1 DEF expireLife
  <2>3. expire(t) = filterRequests(b)
    BY DEF expire
  <2> HIDE DEF a
  <2>4. b.privacy = a.privacy /\ b.status = a.status
    BY <2>1 DEF expireRelay, Trip
  <2> HIDE DEF b
  <2>5. expire(t).privacy = b.privacy /\ expire(t).status = b.status
    BY <2>1, <2>3 DEF filterRequests, Trip
  <2> QED BY <2>1, <2>2, <2>4, <2>5 DEF isClosed
<1>2. isClosed(u) /\ u.privacy \in Timer
      /\ u.privacy = IF t.privacy = NoTimer THEN Retention ELSE t.privacy
  BY <1>1, JourneyAssumption DEF save, Trip, isClosed, Timer
<1>3. \A d \in Deadlines(u): d = u.privacy /\ d \in Nat
  BY <1>2, JourneyAssumption DEF Deadlines, RunningDeadlines, Timer
<1>4. CASE t.privacy # NoTimer
  BY <1>2, <1>3, <1>4 DEF Deadlines
<1>5. CASE t.privacy = NoTimer
  <2>1. ~isClosed(t) /\ t.life = 0
    BY <1>1, <1>5 DEF Kept
  <2>2. alarm <= 0
    BY <2>1 DEF Deadlines, RunningDeadlines
  <2> QED BY <1>3, <2>2
<1> QED BY <1>4, <1>5

LEMMA InitOnTime == Init => AlarmInv
<1> SUFFICES ASSUME Init PROVE AlarmInv
  OBVIOUS
<1> DEFINE t == NewTrip(FALSE)
<1>1. /\ t.status = "open" /\ t.life = OpenLife /\ t.privacy = NoTimer /\ t.nextCheckIn = NoTimer
      /\ t.relayLeft = NoTimer /\ t.guardMode = "waiting"
      /\ \A g \in Guardians: t.guardianRequests[g] = NoApplication
  BY RecruitmentType DEF NewTrip
<1>2. ~isClosed(t) /\ Pending(t) = {}
  BY <1>1 DEF isClosed, Closed, Pending
<1>3. trip = t /\ alarm = OpenLife
  BY DEF Init
<1> HIDE DEF t
<1>4. \A d \in Deadlines(t): d = OpenLife
  BY <1>1, <1>2 DEF Deadlines, RunningDeadlines
<1> QED
  <2>1. Live
    BY <1>1, <1>3 DEF Live, Erased
  <2> QED BY <1>2, <1>3, <1>4, <2>1, JourneyAssumption DEF AlarmInv, Kept


LEMMA StepOnTime == IInv /\ AlarmInv /\ [Next]_vars => AlarmInv'
<1> SUFFICES ASSUME IInv, AlarmInv, [Next]_vars PROVE AlarmInv'
  OBVIOUS
<1>1. CASE UNCHANGED vars
  <2> USE DEF Live, Erased
  <2>1. trip' = trip /\ alarm' = alarm
    BY <1>1 DEF vars
  <2> QED BY <2>1 DEF AlarmInv
<1>2. CASE Next
  <2>1. CASE trip' = Erased /\ alarm' = NoTimer
    BY <2>1 DEF AlarmInv, Live
  <2>2. CASE Live /\ Stored
    BY <2>2, StoreOnTime DEF Stored
  <2>3. CASE Live /\ SetAssistanceClosed
    <3>1. Sound(trip, deleted) /\ Sound(Fresh, deleted) /\ isClosed(Fresh)
      BY <2>3, ExpireSound DEF IInv, Live, Fresh, SetAssistanceClosed
    <3>2. trip' = save(Fresh) /\ alarm' = alarm /\ Kept(save(Fresh))
      BY <2>3, <3>1, SaveKept DEF SetAssistanceClosed, Sound, Prepared
    <3>3. trip' # Erased
      BY <3>1, <3>2, SaveSound, ErasedIsNoTrip DEF Sound, Prepared
    <3> QED BY <2>3, <3>1, <3>2, <3>3, ExpireClosedSame DEF AlarmInv, Fresh, Live
  <2>4. CASE Live /\ Tick
    <3>1. Sound(trip, deleted) /\ Kept(trip) /\ alarm \in Nat /\ \A d \in Deadlines(trip): alarm <= d
      BY <2>4 DEF IInv, AlarmInv, Live
    <3>2. trip' = elapsed(trip) /\ alarm' = Elapse(alarm)
      BY <2>4 DEF Tick
    <3>3. Kept(elapsed(trip))
      BY <3>1 DEF Kept, elapsed, Sound, Prepared, Trip, isClosed, Elapse, Timer, NoTimer
    <3>4. \A d \in Deadlines(trip): d \in Nat /\ Elapse(alarm) <= Elapse(d)
      BY <3>1, DeadlinesType DEF Elapse
    <3>5. Elapse(alarm) \in Nat
      BY <3>1 DEF Elapse
    <3>6. \A d \in Deadlines(elapsed(trip)): Elapse(alarm) <= d
      BY <3>1, <3>4, ElapsedDeadlines
    <3>7. elapsed(trip) # Erased
      BY <3>1, ElapsedSound, ErasedIsNoTrip DEF Sound, Prepared
    <3> QED BY <3>2, <3>3, <3>5, <3>6, <3>7 DEF AlarmInv, Live
  <2> QED BY <1>2, <2>1, <2>2, <2>3, <2>4, StepCases
<1> QED BY <1>1, <1>2

----------------------------------------------------------------------------
(* Results                                                                 *)

LEMMA Invariance == Spec => [](IInv /\ AlarmInv)
<1>1. Init => IInv /\ AlarmInv
  BY InitSound, InitOnTime
<1>2. IInv /\ AlarmInv /\ [Next]_vars => (IInv /\ AlarmInv)'
  BY StepSound, StepOnTime
<1> QED BY <1>1, <1>2, PTL DEF Spec

(* The stored row always has the shape the handlers read.                  *)
THEOREM TypeCorrect == Spec => []TypeOK
<1>1. IInv /\ AlarmInv => TypeOK
  BY DEF IInv, AlarmInv, TypeOK, Sound, Prepared, Live, Timer
<1> QED BY <1>1, Invariance, PTL

(* Whatever the limits and however many candidates, an application on file *)
(* is for the request now open and comes from neither the guardian nor an  *)
(* erased account.                                                         *)
THEOREM ApplicationSafety == Spec => []ApplicationsBelongToRound
<1>1. IInv => ApplicationsBelongToRound
  BY DEF IInv, ApplicationsBelongToRound, Live, Sound, Prepared
<1> QED BY <1>1, Invariance, PTL

(* Participation periods never overlap, and none outlives the journey.     *)
THEOREM PeriodSafety == Spec => []PeriodsFollowCustody
<1>1. IInv => PeriodsFollowCustody
  BY DEF IInv, PeriodsFollowCustody, Live, Sound, Prepared
<1> QED BY <1>1, Invariance, PTL

(* A running journey always has somebody, or the server, on duty with a    *)
(* deadline.                                                               *)
THEOREM DutySafety == Spec => []SomeoneIsDue
<1>1. IInv => SomeoneIsDue
  BY DEF IInv, SomeoneIsDue, Live, Sound
<1> QED BY <1>1, Invariance, PTL

(* Every stored deadline is covered by an alarm that is not later.         *)
THEOREM AlarmSafety == Spec => []AlarmNeverLate
<1>1. IInv /\ AlarmInv => AlarmNeverLate
  BY DeadlinesType DEF IInv, AlarmInv, AlarmNeverLate, Live, NoTimer
<1> QED BY <1>1, Invariance, PTL

-----------------------------------------------------------------------------
(***************************************************************************)
(* The refinement of Custody.                                              *)
(***************************************************************************)
(* One custody step between two stored trips.                              *)
CustodyStep(t, u) ==
  \/ /\ u.status = t.status /\ u.guardian = t.guardian
     /\ ~isClosed(t) /\ approvable(u) \subseteq approvable(t)
  \/ u.status = t.status /\ u.guardian = t.guardian /\ approvable(u) = approvable(t)
  \/ /\ u.status = t.status /\ u.guardian = t.guardian /\ ~isClosed(t)
     /\ \E g \in Guardians \ approvable(t):
          g # t.guardian /\ approvable(u) = approvable(t) \cup {g}
  \/ /\ ~isClosed(t) /\ u.guardian \in approvable(t)
     /\ u.status = "active" /\ approvable(u) = {}
  \/ /\ t.status = "open" /\ u.status = "active" /\ u.guardian = t.guardian /\ approvable(u) = {}
  \/ /\ t.status # "open" /\ t.guardian # NoOne /\ u.guardian = NoOne
     /\ u.status = t.status /\ approvable(u) \subseteq approvable(t)
  \/ /\ ~isClosed(t) /\ isClosed(u) /\ u.guardian = t.guardian /\ approvable(u) = {}

LEMMA StepMaps ==
  ASSUME Live, Live', trip \in Trip, trip' \in Trip, CustodyStep(trip, trip')
  PROVE  [Protocol!Next]_(Protocol!vars)
<1>1. /\ candidates = approvable(trip) /\ candidates' = approvable(trip')
      /\ approvable(trip) \subseteq Guardians
  BY DEF candidates, approvable
<1>2. /\ phase = (IF isClosed(trip) THEN "closed" ELSE trip.status)
      /\ phase' = (IF isClosed(trip') THEN "closed" ELSE trip'.status)
  BY DEF phase, isClosed
<1>3. /\ isClosed(trip) <=> trip.status \notin {"open", "active"}
      /\ isClosed(trip') <=> trip'.status \notin {"open", "active"}
  BY DEF isClosed, Closed, Trip, Status
<1> USE DEF Protocol!Next, Protocol!vars, Protocol!Running
<1>4. CASE /\ trip'.status = trip.status /\ trip'.guardian = trip.guardian
           /\ ~isClosed(trip) /\ approvable(trip') \subseteq approvable(trip)
  BY <1>1, <1>2, <1>3, <1>4 DEF Protocol!Drop
<1>5. CASE /\ trip'.status = trip.status /\ trip'.guardian = trip.guardian
           /\ approvable(trip') = approvable(trip)
  BY <1>1, <1>2, <1>3, <1>5
<1>6. CASE /\ trip'.status = trip.status /\ trip'.guardian = trip.guardian /\ ~isClosed(trip)
           /\ \E g \in Guardians \ approvable(trip):
                g # trip.guardian /\ approvable(trip') = approvable(trip) \cup {g}
  BY <1>1, <1>2, <1>3, <1>6 DEF Protocol!Volunteer
<1>7. CASE /\ ~isClosed(trip) /\ trip'.guardian \in approvable(trip)
           /\ trip'.status = "active" /\ approvable(trip') = {}
  BY <1>1, <1>2, <1>3, <1>7 DEF Protocol!Assign
<1>8. CASE /\ trip.status = "open" /\ trip'.status = "active"
           /\ trip'.guardian = trip.guardian /\ approvable(trip') = {}
  BY <1>1, <1>2, <1>3, <1>8 DEF Protocol!BeginAlone
<1>9. CASE /\ trip.status # "open" /\ trip.guardian # NoOne /\ trip'.guardian = NoOne
           /\ trip'.status = trip.status /\ approvable(trip') \subseteq approvable(trip)
  BY <1>1, <1>2, <1>3, <1>9 DEF Protocol!Vacate
<1>10. CASE /\ ~isClosed(trip) /\ isClosed(trip')
            /\ trip'.guardian = trip.guardian /\ approvable(trip') = {}
  BY <1>1, <1>2, <1>3, <1>10 DEF Protocol!Close
<1> QED BY <1>4, <1>5, <1>6, <1>7, <1>8, <1>9, <1>10 DEF CustodyStep

----------------------------------------------------------------------------
(* Which fields decide who can be approved.                                *)

SameRecruitment(t, u) ==
  /\ u.status = t.status /\ u.guardianRequests = t.guardianRequests
  /\ u.relayLeft = t.relayLeft /\ u.life = t.life

LEMMA SameRecruitmentSameApprovable ==
  ASSUME NEW t, NEW u, SameRecruitment(t, u)
  PROVE  approvable(u) = approvable(t)
<1>1. requestKind(u) = requestKind(t)
  BY DEF SameRecruitment, requestKind
<1> QED BY <1>1 DEF SameRecruitment, approvable

LEMMA SaveKeepsCustody ==
  ASSUME NEW t, t \in Trip
  PROVE  /\ approvable(save(t)) = approvable(t)
         /\ save(t).status = t.status /\ save(t).guardian = t.guardian
<1>1. SameRecruitment(t, save(t)) /\ save(t).guardian = t.guardian
  BY DEF save, Trip, SameRecruitment
<1> QED BY <1>1, SameRecruitmentSameApprovable DEF SameRecruitment

LEMMA NobodyApprovable ==
  ASSUME NEW t, t \in Trip, \A g \in Guardians: t.guardianRequests[g] = NoApplication
  PROVE  approvable(t) = {}
BY DEF approvable, NoApplication, NoTimer

LEMMA ClosedNobodyApprovable ==
  ASSUME NEW t, isClosed(t)
  PROVE  approvable(t) = {}
BY DEF approvable, requestKind, isClosed, Closed

(* Expiry changes who can be approved only by closing the journey: an      *)
(* application or relay that has run out no longer counts before expire()  *)
(* removes it.                                                             *)
LEMMA ExpireCustody ==
  ASSUME NEW t, NEW gone, Sound(t, gone)
  PROVE  LET e == expire(t) IN
         /\ e.guardian = t.guardian
         /\ e.status = t.status \/ (~isClosed(t) /\ isClosed(e))
         /\ ~isClosed(e) => approvable(e) = approvable(t)
<1> DEFINE a == expireLife(t)
           b == expireRelay(a)
           e == filterRequests(b)
<1>1. a \in Trip /\ b \in Trip /\ e \in Trip /\ t \in Trip
  BY ExpireSound, ExpireLifeExpiring, ExpireRelayExpiring DEF Sound, Prepared, Expiring, expire
<1>2. /\ a.guardian = t.guardian
      /\ (a.status = t.status) \/ (~isClosed(t) /\ isClosed(a))
      /\ ~isClosed(a) => a = t
  <2>1. closeAs(t, "cancelled").guardian = t.guardian /\ closeAs(t, "cancelled").status = "cancelled"
    BY <1>1 DEF closeAs, Trip
  <2> QED BY <1>1, <2>1 DEF expireLife, isClosed, Closed
<1>3. /\ b.guardian = a.guardian /\ b.status = a.status /\ b.life = a.life
      /\ b.guardianRequests = a.guardianRequests
      /\ b.relayLeft = IF a.relayLeft # NoTimer /\ (isClosed(a) \/ a.relayLeft = 0)
                       THEN NoTimer ELSE a.relayLeft
  <2> HIDE DEF a
  <2> QED BY <1>1 DEF expireRelay, Trip
<1>4. /\ e.guardian = b.guardian /\ e.status = b.status /\ e.life = b.life
      /\ e.relayLeft = b.relayLeft
      /\ \A g \in Guardians: e.guardianRequests[g] =
           IF keepsApplication(b, b.guardianRequests[g]) THEN b.guardianRequests[g] ELSE NoApplication
  <2> HIDE DEF b
  <2> QED BY <1>1 DEF filterRequests, Trip
<1>5. expire(t) = e
  BY DEF expire
<1> HIDE DEF a, b, e
<1>6. ASSUME ~isClosed(e) PROVE approvable(e) = approvable(t)
  <2>1. a = t /\ ~isClosed(b) /\ ~isClosed(t)
    BY <1>2, <1>3, <1>4, <1>6 DEF isClosed
  <2>2. requestKind(e) = requestKind(t)
    BY <1>1, <1>3, <1>4, <2>1 DEF requestKind, Trip, Timer, NoTimer
  <2>3. ASSUME NEW g \in approvable(t) PROVE g \in approvable(e)
    <3>1. /\ g \in Guardians /\ t.guardianRequests[g].left > 0
          /\ requestKind(t) # "none" /\ t.guardianRequests[g].kind = requestKind(t)
      BY <2>3 DEF approvable
    <3>2. keepsApplication(b, b.guardianRequests[g])
      BY <1>1, <1>3, <2>1, <3>1 DEF keepsApplication, requestKind, Trip, Timer, NoTimer
    <3>3. e.guardianRequests[g] = t.guardianRequests[g]
      BY <1>3, <1>4, <2>1, <3>1, <3>2
    <3> QED BY <2>2, <3>1, <3>3 DEF approvable
  <2>4. ASSUME NEW g \in approvable(e) PROVE g \in approvable(t)
    <3>1. /\ g \in Guardians /\ e.guardianRequests[g].left > 0
          /\ requestKind(e) # "none" /\ e.guardianRequests[g].kind = requestKind(e)
      BY <2>4 DEF approvable
    <3>2. e.guardianRequests[g] = t.guardianRequests[g]
      BY <1>3, <1>4, <2>1, <3>1 DEF NoApplication, NoTimer
    <3> QED BY <2>2, <3>1, <3>2 DEF approvable
  <2> QED BY <2>3, <2>4
<1> QED BY <1>2, <1>3, <1>4, <1>5, <1>6 DEF isClosed

LEMMA OpenRelayCustody ==
  ASSUME NEW t, t \in Trip
  PROVE  LET u == openRelay(t) IN
         /\ u.status = t.status /\ u.guardian = t.guardian
         /\ u = t \/ approvable(u) = {}
         /\ t.status = "active" /\ t.relayLeft = NoTimer => approvable(u) = {}
<1> DEFINE n == (t.round % MaxRound) + 1
           v == [t EXCEPT !.round = n, !.relayLeft = RelayTtl, !.guardianRequests = NoApplications]
<1>1. openRelay(t) = IF t.status # "active" \/ t.relayLeft # NoTimer THEN t ELSE v
  BY DEF openRelay
<1> HIDE DEF n
<1>2. v.status = t.status /\ v.guardian = t.guardian /\ v.guardianRequests = NoApplications
  BY DEF Trip
<1>3. approvable(v) = {}
  <2> HIDE DEF v
  <2> QED BY <1>2, RecruitmentType DEF approvable, NoApplication, NoTimer
<1> QED BY <1>1, <1>2, <1>3

LEMMA TakeoverCustody ==
  ASSUME NEW t, t \in Trip, ~isClosed(t), t.status = "open" => t.relayLeft = NoTimer
  PROVE  LET u == takeover(t) IN
         /\ u.status = "active" /\ u.guardian = t.guardian
         /\ approvable(u) \subseteq approvable(t)
         /\ t.status = "open" => approvable(u) = {}
<1> DEFINE c == IF t.automatedCheckIns THEN AiCheckInEvery ELSE NoTimer
           m == [t EXCEPT !.guardMode = "ai", !.nextCheckIn = NoTimer,
                          !.aiNextCheckIn = c, !.missed = 0]
           a == activate(m)
<1>1. takeover(t) = openRelay(a)
  BY DEF takeover
<1>2. m \in Trip
  <2>1. NoTimer \in Timer /\ c \in Timer /\ 0 \in 0..2
    BY JourneyAssumption DEF Timer, NoTimer
  <2> HIDE DEF c
  <2> QED BY <2>1 DEF Trip
<1>3. /\ SameRecruitment(t, m) /\ m.guardian = t.guardian
  <2> HIDE DEF c
  <2> QED BY DEF Trip, SameRecruitment
<1> HIDE DEF m
<1>4. /\ a \in Trip /\ a.status = "active" /\ a.guardian = t.guardian /\ a.relayLeft = t.relayLeft
      /\ t.status = "active" => a = m
  BY <1>2, <1>3, JourneyAssumption DEF activate, Trip, Status, isClosed, Closed, SameRecruitment
<1> HIDE DEF a
<1>5. t.status \in {"open", "active"}
  BY DEF Trip, Status, isClosed, Closed
<1>6. CASE t.status = "open"
  BY <1>1, <1>4, <1>6, OpenRelayCustody
<1>7. CASE t.status = "active"
  BY <1>1, <1>3, <1>4, <1>7, OpenRelayCustody, SameRecruitmentSameApprovable
<1> QED BY <1>5, <1>6, <1>7

----------------------------------------------------------------------------
(* The steps                                                               *)

(* A handler that leaves recruitment alone or prunes it.                   *)
LEMMA PruningStep ==
  ASSUME NEW u, IInv, Live, u \in Trip, trip' = save(u),
         u.status = Fresh.status, u.guardian = Fresh.guardian, ~isClosed(Fresh),
         approvable(u) \subseteq approvable(Fresh)
  PROVE  CustodyStep(trip, trip')
<1>1. trip'.status = u.status /\ trip'.guardian = u.guardian /\ approvable(trip') = approvable(u)
  BY SaveKeepsCustody
<1>2. /\ Fresh.guardian = trip.guardian /\ approvable(Fresh) = approvable(trip)
      /\ Fresh.status = trip.status
  BY ExpireCustody DEF Fresh, IInv, Live, isClosed
<1> QED BY <1>1, <1>2 DEF CustodyStep, isClosed

LEMMA RemovalCustody ==
  ASSUME NEW t, t \in Trip, NEW g \in Guardians
  PROVE  LET u == [t EXCEPT !.guardianRequests[g] = NoApplication] IN
         /\ u \in Trip /\ u.status = t.status /\ u.guardian = t.guardian
         /\ approvable(u) \subseteq approvable(t)
<1> DEFINE u == [t EXCEPT !.guardianRequests[g] = NoApplication]
<1>1. /\ u \in Trip /\ u.status = t.status /\ u.guardian = t.guardian
      /\ u.life = t.life /\ u.relayLeft = t.relayLeft
  BY RecruitmentType DEF Trip, NoApplications
<1>2. \A h \in Guardians: u.guardianRequests[h] = t.guardianRequests[h]
                           \/ u.guardianRequests[h] = NoApplication
  BY DEF Trip
<1> HIDE DEF u
<1>3. requestKind(u) = requestKind(t)
  BY <1>1 DEF requestKind
<1>4. approvable(u) \subseteq approvable(t)
  BY <1>2, <1>3 DEF approvable, NoApplication, NoTimer
<1> QED BY <1>1, <1>4 DEF u

LEMMA ApproveCustody ==
  ASSUME IInv, Live, NEW g \in Guardians, Approve(g)
  PROVE  CustodyStep(trip, trip')
<1>1. Sound(Fresh, deleted) /\ ~isClosed(Fresh) /\ mayDecide(Fresh, g) /\ trip' = save(approve(Fresh, g))
  BY ExpireSound DEF Approve, CanAct, Store, Fresh, IInv, Live
<1>2. Fresh \in Trip /\ Prepared(approve(Fresh, g), deleted)
  BY <1>1, ApprovePrepared DEF Sound, Prepared
<1>3. g \in approvable(Fresh)
  <2>1. Fresh.guardianRequests[g] # NoApplication
    BY <1>1 DEF mayDecide, NoApplication, NoTimer
  <2> QED BY <1>1, <2>1 DEF mayDecide, approvable, Sound, Prepared, applicationsBelong
<1>4. /\ approve(Fresh, g).status = "active" /\ approve(Fresh, g).guardian = g
      /\ approve(Fresh, g).guardianRequests = NoApplications
  <2>1. activate(Fresh) \in Trip /\ activate(Fresh).status = "active"
    BY <1>1, <1>2, JourneyAssumption DEF activate, Trip, Status, isClosed, Closed
  <2> QED BY <2>1 DEF approve, withoutRecruitment, Trip
<1>5. approvable(approve(Fresh, g)) = {}
  BY <1>2, <1>4, NobodyApprovable, RecruitmentType DEF Prepared
<1>6. trip'.status = "active" /\ trip'.guardian = g /\ approvable(trip') = {}
  BY <1>1, <1>2, <1>4, <1>5, SaveKeepsCustody DEF Prepared
<1>7. approvable(Fresh) = approvable(trip) /\ ~isClosed(trip)
  BY <1>1, ExpireCustody DEF Fresh, IInv, Live, isClosed
<1> QED BY <1>3, <1>6, <1>7 DEF CustodyStep

LEMMA AcceptCustody ==
  ASSUME IInv, Live, NEW g \in Guardians, NEW r \in 0..MaxRound, Accept(g, r)
  PROVE  CustodyStep(trip, trip')
<1> DEFINE a == NewApplication(Fresh, r)
           u == [Fresh EXCEPT !.guardianRequests[g] = a]
<1>1. /\ Sound(Fresh, deleted) /\ ~isClosed(Fresh) /\ mayAccept(Fresh, g, r)
      /\ g \notin deleted /\ trip' = save(u)
  BY ExpireSound DEF Accept, CanAct, Store, Fresh, IInv, Live
<1>2. Fresh \in Trip /\ u \in Trip
  BY <1>1, AcceptPrepared DEF Sound, Prepared
<1>3. /\ u.status = Fresh.status /\ u.guardian = Fresh.guardian
      /\ u.life = Fresh.life /\ u.relayLeft = Fresh.relayLeft
      /\ \A h \in Guardians: u.guardianRequests[h] = IF h = g THEN a ELSE Fresh.guardianRequests[h]
  BY <1>2 DEF Trip
<1>4. a.kind = requestKind(Fresh) /\ a.left > 0 /\ requestKind(Fresh) # "none"
  BY <1>1, <1>2, JourneyAssumption
     DEF mayAccept, NewApplication, Sooner, requestLeft, requestKind, Trip, Timer, NoTimer
<1> HIDE DEF a, u
<1>5. requestKind(u) = requestKind(Fresh)
  BY <1>3 DEF requestKind
<1>6. approvable(u) = approvable(Fresh) \cup {g}
  BY <1>3, <1>4, <1>5 DEF approvable
<1>7. g \notin approvable(Fresh) /\ g # Fresh.guardian
  BY <1>1 DEF mayAccept, approvable, NoApplication, NoTimer
<1>8. /\ trip'.status = u.status /\ trip'.guardian = u.guardian
      /\ approvable(trip') = approvable(u)
  BY <1>1, <1>2, SaveKeepsCustody
<1>9. /\ Fresh.guardian = trip.guardian /\ approvable(Fresh) = approvable(trip)
      /\ Fresh.status = trip.status
  BY <1>1, ExpireCustody DEF Fresh, IInv, Live, isClosed
<1>10. g \in Guardians \ approvable(trip) /\ g # trip.guardian
       /\ approvable(trip') = approvable(trip) \cup {g}
  BY <1>6, <1>7, <1>8, <1>9
<1> QED BY <1>1, <1>3, <1>8, <1>9, <1>10 DEF CustodyStep, isClosed

LEMMA FinishCustody ==
  ASSUME IInv, Live, NEW outcome \in Closed, Finish(outcome)
  PROVE  CustodyStep(trip, trip')
<1> DEFINE u == withoutRecruitment(closeAs(Fresh, outcome))
<1>1. Sound(Fresh, deleted) /\ ~isClosed(Fresh) /\ trip' = save(u)
  BY ExpireSound DEF Finish, CanAct, Store, Fresh, IInv, Live
<1>2. Fresh \in Trip /\ u \in Trip
  BY <1>1, ClosePrepared DEF Sound, Prepared
<1>3. u.status = outcome /\ u.guardian = Fresh.guardian
  BY <1>2 DEF closeAs, withoutRecruitment, Trip
<1> HIDE DEF u
<1>4. /\ trip'.status = outcome /\ trip'.guardian = Fresh.guardian
  BY <1>1, <1>2, <1>3, SaveKeepsCustody
<1>5. isClosed(trip') /\ approvable(trip') = {}
  BY <1>4, ClosedNobodyApprovable DEF isClosed
<1>6. Fresh.guardian = trip.guardian /\ ~isClosed(trip)
  BY <1>1, ExpireCustody DEF Fresh, IInv, Live, isClosed
<1> QED BY <1>4, <1>5, <1>6 DEF CustodyStep

(* A takeover of a live trip, on behalf of a participant or of the alarm.  *)
LEMMA TakeoverStep ==
  ASSUME IInv, Live, ~isClosed(Fresh), NEW u, u \in Trip, trip' = save(u),
         u.status = "active", u.guardian = Fresh.guardian,
         approvable(u) \subseteq approvable(Fresh),
         Fresh.status = "open" => approvable(u) = {}
  PROVE  CustodyStep(trip, trip')
<1>1. trip'.status = "active" /\ trip'.guardian = u.guardian /\ approvable(trip') = approvable(u)
  BY SaveKeepsCustody
<1>2. /\ Fresh.guardian = trip.guardian /\ approvable(Fresh) = approvable(trip)
      /\ Fresh.status = trip.status /\ Fresh \in Trip
  BY ExpireCustody, ExpireSound DEF Fresh, IInv, Live, isClosed, Sound, Prepared
<1>3. trip.status \in {"open", "active"} /\ ~isClosed(trip)
  BY <1>2 DEF isClosed, Closed, Trip, Status
<1> QED BY <1>1, <1>2, <1>3 DEF CustodyStep

LEMMA TimersCustody ==
  ASSUME IInv, Live,
         RiderCheckIn \/ RiderMessage \/ GuardianCheckIn \/ Resume
           \/ \E automated, contact \in BOOLEAN: SetAssistance(automated, contact)
  PROVE  CustodyStep(trip, trip')
<1>1. Sound(Fresh, deleted) /\ ~isClosed(Fresh)
  BY ExpireSound DEF RiderCheckIn, RiderMessage, GuardianCheckIn, Resume, SetAssistance, CanAct,
     Fresh, IInv, Live
<1>2. Fresh \in Trip /\ guardianCheckIn(Fresh) = Fresh
  BY <1>1, GuardianCheckInSame DEF Sound, Prepared
<1>3. /\ CheckInEvery \in Timer /\ AiCheckInEvery \in Timer /\ NoTimer \in Timer
      /\ 0 \in 0..2 /\ FALSE \in BOOLEAN
  BY JourneyAssumption DEF Timer, NoTimer
<1>4. ASSUME NEW u, u \in Trip, SameRecruitment(Fresh, u), u.guardian = Fresh.guardian,
             trip' = save(u)
      PROVE  CustodyStep(trip, trip')
  BY <1>1, <1>4, PruningStep, SameRecruitmentSameApprovable DEF SameRecruitment
<1>5. riderAnswers(Fresh) \in Trip /\ SameRecruitment(Fresh, riderAnswers(Fresh))
      /\ riderAnswers(Fresh).guardian = Fresh.guardian
  BY <1>2, <1>3 DEF riderAnswers, SameRecruitment, Trip
<1>6. CASE RiderMessage
  BY <1>4, <1>5, <1>6 DEF RiderMessage, Store
<1>7. CASE RiderCheckIn
  <2> DEFINE t == riderAnswers(Fresh)
             u == [t EXCEPT !.aiNextCheckIn = IF Fresh.guardMode = "ai" THEN AiCheckInEvery ELSE @]
  <2>1. trip' = save(u)
    BY <1>7 DEF RiderCheckIn, Store
  <2> HIDE DEF t
  <2>2. u \in Trip /\ SameRecruitment(t, u) /\ u.guardian = t.guardian
    BY <1>3, <1>5 DEF t, SameRecruitment, Trip
  <2> HIDE DEF u
  <2> QED BY <1>4, <1>5, <2>1, <2>2 DEF SameRecruitment, t
<1>8. CASE GuardianCheckIn
  <2> DEFINE u == [Fresh EXCEPT !.nextCheckIn = IF Fresh.guardMode = "human" THEN CheckInEvery ELSE @]
  <2>1. trip' = save(u)
    BY <1>2, <1>8 DEF GuardianCheckIn, Store
  <2>2. u \in Trip /\ SameRecruitment(Fresh, u) /\ u.guardian = Fresh.guardian
    BY <1>2, <1>3 DEF SameRecruitment, Trip
  <2> QED BY <1>4, <2>1, <2>2
<1>9. CASE Resume
  <2> DEFINE u == [Fresh EXCEPT !.guardMode = "human",
                     !.nextCheckIn = CheckInEvery, !.aiNextCheckIn = NoTimer, !.missed = 0]
  <2>1. trip' = save(u)
    BY <1>2, <1>9 DEF Resume, Store
  <2>2. u \in Trip /\ SameRecruitment(Fresh, u) /\ u.guardian = Fresh.guardian
    BY <1>2, <1>3 DEF SameRecruitment, Trip
  <2> QED BY <1>4, <2>1, <2>2
<1>10. CASE \E automated, contact \in BOOLEAN: SetAssistance(automated, contact)
  <2>1. PICK automated \in BOOLEAN, contact \in BOOLEAN: SetAssistance(automated, contact)
    BY <1>10
  <2> DEFINE u == assist(Fresh, automated, contact)
  <2>2. trip' = save(u) /\ u \in Trip
    BY <1>1, <2>1, AssistPrepared DEF SetAssistance, Store, Prepared
  <2>3. SameRecruitment(Fresh, u) /\ u.guardian = Fresh.guardian
    BY <1>2 DEF assist, SameRecruitment, Trip
  <2> QED BY <1>4, <2>2, <2>3
<1> QED BY <1>6, <1>7, <1>8, <1>9, <1>10

(* Saving an expired trip and no more.                                     *)
LEMMA ExpiryStep ==
  ASSUME IInv, Live, trip' = save(Fresh)
  PROVE  CustodyStep(trip, trip')
<1>1. Sound(Fresh, deleted) /\ Fresh \in Trip
  BY ExpireSound DEF Fresh, IInv, Live, Sound, Prepared
<1>2. CASE ~isClosed(Fresh)
  BY <1>1, <1>2, PruningStep
<1>3. CASE isClosed(Fresh)
  <2>1. /\ trip'.status = Fresh.status /\ trip'.guardian = Fresh.guardian
    BY <1>1, SaveKeepsCustody
  <2>2. isClosed(trip') /\ approvable(trip') = {}
    BY <1>3, <2>1, ClosedNobodyApprovable DEF isClosed
  <2>3. /\ Fresh.guardian = trip.guardian
        /\ (Fresh.status = trip.status) \/ ~isClosed(trip)
    BY ExpireCustody DEF Fresh, IInv, Live
  <2>4. isClosed(trip) => approvable(trip) = {}
    BY ClosedNobodyApprovable
  <2> QED BY <1>3, <2>1, <2>2, <2>3, <2>4 DEF CustodyStep, isClosed
<1> QED BY <1>2, <1>3

LEMMA AiCheckInCustody ==
  ASSUME NEW t, NEW gone, Prepared(t, gone), ~isClosed(t)
  PROVE  /\ aiCheckIn(t) \in Trip /\ aiCheckIn(t).status = t.status
         /\ aiCheckIn(t).guardian = t.guardian /\ approvable(aiCheckIn(t)) = approvable(t)
<1> DEFINE v == [t EXCEPT !.missed = AtMostTwo(t.missed + 1),
                          !.silence = AtMostTwo(t.silence + 1),
                          !.aiNextCheckIn = AiCheckInEvery]
<1>1. aiCheckIn(t) = t \/ aiCheckIn(t) = escalate(v)
  BY DEF aiCheckIn
<1>2. SameRecruitment(t, escalate(v)) /\ escalate(v).guardian = t.guardian
  BY DEF Prepared, Trip, escalate, SameRecruitment
<1>3. aiCheckIn(t) \in Trip
  BY AiCheckInPrepared DEF Prepared
<1> QED BY <1>1, <1>2, <1>3, SameRecruitmentSameApprovable DEF SameRecruitment

LEMMA MonitorCustody ==
  ASSUME IInv, Live, trip' = save(Monitor(Fresh))
  PROVE  CustodyStep(trip, trip')
<1>1. Sound(Fresh, deleted) /\ Fresh \in Trip
  BY ExpireSound DEF Fresh, IInv, Live, Sound, Prepared
<1>2. CASE isClosed(Fresh)
  BY <1>2, ExpiryStep DEF Monitor
<1>3. CASE ~isClosed(Fresh)
  <2> DEFINE m == missedGuardian(Fresh)
  <2>1. /\ Fresh.missed <= Fresh.silence
        /\ Fresh.status = "open" => Fresh.relayLeft = NoTimer
        /\ periodsFollow(Fresh, deleted) /\ applicationsBelong(Fresh, deleted)
        /\ pendingHaveDeadlines(Fresh)
    BY <1>1 DEF Sound, Prepared, phasesCohere
  <2>2. Monitor(Fresh) = aiCheckIn(m)
    BY <1>3 DEF Monitor
  <2>3. CASE m = Fresh
    <3>1. /\ aiCheckIn(Fresh) \in Trip /\ aiCheckIn(Fresh).status = Fresh.status
          /\ aiCheckIn(Fresh).guardian = Fresh.guardian
          /\ approvable(aiCheckIn(Fresh)) = approvable(Fresh)
      BY <1>1, <1>3, AiCheckInCustody DEF Sound
    <3> QED BY <1>3, <2>2, <2>3, <3>1, PruningStep
  <2>4. CASE m = takeover(Fresh)
    <3>1. /\ m.status = "active" /\ m.guardian = Fresh.guardian
          /\ approvable(m) \subseteq approvable(Fresh)
          /\ Fresh.status = "open" => approvable(m) = {}
          /\ Prepared(m, deleted)
      BY <1>1, <1>3, <2>1, <2>4, TakeoverCustody, TakeoverPrepared
    <3>2. /\ aiCheckIn(m) \in Trip /\ aiCheckIn(m).status = m.status
          /\ aiCheckIn(m).guardian = m.guardian /\ approvable(aiCheckIn(m)) = approvable(m)
      BY <3>1, AiCheckInCustody DEF isClosed, Closed
    <3> HIDE DEF m
    <3> QED BY <1>3, <2>2, <3>1, <3>2, TakeoverStep
  <2> QED BY <2>3, <2>4 DEF missedGuardian
<1> QED BY <1>2, <1>3

LEMMA ScrubCustody ==
  ASSUME IInv, Live, NEW g \in Guardians, trip' = save(scrub(trip, g))
  PROVE  CustodyStep(trip, trip')
<1> DEFINE u == [trip EXCEPT !.guardianRequests[g] = NoApplication]
           v == [u EXCEPT !.guardian = NoOne]
           w == scrub(trip, g)
<1>1. Sound(trip, deleted) /\ trip \in Trip /\ w \in Trip
  BY ScrubPrepared DEF IInv, Live, Sound, Prepared
<1>2. /\ u \in Trip /\ u.status = trip.status /\ u.guardian = trip.guardian
      /\ approvable(u) \subseteq approvable(trip)
  BY <1>1, RemovalCustody
<1>3. /\ trip'.status = w.status /\ trip'.guardian = w.guardian
      /\ approvable(trip') = approvable(w)
  BY <1>1, SaveKeepsCustody
<1>4. /\ SameRecruitment(trip, trip) /\ u.relayLeft = trip.relayLeft
  BY <1>1 DEF SameRecruitment, Trip
<1>5. CASE trip.guardian # g
  <2>1. w = u
    BY <1>5 DEF scrub
  <2>2. isClosed(trip) => approvable(trip) = {}
    BY ClosedNobodyApprovable
  <2> HIDE DEF u, w
  <2> QED BY <1>2, <1>3, <2>1, <2>2 DEF CustodyStep
<1>6. CASE trip.guardian = g
  <2>1. trip.guardian # NoOne /\ trip.status # "open"
    BY <1>1, <1>6, JourneyAssumption DEF Sound, Prepared, phasesCohere
  <2>2. /\ v \in Trip /\ SameRecruitment(u, v) /\ v.guardian = NoOne
    <3> HIDE DEF u
    <3> QED BY <1>2 DEF Trip, SameRecruitment
  <2>3. v.status = trip.status /\ approvable(v) \subseteq approvable(trip)
    BY <1>2, <2>2, SameRecruitmentSameApprovable DEF SameRecruitment
  <2>4. w = IF isClosed(trip) THEN v ELSE takeover(v)
    BY <1>6 DEF scrub
  <2> HIDE DEF u, v, w
  <2>5. CASE isClosed(trip)
    BY <1>3, <2>1, <2>2, <2>3, <2>4, <2>5 DEF CustodyStep
  <2>6. CASE ~isClosed(trip)
    <3>1. ~isClosed(v) /\ trip.status = "active"
      BY <1>1, <2>1, <2>3, <2>6 DEF isClosed, Closed, Trip, Status
    <3>2. /\ w.status = "active" /\ w.guardian = NoOne /\ approvable(w) \subseteq approvable(v)
      BY <2>1, <2>2, <2>3, <2>4, <2>6, <3>1, TakeoverCustody
    <3> QED BY <1>3, <2>1, <2>3, <3>1, <3>2 DEF CustodyStep
  <2> QED BY <2>5, <2>6
<1> QED BY <1>5, <1>6

LEMMA ElapsedCustody ==
  ASSUME NEW t, t \in Trip
  PROVE  LET u == elapsed(t) IN
         /\ u.status = t.status /\ u.guardian = t.guardian
         /\ approvable(u) \subseteq approvable(t)
<1> DEFINE q == [g \in Guardians |-> [t.guardianRequests[g] EXCEPT !.left = Elapse(@)]]
           u == elapsed(t)
<1>1. /\ u.status = t.status /\ u.guardian = t.guardian /\ u.guardianRequests = q
      /\ u.life = Elapse(t.life) /\ u.relayLeft = Elapse(t.relayLeft)
      /\ t.life \in Timer /\ t.relayLeft \in Timer
  BY DEF elapsed, Trip, Timer
<1>2. \A g \in Guardians: /\ q[g].left = Elapse(t.guardianRequests[g].left)
                          /\ q[g].kind = t.guardianRequests[g].kind
                          /\ t.guardianRequests[g].left \in Timer
  BY DEF Trip, Application
<1> HIDE DEF q, u
<1>3. \A d \in Timer: Elapse(d) > 0 => d > 0
  BY DEF Elapse, Timer, NoTimer
<1>4. requestKind(u) # "none" => requestKind(u) = requestKind(t)
  BY <1>1, <1>3 DEF requestKind
<1> QED BY <1>1, <1>2, <1>3, <1>4 DEF approvable, u

LEMMA TickCustody ==
  ASSUME IInv, Live, Tick
  PROVE  CustodyStep(trip, trip')
<1>1. trip \in Trip /\ trip' = elapsed(trip)
  BY DEF IInv, Live, Sound, Prepared, Tick
<1>2. isClosed(trip) => approvable(trip) = {}
  BY ClosedNobodyApprovable
<1> QED BY <1>1, <1>2, ElapsedCustody DEF CustodyStep

LEMMA LiveStepMaps ==
  ASSUME IInv, Live, Live', Next
  PROVE  CustodyStep(trip, trip')
<1>1. Sound(trip, deleted) /\ Sound(Fresh, deleted) /\ Fresh \in Trip
  BY ExpireSound DEF Fresh, IInv, Live, Sound, Prepared
<1>2. ~Purge
  BY DEF Purge, Live
<1>3. CASE \E g \in Guardians: Approve(g)
  BY <1>3, ApproveCustody
<1>4. CASE \E g \in Guardians: Reject(g) \/ Withdraw(g)
  BY <1>1, <1>4, RemovalCustody, PruningStep DEF Reject, Withdraw, CanAct, Store
<1>5. CASE RiderCheckIn \/ RiderMessage \/ GuardianCheckIn \/ Resume
           \/ \E automated, contact \in BOOLEAN: SetAssistance(automated, contact)
  BY <1>5, TimersCustody
<1>6. CASE Arrive \/ Cancel
  BY <1>6, FinishCustody DEF Arrive, Cancel, Closed
<1>7. CASE SetAssistanceClosed
  BY <1>7, ExpiryStep DEF SetAssistanceClosed
<1>8. CASE \E g \in Guardians, r \in 0..MaxRound: Accept(g, r)
  BY <1>8, AcceptCustody
<1>9. CASE \E g \in Guardians: ScrubUser(g)
  BY <1>9, ScrubCustody DEF ScrubUser
<1>10. CASE RequestRelay
  <2> DEFINE u == openRelay(Fresh)
  <2>1. ~isClosed(Fresh) /\ trip' = save(u) /\ u \in Trip
    BY <1>1, <1>10, OpenRelayPrepared
       DEF RequestRelay, CanAct, Store, Handover, Sound, Prepared, phasesCohere
  <2>2. /\ u.status = Fresh.status /\ u.guardian = Fresh.guardian
        /\ u = Fresh \/ approvable(u) = {}
    BY <1>1, OpenRelayCustody
  <2> HIDE DEF u
  <2> QED BY <2>1, <2>2, PruningStep
<1>11. CASE \E r \in 1..MaxRound: CancelRelay(r)
  <2> DEFINE u == withoutRecruitment(Fresh)
  <2>1. ~isClosed(Fresh) /\ trip' = save(u) /\ u \in Trip
    BY <1>1, <1>11, WithoutRecruitmentPrepared
       DEF CancelRelay, CanAct, Store, Sound, Prepared, phasesCohere
  <2>2. u.status = Fresh.status /\ u.guardian = Fresh.guardian
        /\ \A g \in Guardians: u.guardianRequests[g] = NoApplication
    BY <1>1, RecruitmentType DEF withoutRecruitment, Trip
  <2> HIDE DEF u
  <2> QED BY <2>1, <2>2, PruningStep, NobodyApprovable
<1>12. CASE Takeover
  <2> DEFINE u == takeover(Fresh)
  <2>1. ~isClosed(Fresh) /\ trip' = save(u) /\ u \in Trip
    BY <1>1, <1>12, TakeoverPrepared DEF Takeover, CanAct, Store, Sound, Prepared, phasesCohere
  <2>2. /\ u.status = "active" /\ u.guardian = Fresh.guardian
        /\ approvable(u) \subseteq approvable(Fresh)
        /\ Fresh.status = "open" => approvable(u) = {}
    BY <1>1, <2>1, TakeoverCustody DEF Sound, Prepared, phasesCohere
  <2> HIDE DEF u
  <2> QED BY <2>1, <2>2, TakeoverStep
<1>13. CASE Read
  BY <1>2, <1>13, ExpiryStep DEF Read, Store
<1>14. CASE AlarmFires
  BY <1>2, <1>14, MonitorCustody DEF AlarmFires, Store
<1>15. CASE Tick
  BY <1>15, TickCustody
<1> QED
  BY <1>2, <1>3, <1>4, <1>5, <1>6, <1>7, <1>8, <1>9, <1>10, <1>11, <1>12, <1>13, <1>14, <1>15
     DEF Next, Rider, Volunteer, Participant, EraseForRider, ScrubRider

LEMMA NextMaps == IInv /\ IInv' /\ [Next]_vars => [Protocol!Next]_(Protocol!vars)
<1> SUFFICES ASSUME IInv, IInv', [Next]_vars PROVE [Protocol!Next]_(Protocol!vars)
  OBVIOUS
<1>1. CASE UNCHANGED vars
  BY <1>1 DEF vars, Protocol!vars, phase, candidates, approvable, requestKind, Live, isClosed
<1>2. CASE Next /\ ~Live
  <2>1. FALSE
    BY <1>2 DEF Next, Rider, Volunteer, Participant, Approve, Reject, RiderCheckIn, RiderMessage,
     Arrive, Cancel, Finish, SetAssistance, SetAssistanceClosed, EraseForRider, ScrubRider,
     Accept, Withdraw, ScrubUser, RequestRelay, CancelRelay, GuardianCheckIn, Takeover, Resume,
     Read, AlarmFires, Tick, CanAct
  <2> QED BY <2>1
<1>3. CASE Next /\ Live /\ ~Live'
  <2>1. phase # "erased" /\ phase' = "erased" /\ candidates' = {}
    BY <1>3 DEF phase, candidates, IInv, Live, Sound, Prepared, Trip, Status, Closed, isClosed
  <2> QED BY <1>3, <2>1 DEF Protocol!Next, Protocol!Erase
<1>4. CASE Next /\ Live /\ Live'
  <2>1. trip \in Trip /\ trip' \in Trip
    BY <1>4 DEF IInv, Live, Sound, Prepared
  <2> QED BY <1>4, <2>1, LiveStepMaps, StepMaps
<1> QED BY <1>1, <1>2, <1>3, <1>4

LEMMA InitMaps == Init => Protocol!Init
<1> SUFFICES ASSUME Init PROVE Protocol!Init
  OBVIOUS
<1>1. Live /\ trip.status = "open" /\ trip.guardian = NoOne
      /\ \A g \in Guardians: trip.guardianRequests[g] = NoApplication
  BY RecruitmentType DEF Init, NewTrip, Live, Erased
<1>2. approvable(trip) = {}
  BY <1>1 DEF approvable, NoApplication, NoTimer
<1> QED BY <1>1, <1>2 DEF Protocol!Init, phase, candidates, isClosed, Closed

(* A guardian gains access only by being approved while a live candidate;  *)
(* missed check-ins, relays, alarms, expiry and erasure never grant it.    *)
THEOREM CustodyRefinement == Spec => ImplementsCustody
<1>1. Init => Protocol!Init
  BY InitMaps
<1>2. IInv /\ IInv' /\ [Next]_vars => [Protocol!Next]_(Protocol!vars)
  BY NextMaps
<1> QED BY <1>1, <1>2, Invariance, PTL DEF Spec, ImplementsCustody, Protocol!Spec

-----------------------------------------------------------------------------
(***************************************************************************)
(* The escalation to the trusted contact: what the handlers do to the      *)
(* record of the rider's silence.                                          *)
(***************************************************************************)
Recorded(t) ==
  {"escalated", "silence", "missed", "timeoutContact", "automatedCheckIns"} \subseteq DOMAIN t

(* The row u leaves the record of silence of t as it was.                  *)
SameRecord(t, u) ==
  /\ Recorded(u)
  /\ u.escalated = t.escalated /\ u.silence = t.silence /\ u.missed = t.missed
  /\ u.timeoutContact = t.timeoutContact /\ u.automatedCheckIns = t.automatedCheckIns

(* A handler that may take a message back, and never sends one.            *)
Quiet(t, u) == Recorded(u) /\ (u.escalated => t.escalated)

LEMMA TripRecorded ==
  ASSUME NEW t \in Trip
  PROVE  Recorded(t)
BY DEF Trip, Recorded

LEMMA ExpireRecord ==
  ASSUME NEW t, Recorded(t)
  PROVE  SameRecord(t, expire(t))
<1> DEFINE a == expireLife(t)
           b == expireRelay(a)
<1>1. SameRecord(t, a)
  BY DEF expireLife, closeAs, SameRecord, Recorded
<1> HIDE DEF a
<1>2. SameRecord(t, b)
  BY <1>1 DEF expireRelay, SameRecord, Recorded
<1> HIDE DEF b
<1>3. SameRecord(t, filterRequests(b))
  BY <1>2 DEF filterRequests, SameRecord, Recorded
<1> QED BY <1>3 DEF expire, a, b

LEMMA SaveRecord ==
  ASSUME NEW t, Recorded(t)
  PROVE  SameRecord(t, save(t))
BY DEF save, SameRecord, Recorded

LEMMA ActivateRecord ==
  ASSUME NEW t, Recorded(t)
  PROVE  SameRecord(t, activate(t))
BY DEF activate, SameRecord, Recorded

LEMMA OpenRelayRecord ==
  ASSUME NEW t, Recorded(t)
  PROVE  SameRecord(t, openRelay(t))
BY DEF openRelay, SameRecord, Recorded

LEMMA TakeoverRecord ==
  ASSUME NEW t, Recorded(t)
  PROVE  /\ Quiet(t, takeover(t)) /\ takeover(t).missed = 0
         /\ takeover(t).escalated = t.escalated
<1> DEFINE m == [t EXCEPT !.guardMode = "ai", !.nextCheckIn = NoTimer,
                          !.aiNextCheckIn = IF t.automatedCheckIns THEN AiCheckInEvery ELSE NoTimer,
                          !.missed = 0]
<1>1. Recorded(m) /\ m.missed = 0 /\ m.escalated = t.escalated
  BY DEF Recorded
<1>2. takeover(t) = openRelay(activate(m))
  BY DEF takeover
<1> HIDE DEF m
<1>3. SameRecord(m, activate(m))
  BY <1>1, ActivateRecord
<1>4. SameRecord(activate(m), takeover(t))
  BY <1>2, <1>3, OpenRelayRecord DEF SameRecord
<1> QED BY <1>1, <1>3, <1>4 DEF SameRecord, Quiet

LEMMA ApproveRecord ==
  ASSUME NEW t, Recorded(t), NEW g
  PROVE  Quiet(t, approve(t, g))
<1>1. SameRecord(t, activate(t))
  BY ActivateRecord
<1> DEFINE a == activate(t)
           m == [a EXCEPT !.guardian = g, !.guardMode = "human",
                   !.slot = [h \in Guardians |-> IF h = g THEN "running"
                                  ELSE IF h = t.guardian THEN "ended" ELSE t.slot[h]],
                   !.nextCheckIn = CheckInEvery, !.aiNextCheckIn = NoTimer, !.missed = 0]
<1>2. approve(t, g) = withoutRecruitment(m)
  BY DEF approve
<1> HIDE DEF a
<1>3. Recorded(m) /\ m.escalated = t.escalated
  BY <1>1 DEF SameRecord, Recorded, a
<1> HIDE DEF m
<1> QED BY <1>2, <1>3 DEF withoutRecruitment, Quiet, Recorded

(* The other changes a request makes to a stored row.                      *)
LEMMA RequestsQuiet ==
  ASSUME NEW t, Recorded(t), NEW g, NEW f, NEW x, NEW y
  PROVE  /\ Quiet(t, t)
         /\ Quiet(t, [t EXCEPT !.guardianRequests[g] = f])
         /\ Quiet(t, withoutRecruitment(t))
         /\ Quiet(t, withoutRecruitment(closeAs(t, x)))
         /\ Quiet(t, riderAnswers(t))
         /\ Quiet(t, [riderAnswers(t) EXCEPT !.aiNextCheckIn = x])
         /\ Quiet(t, [guardianCheckIn(t) EXCEPT !.nextCheckIn = x])
         /\ Quiet(t, [guardianCheckIn(t) EXCEPT !.guardMode = "human",
                        !.nextCheckIn = CheckInEvery, !.aiNextCheckIn = NoTimer, !.missed = 0])
         /\ Quiet(t, assist(t, x, y))
         /\ Quiet(t, openRelay(t))
         /\ Quiet(t, elapsed(t))
<1> USE DEF Quiet, Recorded
<1>1. Quiet(t, t) /\ Quiet(t, [t EXCEPT !.guardianRequests[g] = f])
  OBVIOUS
<1>2. Quiet(t, withoutRecruitment(t)) /\ Quiet(t, withoutRecruitment(closeAs(t, x)))
  BY DEF withoutRecruitment, closeAs
<1>3. Quiet(t, riderAnswers(t)) /\ Quiet(t, [riderAnswers(t) EXCEPT !.aiNextCheckIn = x])
  BY DEF riderAnswers
<1>4. Quiet(t, [guardianCheckIn(t) EXCEPT !.nextCheckIn = x])
  BY DEF guardianCheckIn
<1>5. Quiet(t, [guardianCheckIn(t) EXCEPT !.guardMode = "human",
                  !.nextCheckIn = CheckInEvery, !.aiNextCheckIn = NoTimer, !.missed = 0])
  BY DEF guardianCheckIn
<1>6. Quiet(t, assist(t, x, y))
  BY DEF assist
<1>7. Quiet(t, openRelay(t))
  BY DEF openRelay
<1>8. Quiet(t, elapsed(t))
  BY DEF elapsed
<1> QED BY <1>1, <1>2, <1>3, <1>4, <1>5, <1>6, <1>7, <1>8

LEMMA ScrubQuiet ==
  ASSUME NEW t, Recorded(t), NEW g
  PROVE  Quiet(t, scrub(t, g))
<1> DEFINE u == [t EXCEPT !.guardianRequests[g] = NoApplication]
           v == [u EXCEPT !.guardian = NoOne]
<1>1. Recorded(u) /\ Recorded(v) /\ u.escalated = t.escalated /\ v.escalated = t.escalated
  BY DEF Recorded
<1>2. scrub(t, g) \in {u, v, takeover(v)}
  BY DEF scrub
<1> HIDE DEF u, v
<1> QED BY <1>1, <1>2, TakeoverRecord DEF Quiet

(* The alarm sends for the contact only at the second unanswered check.    *)
LEMMA MonitorRecord ==
  ASSUME NEW t \in Trip, t.missed <= t.silence, ~t.escalated, Monitor(t).escalated
  PROVE  t.timeoutContact /\ t.automatedCheckIns /\ Monitor(t).silence = 2
<1>1. Recorded(t)
  BY TripRecorded
<1>2. ~isClosed(t) /\ Monitor(t) = aiCheckIn(missedGuardian(t))
  BY DEF Monitor
<1>3. CASE missedGuardian(t) = t
  <2> DEFINE m == AtMostTwo(t.missed + 1)
             s == AtMostTwo(t.silence + 1)
             v == [t EXCEPT !.missed = m, !.silence = s, !.aiNextCheckIn = AiCheckInEvery]
  <2>1. t.automatedCheckIns /\ Monitor(t) = escalate(v)
    BY <1>2, <1>3 DEF aiCheckIn
  <2>2. m >= 2 => s = 2
    BY DEF AtMostTwo, Trip
  <2> HIDE DEF m, s
  <2>3. /\ Recorded(v) /\ v.escalated = t.escalated /\ v.timeoutContact = t.timeoutContact
        /\ v.missed = m /\ v.silence = s
    BY <1>1 DEF Recorded
  <2> HIDE DEF v
  <2>4. v.missed >= 2 /\ v.timeoutContact /\ escalate(v).silence = v.silence
    BY <2>1, <2>3 DEF escalate, Recorded
  <2> QED BY <2>1, <2>2, <2>3, <2>4
<1>4. CASE missedGuardian(t) = takeover(t)
  <2> DEFINE w == takeover(t)
             m == AtMostTwo(w.missed + 1)
             v == [w EXCEPT !.missed = m, !.silence = AtMostTwo(w.silence + 1),
                            !.aiNextCheckIn = AiCheckInEvery]
  <2>1. Recorded(w) /\ w.missed = 0 /\ ~w.escalated
    BY <1>1, TakeoverRecord DEF Quiet
  <2>2. m = 1
    BY <2>1 DEF AtMostTwo
  <2>3. Monitor(t) = w \/ Monitor(t) = escalate(v)
    BY <1>2, <1>4 DEF aiCheckIn
  <2> HIDE DEF w, m
  <2>4. Recorded(v) /\ v.missed = 1 /\ ~v.escalated
    BY <2>1, <2>2 DEF Recorded
  <2> HIDE DEF v
  <2>5. ~escalate(v).escalated
    BY <2>4 DEF escalate
  <2> QED BY <2>1, <2>3, <2>5
<1> QED BY <1>3, <1>4 DEF missedGuardian

(* Whatever a request stores keeps the message unsent if it was unsent.    *)
LEMMA StoreQuiet ==
  ASSUME NEW t, Quiet(Fresh, t), trip \in Trip, trip' = save(t) \/ Store(t)
  PROVE  trip'.escalated => trip.escalated
<1>1. Recorded(t) /\ Recorded(trip)
  BY TripRecorded DEF Quiet
<1>2. trip' = save(t)
  BY DEF Store
<1> QED BY <1>1, <1>2, ExpireRecord, SaveRecord DEF Quiet, SameRecord, Fresh

LEMMA EscalationStep ==
  IInv /\ [Next]_vars =>
    (Live /\ trip' # Erased /\ ~trip.escalated /\ trip'.escalated
       => trip.timeoutContact /\ trip.automatedCheckIns /\ trip'.silence = 2)
<1> SUFFICES ASSUME IInv, [Next]_vars, Live, trip' # Erased, ~trip.escalated, trip'.escalated
             PROVE  trip.timeoutContact /\ trip.automatedCheckIns /\ trip'.silence = 2
  OBVIOUS
<1>1. trip \in Trip /\ Recorded(trip) /\ Recorded(Fresh) /\ SameRecord(trip, Fresh)
  BY TripRecorded, ExpireRecord DEF IInv, Live, Sound, Prepared, Fresh, SameRecord
<1>2. Next /\ ~Purge
  BY DEF vars, Purge
<1>3. ~\E t: Quiet(Fresh, t) /\ (trip' = save(t) \/ Store(t))
  BY <1>1, StoreQuiet
<1>4. ~\E g \in Guardians: Approve(g)
  BY <1>1, <1>3, ApproveRecord DEF Approve
<1>5. ~\E g \in Guardians, r \in 0..MaxRound: Accept(g, r)
  BY <1>1, <1>3, RequestsQuiet DEF Accept
<1>6. ~\E g \in Guardians: Reject(g) \/ Withdraw(g)
  BY <1>1, <1>3, RequestsQuiet DEF Reject, Withdraw
<1>7. ~RiderMessage
  BY <1>1, <1>3, RequestsQuiet DEF RiderMessage
<1>8. ~RiderCheckIn
  BY <1>1, <1>3, RequestsQuiet DEF RiderCheckIn
<1>9. ~Arrive /\ ~Cancel
  BY <1>1, <1>3, RequestsQuiet DEF Arrive, Cancel, Finish
<1>10. ~\E automated, contact \in BOOLEAN: SetAssistance(automated, contact)
  BY <1>1, <1>3, RequestsQuiet DEF SetAssistance
<1>11. ~SetAssistanceClosed
  BY <1>1, <1>3, RequestsQuiet DEF SetAssistanceClosed
<1>12. ~RequestRelay
  BY <1>1, <1>3, RequestsQuiet DEF RequestRelay
<1>13. ~\E r \in 1..MaxRound: CancelRelay(r)
  BY <1>1, <1>3, RequestsQuiet DEF CancelRelay
<1>14. ~GuardianCheckIn
  BY <1>1, <1>3, RequestsQuiet DEF GuardianCheckIn
<1>15. ~Resume
  BY <1>1, <1>3, RequestsQuiet DEF Resume
<1>16. ~Takeover
  BY <1>1, <1>3, TakeoverRecord DEF Takeover
<1>17. ~Read
  BY <1>1, <1>2, <1>3, RequestsQuiet DEF Read
<1>18. ~Tick
  BY <1>1, RequestsQuiet DEF Tick, Quiet
<1>19. ~\E g \in Guardians: ScrubUser(g)
  <2> SUFFICES ASSUME NEW g \in Guardians, ScrubUser(g) PROVE FALSE
    OBVIOUS
  <2>1. Quiet(trip, scrub(trip, g)) /\ trip' = save(scrub(trip, g))
    BY <1>1, ScrubQuiet DEF ScrubUser
  <2> QED BY <2>1, SaveRecord DEF Quiet, SameRecord
<1>20. CASE AlarmFires
  <2>1. trip' = save(Monitor(Fresh))
    BY <1>2, <1>20 DEF AlarmFires, Store
  <2>2. /\ Sound(Fresh, deleted) /\ Monitor(Fresh) \in Trip /\ Fresh \in Trip
        /\ Fresh.missed <= Fresh.silence
    BY ExpireSound, MonitorPrepared DEF IInv, Live, Fresh, Sound, Prepared, phasesCohere
  <2>3. Recorded(Monitor(Fresh)) /\ SameRecord(Monitor(Fresh), trip')
    BY <2>1, <2>2, TripRecorded, SaveRecord
  <2>4. ~Fresh.escalated /\ Monitor(Fresh).escalated
    BY <1>1, <2>3 DEF SameRecord
  <2> QED BY <1>1, <2>2, <2>3, <2>4, MonitorRecord DEF SameRecord
<1> QED
  BY <1>2, <1>4, <1>5, <1>6, <1>7, <1>8, <1>9, <1>10, <1>11, <1>12, <1>13, <1>14, <1>15,
     <1>16, <1>17, <1>18, <1>19, <1>20
     DEF Next, Rider, Volunteer, Participant, EraseForRider, ScrubRider

(* Nobody but the alarm brings in the trusted contact, and it does so only *)
(* with the rider's standing permission and after two automated checks in  *)
(* a row without a sign of life.                                           *)
THEOREM EscalationOnlyAfterSilence == Spec => EscalatedOnlyAfterSilence
BY EscalationStep, Invariance, PTL DEF Spec, EscalatedOnlyAfterSilence
=============================================================================
