--------------------------- MODULE PersonalAgent ---------------------------
(***************************************************************************)
(* A guardian delegates a journey to a runtime of their own: the request,  *)
(* the rider's approval, the connection with its token, the operations of  *)
(* the runtime and every way the delegation ends (TripRoom of              *)
(* src/worker/src/trips.ts, personal-agent.ts).                            *)
(*                                                                         *)
(* room is the part of trip_state involved, with times as time left, as in *)
(* Journey.  A job keeps the revision and the evidence it was made from,   *)
(* and the code asks only whether both are still current: fresh is the set *)
(* of jobs for which they are, and every participant input empties it.     *)
(* An operation of the runtime is several steps, as hashing the token and  *)
(* asking governance yield.                                                *)
(***************************************************************************)
EXTENDS Integers, Sequences, FiniteSets

CONSTANTS
  Guardians,       \* accounts that may guard this journey
  NoOne,           \* trip.guardian = null, after the account was deleted
  Authorization,   \* requested lifetime of a delegation, 5 to 120 minutes
  Connectivity,    \* PERSONAL_AGENT_CONNECTIVITY_MS
  Response,        \* PERSONAL_AGENT_RESPONSE_MS
  FollowUps,       \* assessment.followUpSeconds that a model may propose
  CheckInEvery,    \* trip.checkInIntervalSeconds
  AiCheckInEvery,  \* Math.max(60, trip.checkInIntervalSeconds)
  MaxInputs,       \* bound: what participants do
  MaxDelegations,  \* bound: delegations requested
  MaxTokens        \* bound: connections issued

ASSUME PersonalAgentAssumption ==
  /\ Guardians # {} /\ NoOne \notin Guardians
  /\ {Authorization, Connectivity, Response, CheckInEvery, AiCheckInEvery} \subseteq Nat \ {0}
  /\ FollowUps \subseteq Nat \ {0} /\ IsFiniteSet(FollowUps) /\ FollowUps # {}
  /\ Connectivity <= Response /\ Connectivity <= AiCheckInEvery  \* 45 s, 90 s, at least 60 s
  /\ {MaxInputs, MaxDelegations, MaxTokens} \subseteq Nat

VARIABLES
  room,       \* the journey and its delegation, as stored
  alarm,      \* time left until the object's alarm, or NoTimer
  call,       \* the operation of a runtime that is under way
  held,       \* tokens that reached a runtime
  given,      \* jobs whose context reached a runtime
  suspended,  \* governance has suspended a participant
  inputs,     \* how many inputs participants have made
  silence     \* history: time since the runtime was accepted or last gave a valid answer

vars == <<room, alarm, call, held, given, suspended, inputs, silence>>

NoTimer == -1
Timer == Nat \cup {NoTimer}
Operations == {"accept", "heartbeat", "updates", "assess", "release"}
NoCall == [stage |-> "none"]
Job == Nat  \* 0: no pending job

(* The earlier of two times of which the first may be unset.              *)
sooner(s, t) == IF s = NoTimer \/ t < s THEN t ELSE s

personalAgentLive(r) == r.status \in {"requested", "approved", "connecting", "active"}
personalAgentConnected(r) == r.status \in {"connecting", "active"}

(***************************************************************************)
(* endPersonalAgent: authority and its jobs go; unless a human has come    *)
(* back, coverage falls to the scheduled checks of the server.             *)
(***************************************************************************)
withoutAgent(r) == [r EXCEPT !.status = "ended", !.token = 0, !.job = 0, !.deadline = NoTimer,
                             !.nextJob = NoTimer, !.done = {}, !.fresh = {}]
\* Mutant: nobody takes over from the runtime.
endOnly(r, humanReturned) == IF personalAgentLive(r) THEN withoutAgent(r) ELSE r

endPersonalAgent(r, humanReturned) ==
  IF ~personalAgentLive(r) THEN r
  ELSE IF r.open /\ ~humanReturned /\ (r.status = "active" \/ r.guardMode = "ai")
  THEN [withoutAgent(r) EXCEPT !.guardMode = "ai", !.nextCheckIn = NoTimer,
                               !.aiNextCheckIn = IF r.assistance THEN AiCheckInEvery ELSE NoTimer]
  ELSE withoutAgent(r)

(* New input replaces the pending snapshot and asks for a new answer, but *)
(* never moves the deadline for it.                                       *)
jobDue(r) == /\ r.job \notin r.fresh
             /\ r.job # 0 \/ (r.done # {} /\ r.done \cap r.fresh = {}) \/ r.nextJob = 0
newJob(r, deadline) ==
  [r EXCEPT !.job = r.jobs + 1, !.jobs = @ + 1, !.fresh = @ \cup {r.jobs + 1},
            !.nextJob = NoTimer, !.deadline = deadline]
\* Mutant: every new job starts the time to respond again.
refreshJobAndDeadline(r) == IF jobDue(r) THEN newJob(r, sooner(r.expires, Response)) ELSE r

refreshJob(r) ==
  IF jobDue(r)
  THEN newJob(r, IF r.deadline = NoTimer THEN sooner(r.expires, Response) ELSE r.deadline)
  ELSE r

(* reconcilePersonalAgent, which expire() and save() run in every handler. *)
authorized(r) ==
  /\ r.open /\ r.guardian = r.owner /\ r.assignment = r.granted
  /\ r.assistance /\ ~r.help /\ r.expires > 0
  /\ personalAgentConnected(r) => r.lastSeen > 0 /\ r.deadline # 0
replaced(r) == r.guardian # r.owner \/ r.assignment # r.granted
reconcile(r) ==
  IF ~personalAgentLive(r) THEN r
  ELSE IF ~authorized(r) THEN endPersonalAgent(r, replaced(r) /\ r.guardMode = "human")
  ELSE IF personalAgentConnected(r) THEN refreshJob(r) ELSE r

save(r) == LET s == reconcile(r)
           IN IF s.assistance THEN s ELSE [s EXCEPT !.aiNextCheckIn = NoTimer]

(* schedule(): the earliest of the stored deadlines.                       *)
Deadlines(r) ==
  IF ~r.open THEN {}
  ELSE {t \in {r.nextCheckIn, IF r.guardMode = "ai" THEN r.aiNextCheckIn ELSE NoTimer,
               IF personalAgentLive(r) THEN r.expires ELSE NoTimer,
               IF personalAgentConnected(r) THEN r.lastSeen ELSE NoTimer,
               r.deadline, IF r.job = 0 THEN r.nextJob ELSE NoTimer} : t # NoTimer}

schedule(r) == IF Deadlines(r) = {} THEN NoTimer
               ELSE CHOOSE t \in Deadlines(r) : \A d \in Deadlines(r) : t <= d

Stored(r) == room' = save(r) /\ alarm' = schedule(room')
(* A handler that refuses after expire() has saved does not reschedule.    *)
Refused == room' = reconcile(room) /\ UNCHANGED alarm
Unasked == UNCHANGED <<call, held, given, suspended, silence>>

Init ==
  /\ room = [open |-> TRUE, guardian |-> CHOOSE g \in Guardians : TRUE, assignment |-> 1,
             guardMode |-> "human", nextCheckIn |-> CheckInEvery, aiNextCheckIn |-> NoTimer,
             assistance |-> TRUE, help |-> FALSE,
             status |-> "ended", delegations |-> 0, owner |-> NoOne, granted |-> 0, token |-> 0,
             tokens |-> 0, expires |-> 0, lastSeen |-> NoTimer, deadline |-> NoTimer,
             nextJob |-> NoTimer, job |-> 0, jobs |-> 0, done |-> {}, fresh |-> {}]
  /\ alarm = schedule(room)
  /\ call = NoCall /\ held = {} /\ given = {} /\ suspended = FALSE /\ inputs = 0 /\ silence = 0

(***************************************************************************)
(* What participants do.  An act expires, changes, saves and schedules,    *)
(* and raises assessmentVersion or changes the evidence.                   *)
(***************************************************************************)
Loaded == [reconcile(room) EXCEPT !.fresh = {}]
Act(r) == /\ room.open /\ inputs < MaxInputs /\ inputs' = inputs + 1
          /\ Stored(r) /\ Unasked

(* A message or a location of the rider, or their check-in.                *)
RiderSpeaks == Act(Loaded)
RiderCheckIn == Act([Loaded EXCEPT !.aiNextCheckIn =
                       IF Loaded.guardMode = "ai" THEN AiCheckInEvery ELSE @])
Help == ~room.help /\ Act([Loaded EXCEPT !.help = TRUE])

(* The guardian confirms availability: the delegation is over.             *)
GuardianCheckIn ==
  LET back == personalAgentConnected(Loaded)
      r == endPersonalAgent(Loaded, TRUE)
      mode == IF back THEN "human" ELSE r.guardMode
  IN /\ room.guardian # NoOne
     /\ Act([r EXCEPT !.guardMode = mode,
                      !.aiNextCheckIn = IF back THEN NoTimer ELSE @,
                      !.nextCheckIn = IF mode = "human" THEN CheckInEvery ELSE @])
Resume == /\ room.guardian # NoOne
          /\ Act([endPersonalAgent(Loaded, TRUE) EXCEPT !.guardMode = "human",
                     !.aiNextCheckIn = NoTimer, !.nextCheckIn = CheckInEvery])

takeover(r) == [r EXCEPT !.guardMode = "ai", !.nextCheckIn = NoTimer,
                         !.aiNextCheckIn = IF r.assistance /\ ~personalAgentConnected(r)
                                           THEN AiCheckInEvery ELSE NoTimer]
Takeover == Act(takeover(Loaded))

(* The rider approves another guardian.                                    *)
ApproveGuardian(g) ==
  /\ g # room.guardian
  /\ Act([Loaded EXCEPT !.guardian = g, !.assignment = @ + 1, !.guardMode = "human",
                        !.nextCheckIn = CheckInEvery, !.aiNextCheckIn = NoTimer])

SetAssistance(on) ==
  /\ on # room.assistance
  /\ Act([Loaded EXCEPT !.assistance = on,
             !.aiNextCheckIn = IF on /\ Loaded.guardMode = "ai" THEN AiCheckInEvery ELSE @])

(* Arrival or cancellation.                                                *)
Close == Act([Loaded EXCEPT !.open = FALSE, !.nextCheckIn = NoTimer, !.aiNextCheckIn = NoTimer])

(* scrubUser: the guardian's account is deleted.                           *)
DeleteGuardian ==
  /\ room.guardian # NoOne
  /\ Act(takeover([endPersonalAgent([room EXCEPT !.fresh = {}], FALSE) EXCEPT !.guardian = NoOne]))

(* The location grows stale or a relay runs out: evidence changes with the *)
(* clock, and nobody is woken for it.                                      *)
EvidenceAges == /\ room.fresh # {} /\ inputs < MaxInputs /\ inputs' = inputs + 1
                /\ room' = [room EXCEPT !.fresh = {}] /\ UNCHANGED alarm /\ Unasked

Suspend == /\ suspended' = ~suspended /\ inputs < MaxInputs /\ inputs' = inputs + 1
           /\ UNCHANGED <<room, alarm, call, held, given, silence>>

(***************************************************************************)
(* setDelegation.                                                          *)
(***************************************************************************)
Request ==
  LET r == reconcile(room)
  IN /\ r.open /\ r.guardian # NoOne /\ r.assistance /\ ~r.help
     /\ ~personalAgentLive(r) /\ r.delegations < MaxDelegations
     /\ Stored([r EXCEPT !.status = "requested", !.delegations = @ + 1, !.owner = r.guardian,
                         !.granted = r.assignment, !.expires = Authorization, !.lastSeen = NoTimer])
     /\ Unasked /\ UNCHANGED inputs
Approve ==
  LET r == reconcile(room)
  IN /\ r.status = "requested"
     /\ Stored([r EXCEPT !.status = "approved"]) /\ Unasked /\ UNCHANGED inputs
Revoke ==
  LET r == reconcile(room)
  IN personalAgentLive(r) /\ Stored(endPersonalAgent(r, FALSE)) /\ Unasked /\ UNCHANGED inputs

(* Each connection supersedes the one before; its token leaves the server *)
(* only if it is still the stored one after the alarm was set.             *)
Connect ==
  LET r == reconcile(room)
  IN /\ r.status = "approved" /\ r.tokens < MaxTokens
     /\ Stored([r EXCEPT !.token = r.tokens + 1, !.tokens = @ + 1]) /\ Unasked /\ UNCHANGED inputs
HandOver ==
  /\ room.token # 0 /\ room.guardian = room.owner
  /\ held' = held \cup {room.token}
  /\ UNCHANGED <<room, alarm, call, given, suspended, inputs, silence>>

(***************************************************************************)
(* personalAgentOperation.                                                 *)
(***************************************************************************)
mayAct(r, c) == c.token = r.token /\ personalAgentLive(r) /\ r.guardian = r.owner

(* authorizePersonalAgent up to the answer of governance.                  *)
Ask(t, op, j, f) ==
  /\ call = NoCall /\ mayAct(reconcile(room), [token |-> t]) /\ Refused
  /\ call' = [stage |-> "asked", token |-> t, op |-> op, job |-> j, followUp |-> f,
              restricted |-> suspended]
  /\ UNCHANGED <<held, given, suspended, inputs, silence>>

(* The operation itself; {} when it is refused.                            *)
answers(r, c) == c.op = "assess" /\ r.job = c.job /\ c.job \in r.fresh
performed(r, c) ==
  IF c.op = "release" THEN {endPersonalAgent(r, FALSE)}
  ELSE IF c.op = "accept" /\ r.status = "approved"
  THEN {[r EXCEPT !.status = "connecting", !.lastSeen = Connectivity, !.nextJob = 0,
                  !.deadline = sooner(r.expires, Response), !.aiNextCheckIn = NoTimer, !.fresh = {}]}
  ELSE IF ~personalAgentConnected(r) THEN {}
  ELSE IF c.op = "heartbeat" THEN {[r EXCEPT !.lastSeen = Connectivity]}
  ELSE IF answers(r, c)
  THEN {[r EXCEPT !.status = "active", !.guardMode = "ai", !.nextCheckIn = NoTimer,
                  !.aiNextCheckIn = NoTimer, !.job = 0, !.deadline = NoTimer,
                  !.nextJob = sooner(r.expires, c.followUp), !.done = @ \cup {c.job}]}
  ELSE IF c.op = "assess" => c.job \in r.done \cap r.fresh THEN {r}
  ELSE {}

(* Both reads are repeated before anything is done: hashing and governance *)
(* yield.  A suspended participant ends the delegation.                    *)
Operate ==
  LET r == reconcile(room)
      done == performed(r, call)
  IN /\ call.stage = "asked"
     /\ CASE ~mayAct(r, call) -> Refused /\ call' = NoCall /\ UNCHANGED silence
          [] mayAct(r, call) /\ call.restricted ->
               /\ room' = save(endPersonalAgent(r, FALSE)) /\ UNCHANGED <<alarm, silence>>
               /\ call' = NoCall
          [] mayAct(r, call) /\ ~call.restricted /\ done = {} ->
               Refused /\ call' = NoCall /\ UNCHANGED silence
          [] OTHER ->
               /\ \E s \in done : Stored(s)
               /\ call' = IF call.op = "release" THEN NoCall ELSE [call EXCEPT !.stage = "performed"]
               /\ silence' = IF answers(r, call) \/ (call.op = "accept" /\ r.status = "approved")
                             THEN 0 ELSE silence
     /\ UNCHANGED <<held, given, suspended, inputs>>

(* The caller is authorized again before it is answered.                   *)
AskAgain == /\ call.stage = "performed"
            /\ call' = [call EXCEPT !.stage = "asked again", !.restricted = suspended]
            /\ UNCHANGED <<room, alarm, held, given, suspended, inputs, silence>>
\* Mutant: the context is returned on the strength of the first check.
AnswerAtOnce ==
  /\ call.stage = "asked again" /\ call' = NoCall
  /\ given' = IF room.job # 0 THEN given \cup {room.job} ELSE given
  /\ UNCHANGED <<room, alarm, held, suspended, inputs, silence>>

Answer ==
  LET r == reconcile(room)
      allowed == mayAct(r, call)
  IN /\ call.stage = "asked again" /\ call' = NoCall
     /\ room' = IF allowed /\ call.restricted THEN save(endPersonalAgent(r, FALSE)) ELSE r
     /\ given' = IF allowed /\ ~call.restricted /\ call.op # "heartbeat" /\ r.job # 0
                 THEN given \cup {r.job} ELSE given
     /\ UNCHANGED <<alarm, held, suspended, inputs, silence>>

(* The network or the runtime drops a call.                                *)
Drop == call # NoCall /\ call' = NoCall /\ UNCHANGED <<room, alarm, held, given, suspended, inputs, silence>>

(***************************************************************************)
(* The alarm and the clock.                                                *)
(***************************************************************************)
woken ==
  LET r == reconcile(room)
      t == IF r.guardMode = "human" /\ r.nextCheckIn = 0 THEN takeover(r) ELSE r
  IN IF ~r.open THEN r
     ELSE IF ~personalAgentConnected(t) /\ t.guardMode = "ai" /\ t.assistance /\ t.aiNextCheckIn = 0
     THEN [t EXCEPT !.aiNextCheckIn = AiCheckInEvery] ELSE t
AlarmFires == alarm = 0 /\ Stored(woken) /\ Unasked /\ UNCHANGED inputs

(* The platform runs a due alarm; one that has nothing left to do comes   *)
(* back after a tenth of a second, which is no time here.                  *)
Elapse(t) == IF t > 0 THEN t - 1 ELSE t
Tick ==
  /\ room.open /\ (alarm = 0 => save(woken) = room)
  /\ room' = [room EXCEPT !.nextCheckIn = Elapse(@), !.aiNextCheckIn = Elapse(@), !.expires = Elapse(@),
                          !.lastSeen = Elapse(@), !.deadline = Elapse(@), !.nextJob = Elapse(@)]
  /\ alarm' = Elapse(alarm)
  /\ silence' = IF personalAgentConnected(room) THEN silence + 1 ELSE 0
  /\ UNCHANGED <<call, held, given, suspended, inputs>>

Participants == \/ RiderSpeaks \/ RiderCheckIn \/ Help \/ GuardianCheckIn \/ Resume \/ Takeover
                \/ (\E g \in Guardians : ApproveGuardian(g))
                \/ (\E on \in BOOLEAN : SetAssistance(on))
                \/ Close \/ DeleteGuardian \/ EvidenceAges \/ Suspend
                \/ Request \/ Approve \/ Revoke \/ Connect \/ HandOver
Runtime == \/ \E t \in held, op \in Operations \ {"assess"} : Ask(t, op, 0, 0)
           \/ \E t \in held, j \in given, f \in FollowUps : Ask(t, "assess", j, f)
           \/ Operate \/ AskAgain \/ Answer \/ Drop
Next == Participants \/ Runtime \/ AlarmFires \/ Tick

Spec == Init /\ [][Next]_vars

-----------------------------------------------------------------------------
TypeOK ==
  /\ room.open \in BOOLEAN /\ room.guardian \in Guardians \cup {NoOne}
  /\ room.status \in {"requested", "approved", "connecting", "active", "ended"}
  /\ {room.nextCheckIn, room.aiNextCheckIn, room.lastSeen, room.deadline, room.nextJob, alarm} \subseteq Timer
  /\ room.fresh \subseteq room.done \cup {room.job} /\ given \subseteq 1..room.jobs
  /\ held \subseteq 1..room.tokens

(* Connectivity alone and new input never keep coverage: a connected       *)
(* runtime has given a valid answer, or was accepted, no longer ago than   *)
(* the follow-up it proposed and the time to respond.                      *)
SilenceEndsCoverage ==
  personalAgentConnected(room) => \E f \in FollowUps : silence <= f + Response

(* Some handlers save without setting the alarm; no deadline is missed.    *)
AlarmNeverLate == \A t \in Deadlines(room) : alarm # NoTimer /\ alarm <= t

(* Whoever the coverage passes to, somebody has a deadline: the guardian's *)
(* check-in, the scheduled check of the server, or the runtime's answer;   *)
(* and the object wakes up for it.                                         *)
SomebodyIsDue ==
  AlarmNeverLate /\ (room.open /\ room.assistance =>
    \/ room.guardMode = "human" /\ room.nextCheckIn # NoTimer
    \/ room.guardMode = "ai" /\ room.aiNextCheckIn # NoTimer
    \/ personalAgentConnected(room) /\ (room.deadline # NoTimer \/ room.nextJob # NoTimer))

(* Context reaches a runtime only while its delegation stands.             *)
ContextStaysWithin ==
  [][given' # given => /\ authorized(room') /\ personalAgentConnected(room')
                       /\ call.token = room'.token]_vars
=============================================================================
