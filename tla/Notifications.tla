--------------------------- MODULE Notifications ---------------------------
(***************************************************************************)
(* The trusted contact's notifications on one journey: queueNotification,  *)
(* deliverNotifications and acknowledge of src/worker/src/trips.ts, with   *)
(* the authority they are sent under (assistance.ts).  Every handler and   *)
(* the alarm end by delivering, so several deliverers are at work; an      *)
(* action is what one does between two awaits, a restart loses them all.   *)
(* The rider has consented to a contact, which never changes later.        *)
(***************************************************************************)
EXTENDS Integers, Sequences, FiniteSets

CONSTANTS
  Deliverers,     \* calls of deliverNotifications under way
  MaxAttempts,    \* sends of a notification that are answered with a failure: 3
  MissedAllowed,  \* unanswered check-ins before the contact is told: 2
  MaxActs,        \* bound: what the participants and the alarm do
  MaxFailures,    \* bound: answers of the provider that are failures
  MaxRestarts     \* bound

VARIABLES
  room,    \* the part of trip_state involved
  send,    \* what each deliverer is waiting for
  reached, \* history: the notifications for which a request left
  acts, failures, restarts

vars == <<room, send, reached, acts, failures, restarts>>

Idle == [at |-> "idle"]

(* Timeout authority is lost when the rider answers, human monitoring      *)
(* resumes or the policy is withdrawn; explicit help keeps its own.        *)
notificationAuthorized(r, cause) ==
  \/ cause = "help"
  \/ cause = "timeout" /\ r.cause = cause /\ r.monitored /\ r.policy

(* recent: less than thirty seconds since the last one was queued.         *)
queueNotification(r) ==
  IF notificationAuthorized(r, r.cause) /\ ~r.recent
  THEN [r EXCEPT !.recent = TRUE,
                 !.notices = Append(@, [cause |-> r.cause, status |-> "queued", job |-> TRUE,
                                        attempts |-> 0, held |-> FALSE])]
  ELSE r

Init ==
  /\ room = [open |-> TRUE, monitored |-> TRUE, policy |-> TRUE, cause |-> "none", missed |-> 0,
             escalated |-> FALSE, recent |-> FALSE, notices |-> <<>>]
  /\ send = [d \in Deliverers |-> Idle] /\ reached = {} /\ acts = 0 /\ failures = 0 /\ restarts = 0

(***************************************************************************)
(* Participants, the alarm and the clock.                                  *)
(***************************************************************************)
Acts(r) == /\ acts < MaxActs /\ acts' = acts + 1 /\ room.open /\ room' = r
           /\ UNCHANGED <<send, reached, failures, restarts>>
answered(r) == [r EXCEPT !.missed = 0, !.escalated = FALSE, !.cause = IF @ = "timeout" THEN "none" ELSE @]

CheckIn == Acts(answered(room))
(* A worrying message is a concern, which authorizes nothing.              *)
Concern == room.cause # "help" /\ Acts([answered(room) EXCEPT !.cause = "concern"])
Help == Acts(queueNotification([room EXCEPT !.cause = "help"]))
Resume == room.monitored /\ Acts([room EXCEPT !.monitored = FALSE])
Takeover == ~room.monitored /\ Acts([room EXCEPT !.monitored = TRUE, !.missed = 0])
SetAssistance == Acts([room EXCEPT !.policy = ~@])
Close == Acts([room EXCEPT !.open = FALSE])
(* The alarm finds a check-in unanswered.                                  *)
Missed ==
  LET r == [room EXCEPT !.missed = IF @ < MissedAllowed THEN @ + 1 ELSE @]
      escalates == r.missed >= MissedAllowed /\ ~r.escalated /\ r.policy
  IN room.monitored /\ Acts(IF escalates
       THEN queueNotification([r EXCEPT !.escalated = TRUE, !.cause = IF @ = "help" THEN @ ELSE "timeout"])
       ELSE r)
QuietEnds == /\ room.recent /\ room' = [room EXCEPT !.recent = FALSE]
             /\ UNCHANGED <<send, reached, acts, failures, restarts>>

(***************************************************************************)
(* A deliverer.  A job is held for thirty seconds; whoever finds the hold  *)
(* ended may pick it up again.                                             *)
(***************************************************************************)
Delivers(d, w) == send' = [send EXCEPT ![d] = w]
Elsewhere == UNCHANGED <<acts, restarts>>
gone(notice, status) == [notice EXCEPT !.status = status, !.job = FALSE, !.held = FALSE, !.attempts = 0]
drop(r, n) == [r EXCEPT !.notices[n] = gone(@, "failed")]

\* Mutant: a job once begun is left to whoever began it.
dueFirst(notice) == notice.job /\ ~notice.held /\ notice.attempts = 0

due(notice) == notice.job /\ ~notice.held
PickUp(d, n) ==
  /\ send[d] = Idle /\ room.open /\ n \in DOMAIN room.notices /\ due(room.notices[n])
  /\ IF notificationAuthorized(room, room.notices[n].cause)
     THEN /\ room' = [room EXCEPT !.notices[n].attempts = @ + 1, !.notices[n].held = TRUE]
          /\ Delivers(d, [at |-> "waking", notice |-> n])
     ELSE room' = drop(room, n) /\ UNCHANGED send
  /\ UNCHANGED <<reached, failures>> /\ Elsewhere
(* Unsent jobs end with the journey.                                       *)
Abandon(d) ==
  /\ send[d] = Idle /\ ~room.open /\ \E n \in DOMAIN room.notices : room.notices[n].job
  /\ room' = [room EXCEPT !.notices = [n \in DOMAIN @ |->
               gone(@[n], IF @[n].status = "queued" THEN "failed" ELSE @[n].status)]]
  /\ UNCHANGED <<send, reached, failures>> /\ Elsewhere

\* Mutant: what was checked before the alarm was set is not checked again.
DispatchPicked(d) ==
  /\ send[d].at = "waking" /\ room.notices[send[d].notice].job
  /\ reached' = reached \cup {send[d].notice} /\ Delivers(d, [send[d] EXCEPT !.at = "sending"])
  /\ UNCHANGED <<room, failures>> /\ Elsewhere

(* The alarm that would repeat the delivery is set: look again, and send.  *)
Dispatch(d) ==
  LET n == send[d].notice IN
  /\ send[d].at = "waking"
  /\ IF ~room.open \/ ~room.notices[n].job THEN UNCHANGED <<room, reached>> /\ Delivers(d, Idle)
     ELSE IF ~notificationAuthorized(room, room.notices[n].cause)
     THEN room' = drop(room, n) /\ UNCHANGED reached /\ Delivers(d, Idle)
     ELSE UNCHANGED room /\ reached' = reached \cup {n} /\ Delivers(d, [send[d] EXCEPT !.at = "sending"])
  /\ UNCHANGED failures /\ Elsewhere

settle(notice, ok) == IF notice.status = "acknowledged" THEN notice
                      ELSE [notice EXCEPT !.status = IF ok THEN "sent" ELSE "failed"]
(* A failed request is repeated; the provider knows it again by its id.    *)
Delivered(d, ok) ==
  LET n == send[d].notice
      again == ~ok /\ room.notices[n].job /\ room.notices[n].attempts < MaxAttempts
  IN /\ send[d].at = "sending" /\ Delivers(d, Idle)
     /\ ok \/ failures < MaxFailures
     /\ failures' = IF ok THEN failures ELSE failures + 1
     /\ room' = [room EXCEPT !.notices[n] = LET s == settle(@, ok) IN
                  IF again THEN [s EXCEPT !.held = FALSE] ELSE gone(s, s.status)]
     /\ UNCHANGED reached /\ Elsewhere
HoldEnds(n) == /\ n \in DOMAIN room.notices /\ room.notices[n].held
               /\ room' = [room EXCEPT !.notices[n].held = FALSE]
               /\ UNCHANGED <<send, reached, failures>> /\ Elsewhere
(* The provider reports that the recipient has seen it.                    *)
Acknowledge(n) ==
  /\ n \in reached /\ room.notices[n].status # "acknowledged"
  /\ room' = [room EXCEPT !.notices[n] = gone(@, "acknowledged")]
  /\ UNCHANGED <<send, reached, failures>> /\ Elsewhere
Restart == /\ restarts < MaxRestarts /\ restarts' = restarts + 1
           /\ send' = [d \in Deliverers |-> Idle] /\ UNCHANGED <<room, reached, acts, failures>>

People == CheckIn \/ Concern \/ Help \/ Resume \/ Takeover \/ SetAssistance \/ Close \/ Missed \/ QuietEnds
Carries(d) == \/ Abandon(d) \/ Dispatch(d)
              \/ \E n \in DOMAIN room.notices : PickUp(d, n)
              \/ \E ok \in BOOLEAN : Delivered(d, ok)
Next == \/ People \/ Restart
        \/ \E d \in Deliverers : Carries(d)
        \/ \E n \in DOMAIN room.notices : HoldEnds(n) \/ Acknowledge(n)
(* A call runs on, and the alarm, set to the end of every hold, delivers.  *)
Fairness == /\ \A d \in Deliverers : WF_vars(Carries(d))
            /\ WF_vars(\E n \in DOMAIN room.notices : HoldEnds(n))
Spec == Init /\ [][Next]_vars /\ Fairness

-----------------------------------------------------------------------------
(* A request to the contact leaves only on an authority that holds then.   *)
SentWithAuthority ==
  [][\A d \in Deliverers : send[d].at # "sending" /\ send'[d].at = "sending" =>
       room.open /\ notificationAuthorized(room, room.notices[send'[d].notice].cause)]_vars

(* What the recipient is reported to have seen stays so: a late answer of  *)
(* an overlapping or repeated send neither hides it nor sends it again.    *)
AcknowledgedStays ==
  [][\A n \in DOMAIN room.notices : room.notices[n].status = "acknowledged" =>
       /\ room'.notices[n].status = "acknowledged" /\ ~room'.notices[n].job
       /\ \A d \in Deliverers : send'[d] # send[d] /\ send'[d] # Idle => send'[d].notice # n]_vars

(* A queued notification is eventually sent, given up or without authority.*)
waiting(n) == n \in DOMAIN room.notices /\ room.notices[n].job
EventuallyCarried == \A n \in 1..MaxActs : waiting(n) ~> ~waiting(n)

(* AI_DESIGN.md:111, "Run the help workflow immediately without waiting    *)
(* for a model": while help is asked for, the contact has been told, is    *)
(* being told, or still will be; or telling them of the help failed.       *)
HelpIsPassedOn ==
  room.open /\ room.cause = "help" =>
    \E n \in DOMAIN room.notices :
      \/ room.notices[n].cause = "help" \/ room.notices[n].status \in {"sent", "acknowledged"}
      \/ \E d \in Deliverers : send[d].at = "sending" /\ send[d].notice = n
      \/ waiting(n) /\ notificationAuthorized(room, room.notices[n].cause)
=============================================================================
