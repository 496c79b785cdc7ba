------------------------------ MODULE AgentPlan ------------------------------
(***************************************************************************)
(* What automated assistance does next and says: the two planners          *)
(* (nextMockDecision of src/worker/src/agent.ts, nextSemanticDecision of   *)
(* ai-runtime.ts), the executor's refusals (executeAgentTool of trips.ts), *)
(* the choice among fixed wordings, and what of a journey is shown to a    *)
(* planner (agentContext) and to a paid model (liveAiContext).             *)
(*                                                                         *)
(* Functions of the journey and of a run's steps.  A wording is its name;  *)
(* the patterns by which rules read a text are sets of texts.              *)
(***************************************************************************)
EXTENDS AgentEvidence

CONSTANTS
  Persons, Nobody,
  concernPattern, urgentPattern, okayPattern,  \* the texts each matches
  StaleAfter,  \* a location is stale after 120 s
  RelayLasts,  \* ten minutes
  NoticeEvery  \* one notice in thirty seconds

Causes == {"explicit_help", "user_authorized_timeout_policy", "model_concern", "none"}
Modes == {"rules", "openai", "codex_local"}
Unset == -1   \* no time was set
Triggers == {"takeover", "rider-message", "follow-up", "stale-location", "notification-failure", "codex-import"}

(* The part of trip_state involved.  A message remembers who sent it;      *)
(* contact: the rider named one and consents to notices; relayUntil: 0 if  *)
(* nobody is recruited; assessedBy: what wrote its last assessment.         *)
Trip == [status : {"open", "active", "arrived", "cancelled"}, guardMode : {"waiting", "human", "ai"},
         risk : {"normal", "attention", "urgent"}, demo : BOOLEAN, rider : Persons, guardian : Persons \cup {Nobody},
         locatedAt : Nat, messages : Seq([id : Ids, at : Nat, role : {"rider", "guardian", "agent", "system"},
                                       sender : Persons \cup {Nobody}, text : Texts]),
         relayUntil : Nat, guardianRequests : SUBSET Persons, notifications : Seq(Notification), lastNotificationAt : Nat,
         contact : BOOLEAN, cause : Causes, automatedCheckIns : BOOLEAN, timeoutContact : BOOLEAN,
         concerns : ListOf(Concern, "concerns"), aiConsent : SUBSET Persons, assessedBy : Modes,
         followUpAt : Nat \cup {Unset}, aiNextCheckInAt : Nat \cup {Unset}]

notificationAuthorized(j) ==
  /\ j.contact
  /\ \/ j.cause = "explicit_help"
     \/ j.cause = "user_authorized_timeout_policy" /\ j.guardMode = "ai" /\ j.automatedCheckIns /\ j.timeoutContact

(***************************************************************************)
(* What is shown.                                                          *)
(***************************************************************************)
latest(s, n) == SubSeq(s, IF Len(s) > n THEN Len(s) - n + 1 ELSE 1, Len(s))
shown(m) == [id |-> m.id, at |-> m.at, role |-> m.role, text |-> redacted[m.text]]
shownAll(s) == [i \in DOMAIN s |-> shown(s[i])]
concernsShown(s) == [i \in DOMAIN s |-> [s[i] EXCEPT !.text = redacted[@]]]

agentContext(j, now) ==
  [now |-> now, monitored |-> j.status = "active" /\ j.guardMode = "ai", risk |-> j.risk,
   location |-> [updatedAt |-> j.locatedAt, stale |-> now - j.locatedAt >= StaleAfter \/ j.locatedAt > now],
   messages |-> shownAll(latest(j.messages, 12)), relayOpen |-> j.relayUntil > now,
   notifications |-> latest(j.notifications, 5), contactAvailable |-> j.contact, escalationCause |-> j.cause,
   notificationAuthorized |-> notificationAuthorized(j), unresolvedConcerns |-> j.concerns]

(* A run goes on, and its steps with it, as long as this stays the same.   *)
noticed(c) == [i \in DOMAIN c.notifications |-> <<c.notifications[i].id, c.notifications[i].status>>]
agentContextChanged(before, after) ==
  \/ before.location.stale # after.location.stale \/ before.risk # after.risk
  \/ before.contactAvailable # after.contactAvailable \/ before.notificationAuthorized # after.notificationAuthorized
  \/ before.escalationCause # after.escalationCause \/ noticed(before) # noticed(after)

(* A paid model is shown the latest that consenting participants said, as  *)
(* a function of the places where they said it.                            *)
participantAiConsent(j, p) == p \in j.aiConsent
speaks(j, m) == /\ \/ m.role = "rider" /\ m.sender = j.rider
                   \/ m.role = "guardian" /\ m.sender = j.guardian
                /\ participantAiConsent(j, m.sender)
spoken(j) == {i \in DOMAIN j.messages : speaks(j, j.messages[i])}
liveAiContext(j, c) ==
  [c EXCEPT !.messages = [i \in {k \in spoken(j) : Cardinality({l \in spoken(j) : l >= k}) <= 12} |-> shown(j.messages[i])],
            !.unresolvedConcerns = IF participantAiConsent(j, j.rider) THEN concernsShown(@) ELSE <<>>]

(***************************************************************************)
(* What is said.                                                           *)
(***************************************************************************)
recentRiderMessages(c) == {m \in ElementsOf(c.messages) : m.role = "rider" /\ m.at <= c.now /\ c.now - m.at <= Window}
tied(c) == {m \in recentRiderMessages(c) : \A n \in recentRiderMessages(c) : n.at <= m.at}
says(c, pattern) == \E m \in tied(c) : m.text \in pattern
concerned(c) == c.unresolvedConcerns # <<>> \/ says(c, concernPattern)
urgent(c) == c.risk = "urgent" \/ says(c, urgentPattern)
notificationStatus(c) == IF c.notifications = <<>> THEN "none" ELSE c.notifications[Len(c.notifications)].status

(* Of the wordings that apply the first is used.  What is known of a       *)
(* notice's delivery is told in the wording, or else added to it.          *)
wordings(trigger, c) ==
  << <<"notification", trigger = "notification-failure">>,
     <<"help requested", c.escalationCause = "explicit_help">>,
     <<"deadline reached", c.escalationCause = "user_authorized_timeout_policy">>,
     <<"possibly urgent", urgent(c)>>,
     <<"saved concern", c.unresolvedConcerns # <<>>>>,
     <<"possibly uncertain", concerned(c)>>,
     <<"location", locationUncertain(c) \/ trigger = "stale-location">>,
     <<"reassurance", ~concerned(c) /\ ~urgent(c) /\ says(c, okayPattern)>>,
     <<"scheduled question", trigger = "follow-up">>,
     <<"question", TRUE>> >>
renderAgentCheckIn(trigger, c) ==
  LET w == wordings(trigger, c)
      first(i) == w[i][2] /\ \A k \in 1..(i - 1) : ~w[k][2]
      failed == trigger = "notification-failure"
  IN [wording |-> w[CHOOSE i \in DOMAIN w : first(i)][1],
      told |-> IF failed THEN notificationStatus(c) ELSE "none", added |-> IF failed THEN "none" ELSE notificationStatus(c),
      uncertain |-> locationUncertain(c) /\ (concerned(c) \/ urgent(c) \/ failed)]

(* The summary counts the receipts of the handoff; of the newest claims it *)
(* quotes the one whose identifier comes first.                            *)
renderAgentSummary(steps, c) ==
  LET handoff == buildAgentHandoff(steps, c)
      actions == handoff.actions
      with(status) == {i \in DOMAIN actions : actions[i].status = status}
      of(tool) == {i \in DOMAIN actions : steps[i].tool = tool}
      first(S) == actions[CHOOSE i \in S : \A k \in S : i <= k]
  IN [succeeded |-> Cardinality(with("succeeded")), rejected |-> Cardinality(with("rejected")),
      unconfirmed |-> Cardinality(with("unconfirmed")),
      location |-> handoff.location, concerns |-> handoff.unresolvedConcerns, claim |-> tied(c),
      contact |-> IF of("notify_trusted_contact") = {} THEN notificationStatus(c)
                  ELSE IF first(of("notify_trusted_contact")).status = "succeeded" THEN "receipt recorded" ELSE "not confirmed",
      relay |-> IF of("request_human_relay") # {} THEN first(of("request_human_relay")).summary
                ELSE IF c.relayOpen THEN "open" ELSE "not open"]

(***************************************************************************)
(* What is done: a planner proposes the first of its tools that the run    *)
(* has not attempted, whatever came of the others.                         *)
(***************************************************************************)
ToolOrder == <<"send_check_in", "request_human_relay", "notify_trusted_contact", "schedule_follow_up">>
attempted(steps) == {steps[i].tool : i \in DOMAIN steps}
nextOf(proposed, steps) ==
  LET left == {i \in DOMAIN ToolOrder : ToolOrder[i] \in proposed \ attempted(steps)}
  IN IF left = {} THEN "complete" ELSE ToolOrder[CHOOSE i \in left : \A k \in left : i <= k]

buildPlan(trigger, c) ==
  {"send_check_in", "schedule_follow_up"}
  \cup {t \in {"request_human_relay"} : trigger \in {"takeover", "rider-message"} /\ ~c.relayOpen}
  \cup {t \in {"notify_trusted_contact"} : /\ trigger # "notification-failure" /\ c.notificationAuthorized
                                           /\ c.risk = "urgent" /\ c.contactAvailable /\ c.notifications = <<>>}

contextSteps(steps) == {i \in DOMAIN steps : steps[i].tool = "get_journey_context"}
lastRead(steps) == steps[CHOOSE i \in contextSteps(steps) : \A k \in contextSteps(steps) : k <= i]
nextMockDecision(trigger, steps) ==
  IF \E i \in DOMAIN steps : steps[i].status = "pending" THEN "throws"
  ELSE IF contextSteps(steps) = {} THEN "get_journey_context"
  ELSE LET read == lastRead(steps)
       IN IF ~succeeded(read) \/ read.context = NoContext THEN "complete"
          ELSE IF ~read.context.monitored THEN "complete"
          ELSE nextOf(buildPlan(trigger, read.context), steps)

(* asks, requestRelay: of the assessment.  The journey is read anew.       *)
nextSemanticDecision(trigger, steps, a, c) ==
  nextOf({"schedule_follow_up"} \cup {t \in {"send_check_in"} : a.question.kind # "none"}
         \cup {t \in {"request_human_relay"} : a.requestRelay /\ ~c.relayOpen /\ trigger \in {"takeover", "rider-message", "codex-import"}},
         steps)

(* The executor judges the journey as it is now, and changes it.  Of a     *)
(* run: whether its result was imported, whether canUseSemanticRun still   *)
(* holds of it, and what the server would post for it.                     *)
contextRead(steps) == \E i \in contextSteps(steps) : steps[i].status = "succeeded" /\ steps[i].context # NoContext
outcome(code, j) == [code |-> code, trip |-> j]

mode(run) == IF ~run.usable THEN "rules" ELSE IF run.local THEN "codex_local" ELSE "openai"
sendCheckIn(j, run, now) ==
  outcome("check_in_posted",
          [j EXCEPT !.messages = Append(@, [id |-> run.messageId, at |-> now, role |-> "agent", sender |-> Nobody, text |-> run.text]),
                    !.assessedBy = IF j.risk = "urgent" THEN @ ELSE mode(run)])
sooner(t, due) == IF t # Unset /\ t < due THEN t ELSE due
scheduleFollowUp(j, due) ==
  outcome("follow_up_scheduled", [j EXCEPT !.followUpAt = sooner(j.aiNextCheckInAt, sooner(@, due))])
openRelay(j, now) == IF j.demo \/ j.status # "active" \/ j.relayUntil # 0 THEN j
                     ELSE [j EXCEPT !.guardianRequests = {}, !.relayUntil = now + RelayLasts]
requestRelay(j, now) == IF j.demo THEN outcome("demo_relay", j) ELSE IF j.relayUntil > now THEN outcome("relay_already_open", j)
                        ELSE IF j.status # "active" THEN outcome("relay_unavailable", j) ELSE outcome("relay_requested", openRelay(j, now))
mayQueue(j, now) == (j.demo \/ notificationAuthorized(j)) /\ now - j.lastNotificationAt >= NoticeEvery
queueNotification(j, id, now) ==
  IF mayQueue(j, now) THEN [j EXCEPT !.lastNotificationAt = now, !.notifications = Append(@, [id |-> id, status |-> "queued"])] ELSE j
notifyContact(j, id, now) ==
  IF ~j.contact THEN outcome("consent_required", j)
  ELSE IF ~notificationAuthorized(j) THEN outcome("explicit_concern_required", j)
  ELSE IF j.notifications # <<>> THEN outcome("notification_already_exists", j)
  ELSE outcome(IF mayQueue(j, now) THEN "notification_queued" ELSE "notification_rate_limited", queueNotification(j, id, now))

executeAgentTool(j, tool, steps, run, now) ==
  IF run.local /\ (tool = "notify_trusted_contact" \/ ~run.usable) THEN outcome("local_demo_authority", j)
  ELSE IF tool # "get_journey_context" /\ ~contextRead(steps) THEN outcome("context_required", j)
  ELSE CASE tool = "get_journey_context" -> outcome("context_read", j)
         [] tool = "send_check_in" -> sendCheckIn(j, run, now)
         [] tool = "schedule_follow_up" -> scheduleFollowUp(j, now + run.delay)
         [] tool = "request_human_relay" -> requestRelay(j, now)
         [] tool = "notify_trusted_contact" -> notifyContact(j, run.messageId, now)
Refusals == {"local_demo_authority", "context_required", "relay_unavailable", "consent_required", "explicit_concern_required"}

(***************************************************************************)
(* How much is quoted: a rendering has room for what it must say, and      *)
(* quotes share the rest.  Lengths at most, for identifiers of 200         *)
(* characters and times of 27; an empty quote still has its marks.         *)
(***************************************************************************)
CheckInLimit == 600
HandoffLimit == 4000
QuestionLength == 383
QuestionSuffix == 55
HeaderLength == 361
FooterLength == 179
SourceLength == 357
quoteExcerpt(room) == IF room < 2 THEN 2 ELSE room

citedBy(a) == a.question.sourceIds \cup UNION {f.sourceIds : f \in a.findings}
quoteRoom(n, fixed) == IF (HandoffLimit - fixed) \div n < 122 THEN (HandoffLimit - fixed) \div n ELSE 122
renderSemanticHandoff(n, fixed) == IF n = 0 THEN fixed ELSE fixed + n * quoteExcerpt(quoteRoom(n, fixed))
renderSemanticQuestion(question, prefix) ==
  IF question.kind = "none" THEN 0 ELSE IF question.sourceIds = {} THEN prefix
  ELSE prefix + quoteExcerpt(CheckInLimit - prefix - QuestionSuffix) + QuestionSuffix
=============================================================================
