------------------------------- MODULE MCAgent -------------------------------
(***************************************************************************)
(* For TLC: the runs of AgentHarness, or one paid request by itself; and   *)
(* what AgentProofs proves about handoffs and assessments,                 *)
(* evaluated on all small contexts.                                        *)
(***************************************************************************)
EXTENDS AgentHarness, PaidRequest

CONSTANT NoContext
VARIABLE scene

(* Executors differ in nothing but their names.                            *)
Interchangeable == Permutations(Executors)

(* Two identifiers, of which either may stand for two different things,    *)
(* and four times of which the last is in the future.                      *)
EvidenceIds == 1..2
EvidenceWindow == 1
P == INSTANCE AgentPlan WITH Ids <- EvidenceIds, Texts <- 1..3, redacted <- <<1, 2, 1>>, Window <- EvidenceWindow,
                             NoContext <- NoContext, Persons <- {"rider", "guardian", "former"}, Nobody <- "nobody",
                             concernPattern <- {2}, urgentPattern <- {}, okayPattern <- {1}, StaleAfter <- 2, RelayLasts <- 2, NoticeEvery <- 1

UpTo(S, n) == UNION {[1..k -> S] : k \in 0..n}
Messages == [id : EvidenceIds, at : {0, 1, 3}, role : {"rider", "guardian"}, text : {3}]
Concerns == [id : EvidenceIds, observedAt : {0, 3}, receivedAt : {1}, text : {3}]
Notices == [id : {1}, status : {"sent"}]
Contexts == [now : {2}, monitored : {FALSE}, location : [updatedAt : {2, 3}, stale : {FALSE}],
             messages : UpTo(Messages, 2), unresolvedConcerns : UpTo(Concerns, 1), notifications : UpTo(Notices, 1)]
StepsOf(c) == UpTo([id : EvidenceIds, tool : {"get_journey_context", "send_check_in"}, at : {2}, status : {"pending", "succeeded"},
                    result : {"none", "effect"}, context : {c, NoContext}], 1)

ASSUME HandoffIsAccepted ==
  \A c \in Contexts : \A steps \in StepsOf(c) : P!agentHandoffSchema(P!buildAgentHandoff(steps, c))

(* One finding or one question at a time: the judgement asks nothing of    *)
(* two together but their number.                                          *)
Assessments ==
  LET cites == {ids \in SUBSET P!SourceIds : Cardinality(ids) <= 2}
      silent == [kind |-> "none", sourceIds |-> {}]
  IN [findings : {{f} : f \in [kind : {"concern", "conflict"}, sourceIds : cites]}, question : {silent}]
     \cup [findings : {{}}, question : [kind : {"location_update", "companionship", "other"}, sourceIds : cites]]
ASSUME ValidInBetween ==
  \A c \in Contexts, a \in Assessments :
    LET valid == {n \in 0..4 : P!validateSemanticAssessment(a, c, n)}
    IN \A first, last \in valid : first..last \subseteq valid

(* What is proposed and said, on a journey with two messages of anybody.    *)
Said == [id : {1}, at : {0, 1, 2, 3}, role : {"rider"}, text : {1, 2}]
Seen(risk, updatedAt) ==
  [now |-> 2, monitored |-> TRUE, risk |-> risk, location |-> [updatedAt |-> updatedAt, stale |-> FALSE], relayOpen |-> FALSE,
   notifications |-> <<>>, contactAvailable |-> TRUE, escalationCause |-> "none", notificationAuthorized |-> TRUE]
ASSUME ReassuranceYields ==
  \A messages \in UpTo(Said, 2), concerns \in UpTo(Concerns, 1), risk \in {"normal", "urgent"} :
    LET c == Seen(risk, 2) @@ [messages |-> messages, unresolvedConcerns |-> concerns]
    IN \A trigger \in P!Triggers : P!renderAgentCheckIn(trigger, c).wording = "reassurance" =>
         /\ concerns = <<>> /\ risk # "urgent"
         /\ \E i \in DOMAIN messages :
              /\ messages[i].text = 1 /\ messages[i].at \in 1..2
              /\ \A k \in DOMAIN messages : messages[k].text = 2 /\ messages[k].at <= 2 => messages[k].at < messages[i].at

Trips == [status : {"active", "cancelled"}, guardMode : {"ai", "human"}, risk : {"normal", "urgent"}, demo : BOOLEAN,
          rider : {"rider"}, guardian : {"guardian"}, locatedAt : {0, 2}, messages : {<<>>}, relayUntil : {0, 2, 4},
          notifications : UpTo(Notices, 1), contact : BOOLEAN, cause : {"explicit_help", "user_authorized_timeout_policy", "none"},
          automatedCheckIns : {TRUE}, timeoutContact : BOOLEAN, concerns : {<<>>}, aiConsent : {{}}, guardianRequests : {{"former"}},
          lastNotificationAt : {0}, assessedBy : {"rules"}, followUpAt : {P!Unset, 3}, aiNextCheckInAt : {P!Unset}]
HasRead(c) == [id |-> 1, tool |-> "get_journey_context", at |-> 1, status |-> "succeeded", result |-> "other", context |-> c]
Tried(tool) == [id |-> 2, tool |-> tool, at |-> 2, status |-> "rejected", result |-> "refused", context |-> NoContext]
Asked == {"send_check_in", "request_human_relay", "notify_trusted_contact", "schedule_follow_up"}
Running == [local |-> FALSE, usable |-> TRUE, messageId |-> 2, text |-> 3, delay |-> 2]
ASSUME NothingProposedIsRefused ==
  \A j \in Trips : \A trigger \in P!Triggers, tried \in UpTo(Asked, 2) :
    LET before == P!agentContext([j EXCEPT !.relayUntil = 0, !.locatedAt = 1], 1)
        now == P!agentContext(j, 2)
        steps == <<HasRead(before)>> \o [i \in DOMAIN tried |-> Tried(tried[i])]
        proposed == {P!nextMockDecision(trigger, steps)} \cup
                    {P!nextSemanticDecision(trigger, steps, [question |-> [kind |-> kind], requestRelay |-> TRUE], now) : kind \in {"none", "other"}}
    IN now.monitored /\ ~P!agentContextChanged(before, now) =>
         \A tool \in proposed \ {"complete"} :
           /\ tool \notin P!attempted(steps)
           /\ P!executeAgentTool(j, tool, steps, Running, 2).code \notin P!Refusals \cup {"notification_already_exists"}

Conversations == UpTo([id : EvidenceIds, at : {1}, role : {"rider", "guardian"}, sender : {"rider", "guardian", "former"}, text : {3}], 2)
ASSUME CitesOnlyConsenting ==
  \A messages \in Conversations, concerns \in UpTo([id : {1}, observedAt : {0}, receivedAt : {1}, text : {3}], 1),
     consent \in SUBSET {"rider", "guardian"} :
    LET j == [(CHOOSE t \in Trips : t.status = "active" /\ t.guardMode = "ai")
                EXCEPT !.messages = messages, !.concerns = concerns, !.aiConsent = consent \cup {"former"}]
        c == P!liveAiContext(j, P!agentContext(j, 2))
    IN \A a \in Assessments : P!validateSemanticAssessment(a, c, 2) =>
         \A id \in P!citedBy(a) :
           /\ id[1] = "message" => \E i \in DOMAIN messages : messages[i].id = id[2] /\ messages[i].sender \in consent
           /\ id[1] = "concern" => "rider" \in consent

ASSUME SummaryClaimsReceipts ==
  \A steps \in UpTo([id : EvidenceIds, tool : {"notify_trusted_contact", "request_human_relay"}, at : {2},
                    status : {"pending", "succeeded", "rejected"}, result : {"none", "refused", "effect"}, context : {NoContext}], 2) :
    LET s == P!renderAgentSummary(steps, Seen("normal", 2) @@ [messages |-> <<>>, unresolvedConcerns |-> <<>>])
        done(tool) == \E i \in DOMAIN steps : steps[i].tool = tool /\ P!succeeded(steps[i])
    IN /\ s.contact = "receipt recorded" => done("notify_trusted_contact")
       /\ s.relay = "request_human_relay" => done("request_human_relay")
       /\ s.succeeded + s.rejected + s.unconfirmed = Cardinality({steps[i].id : i \in DOMAIN steps})

ASSUME RenderingsFit ==
  /\ \A n \in 0..8 : \A fixed \in {0, P!HeaderLength + P!FooterLength + n * (P!SourceLength + 1)} :
       P!renderSemanticHandoff(n, fixed) <= P!HandoffLimit
  /\ \A prefix \in 0..P!QuestionLength, a \in Assessments : P!renderSemanticQuestion(a.question, prefix) <= P!CheckInLimit

-----------------------------------------------------------------------------
Scenes == scene \in {"runs", "request"} /\ RequestInit /\ Init
MCNext == /\ UNCHANGED scene
          /\ \/ scene = "runs" /\ Next /\ UNCHANGED requestVars
             \/ scene = "request" /\ RequestNext /\ UNCHANGED vars
MCSpec == Scenes /\ [][MCNext]_<<vars, requestVars, scene>>
=============================================================================
