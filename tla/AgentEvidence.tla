---------------------------- MODULE AgentEvidence ----------------------------
(***************************************************************************)
(* What assistance may say of a journey and on which evidence: the handoff *)
(* that is built from the server's records (src/worker/src/agent.ts), the  *)
(* schema by which an archive with one is restored, and the judgement on   *)
(* what a model proposes (agent-semantic.ts).                              *)
(*                                                                         *)
(* These are functions of a context, the snapshot a decision rests on.     *)
(* Texts are opaque; a source is named by its kind and the identifier of   *)
(* its record, as in `message:${id}`; lists in which repetition is refused *)
(* and no rule looks at the order are sets.                                *)
(***************************************************************************)
EXTENDS Integers, Sequences, FiniteSets

CONSTANTS
  Ids, Texts,
  redacted,   \* redactAgentText, a function on Texts
  Window,     \* recentWindowMs: 300 000
  NoContext   \* of a step whose result has none

MaxLength(what) == CASE what = "messages" -> 12 [] what = "concerns" -> 8 [] what = "steps" -> 8 [] what = "notifications" -> 20
ListOf(S, what) == {s \in Seq(S) : Len(s) <= MaxLength(what)}

Message == [id : Ids, at : Nat, role : {"rider", "guardian", "agent", "system"}, text : Texts]
Concern == [id : Ids, observedAt : Nat, receivedAt : Nat, text : Texts]
Notification == [id : Ids, status : {"queued", "sent", "failed", "acknowledged", "simulated"}]

(* contextSchema; monitored: an active journey that the server guards.     *)
Context == [now : Nat, monitored : BOOLEAN, location : [updatedAt : Nat, stale : BOOLEAN],
            messages : ListOf(Message, "messages"), unresolvedConcerns : ListOf(Concern, "concerns"),
            notifications : ListOf(Notification, "notifications")]

(* A step's result is missing, a refusal, or success with a code that      *)
(* establishes an effect or does not.                                      *)
Step == [id : Ids, tool : {"get_journey_context", "send_check_in", "schedule_follow_up", "request_human_relay",
                           "notify_trusted_contact"},
         at : Nat, status : {"pending", "succeeded", "rejected"},
         result : {"none", "refused", "effect", "other"}, context : Context \cup {NoContext}]
Steps == ListOf(Step, "steps")

(***************************************************************************)
(* The handoff.                                                            *)
(***************************************************************************)
(* new Map(s.map(x => [x.id, x])): the last record of an identifier.       *)
kept(s) == {i \in DOMAIN s : \A j \in DOMAIN s : s[j].id = s[i].id => j <= i}

evidenceFreshness(at, now) ==
  IF at > now THEN "unverified" ELSE IF now - at <= Window THEN "recent" ELSE "older"
locationUncertain(c) == c.location.stale \/ c.location.updatedAt \notin 1..c.now
succeeded(step) == step.status = "succeeded" /\ step.result \in {"effect", "other"}

receiptSummary(step) ==
  IF step.status = "pending" \/ step.result = "none" THEN "unconfirmed"
  ELSE IF ~succeeded(step) THEN "did not succeed"
  ELSE IF step.result = "effect" THEN step.tool ELSE "no specific effect"

(* The snapshot is attributed to the step that read it, if it is the same. *)
reads(steps) == {i \in DOMAIN steps : steps[i].tool = "get_journey_context" /\ succeeded(steps[i])}
matchesRead(steps, c, i) == i \in reads(steps) /\ (\A j \in reads(steps) : j <= i) /\ steps[i].context = c
snapshotSourceId(steps, c) ==
  IF \E i \in reads(steps) : matchesRead(steps, c, i)
  THEN <<"snapshot", steps[CHOOSE i \in reads(steps) : matchesRead(steps, c, i)].id>>
  ELSE <<"snapshot", c.now>>

effects(steps) == {i \in DOMAIN steps : steps[i].tool # "get_journey_context"}
effectSteps(steps) == {i \in effects(steps) : \A j \in effects(steps) : steps[j].id = steps[i].id => j <= i}

(* Sources are listed by their place: the list they come from and where.   *)
Places(steps, c) == ({"snapshot"} \X {0}) \cup ({"message"} \X kept(c.messages))
                    \cup ({"concern"} \X kept(c.unresolvedConcerns))
                    \cup ({"tool"} \X effectSteps(steps)) \cup ({"notification"} \X kept(c.notifications))
Unknown == -1
snapshotEvidence(steps, c) ==
  [id |-> snapshotSourceId(steps, c), source |-> "journey_snapshot", actor |-> "system",
   observedAt |-> c.now, receivedAt |-> c.now, freshness |-> "recent", text |-> "snapshot"]
messageEvidence(m, now) ==
  [id |-> <<"message", m.id>>, source |-> "message", actor |-> m.role, observedAt |-> m.at, receivedAt |-> Unknown,
   freshness |-> evidenceFreshness(m.at, now), text |-> redacted[m.text]]
concernEvidence(k, now) ==
  [id |-> <<"concern", k.id>>, source |-> "retained_concern", actor |-> "rider", observedAt |-> k.observedAt,
   receivedAt |-> k.receivedAt, freshness |-> evidenceFreshness(k.observedAt, now), text |-> redacted[k.text]]
receiptEvidence(step, now) ==
  [id |-> <<"tool", step.id>>, source |-> "tool_receipt", actor |-> "system", observedAt |-> step.at,
   receivedAt |-> Unknown, freshness |-> evidenceFreshness(step.at, now), text |-> receiptSummary(step)]
noticeEvidence(n) ==
  [id |-> <<"notification", n.id>>, source |-> "notification", actor |-> "system", observedAt |-> Unknown,
   receivedAt |-> Unknown, freshness |-> "unverified", text |-> n.status]
sourceAt(steps, c, p) ==
  CASE p[1] = "snapshot" -> snapshotEvidence(steps, c)
    [] p[1] = "message" -> messageEvidence(c.messages[p[2]], c.now)
    [] p[1] = "concern" -> concernEvidence(c.unresolvedConcerns[p[2]], c.now)
    [] p[1] = "tool" -> receiptEvidence(steps[p[2]], c.now)
    [] p[1] = "notification" -> noticeEvidence(c.notifications[p[2]])

buildAgentHandoff(steps, c) ==
  [snapshotAt |-> c.now, snapshotSourceId |-> snapshotSourceId(steps, c),
   location |-> IF locationUncertain(c) THEN "stale_or_unverified" ELSE "fresh",
   sources |-> [p \in Places(steps, c) |-> sourceAt(steps, c, p)],
   unresolvedConcerns |-> [i \in kept(c.unresolvedConcerns) |->
     LET k == c.unresolvedConcerns[i]
     IN [sourceId |-> <<"concern", k.id>>, observedAt |-> k.observedAt, receivedAt |-> k.receivedAt, text |-> redacted[k.text]]],
   actions |-> [i \in effectSteps(steps) |->
     [sourceId |-> <<"tool", steps[i].id>>, at |-> steps[i].at, summary |-> receiptSummary(steps[i]),
      status |-> IF steps[i].status = "pending" \/ steps[i].result = "none" THEN "unconfirmed"
                 ELSE IF succeeded(steps[i]) THEN "succeeded" ELSE "rejected"]],
   notifications |-> [i \in kept(c.notifications) |->
     [sourceId |-> <<"notification", c.notifications[i].id>>, status |-> c.notifications[i].status]]]

(* agentHandoffSchema, as snapshots.ts applies it to an archive.           *)
agentHandoffSchema(h) ==
  LET listed(id, kind) == {e \in {h.sources[p] : p \in DOMAIN h.sources} : e.id = id /\ e.source = kind}
  IN /\ Cardinality(DOMAIN h.sources) <= 49
     /\ Cardinality(DOMAIN h.unresolvedConcerns) <= 8
     /\ Cardinality(DOMAIN h.actions) <= 8
     /\ Cardinality(DOMAIN h.notifications) <= 20
     /\ \A p, q \in DOMAIN h.sources : h.sources[p].id = h.sources[q].id => p = q
     /\ \E e \in listed(h.snapshotSourceId, "journey_snapshot") : e.observedAt = h.snapshotAt
     /\ \A i \in DOMAIN h.unresolvedConcerns : LET k == h.unresolvedConcerns[i] IN
          \E e \in listed(k.sourceId, "retained_concern") :
            e.actor = "rider" /\ e.observedAt = k.observedAt /\ e.receivedAt = k.receivedAt /\ e.text = k.text
     /\ \A i \in DOMAIN h.actions : LET a == h.actions[i] IN
          \E e \in listed(a.sourceId, "tool_receipt") : e.observedAt = a.at /\ e.text = a.summary
     /\ \A i \in DOMAIN h.notifications : listed(h.notifications[i].sourceId, "notification") # {}

(***************************************************************************)
(* What a model proposes.                                                  *)
(***************************************************************************)
SourceIds == {"message", "concern"} \X Ids
(* semanticAssessmentSchema; followUpSeconds and the topic are left out.   *)
Finding == [kind : {"concern", "conflict", "reassurance", "uncertainty"}, sourceIds : SUBSET SourceIds]
Question == [kind : {"companionship", "current_feeling", "location_update", "other", "none"}, sourceIds : SUBSET SourceIds]
semanticAssessmentSchema(a) ==
  /\ a.findings \in SUBSET Finding /\ Cardinality(a.findings) <= 4
  /\ a.question \in Question
  /\ \A f \in a.findings : f.sourceIds # {} /\ Cardinality(f.sourceIds) <= 4
  /\ Cardinality(a.question.sourceIds) <= 4
  /\ Cardinality(a.question.sourceIds \cup UNION {f.sourceIds : f \in a.findings}) <= 8
  /\ a.question.kind = "none" => a.question.sourceIds = {}

(* sourceMap: what people said, but nothing from the future, and nothing   *)
(* under an identifier that stands for different things.  When a message   *)
(* was received is not known and not asked.                                *)
ElementsOf(s) == {s[i] : i \in DOMAIN s}
said(c) ==
  {[id |-> <<"message", m.id>>, kind |-> "message", role |-> m.role, observedAt |-> m.at,
    receivedAt |-> m.at, text |-> m.text] :
      m \in {n \in ElementsOf(c.messages) : n.role \in {"rider", "guardian"}}}
  \cup {[id |-> <<"concern", k.id>>, kind |-> "concern", role |-> "rider", observedAt |-> k.observedAt,
         receivedAt |-> k.receivedAt, text |-> k.text] : k \in ElementsOf(c.unresolvedConcerns)}
offered(c, now) == {s \in said(c) : s.observedAt <= now /\ s.receivedAt <= now}
sourceMap(c, now) == {s \in offered(c, now) : \A t \in offered(c, now) : t.id = s.id => t = s}

recent(s, now) == now - s.observedAt <= Window
staleLocation(c, now) == c.location.stale \/ c.location.updatedAt \notin 1..now

(* A concern and a question rest on what the rider said lately or what is  *)
(* retained of it.                                                         *)
riderEvidence(s, now) == s.role = "rider" /\ (s.kind = "message" => recent(s, now))
(* validateSemanticAssessment on the context, with its now replaced.       *)
validateSemanticAssessment(a, c, now) ==
  LET sources == sourceMap(c, now)
      cited(ids) == {s \in sources : s.id \in ids}
      known(ids) == \A id \in ids : \E s \in sources : s.id = id
  IN /\ semanticAssessmentSchema(a)
     /\ \A f \in a.findings :
          /\ known(f.sourceIds)
          /\ f.kind = "concern" => \A s \in cited(f.sourceIds) : riderEvidence(s, now)
          /\ f.kind = "conflict" => \E s, t \in cited(f.sourceIds) : s.id # t.id /\ s.kind = "message" /\ t.kind = "message"
     /\ known(a.question.sourceIds)
     /\ \A s \in cited(a.question.sourceIds) : riderEvidence(s, now)
     /\ \/ a.question.kind = "none" \/ a.question.sourceIds # {}
        \/ a.question.kind = "location_update" /\ staleLocation(c, now)
        \/ a.question.kind \in {"companionship", "current_feeling"} /\ c.monitored

(* validateCodexDemoResult: the result is judged by the snapshot it was    *)
(* made for, at the time of the snapshot and at the time it is imported.   *)
validateCodexDemoResult(result, job, now) ==
  /\ job.status = "pending" /\ job.createdAt <= now /\ now < job.expiresAt
  /\ result.jobId = job.id /\ result.completedAt \in job.createdAt..now
  /\ validateSemanticAssessment(result.assessment, job.context, job.context.now)
  /\ validateSemanticAssessment(result.assessment, job.context, now)
(* canUseSemanticRun, of an imported result: what time decides of it.      *)
(* Whether the journey still stands is AgentHarness's canUseCodexDemo.     *)
canUseSemanticRun(result, job, now) ==
  now < job.expiresAt /\ validateSemanticAssessment(result.assessment, job.context, now)

=============================================================================
