---------------------------- MODULE AgentHarness ----------------------------
(***************************************************************************)
(* Automated assistance on one journey: the durable agent runs with their  *)
(* one paid assessment (queueAgent, runAgent, analyzeWithOpenAI,           *)
(* executeAgentTool of src/worker/src/trips.ts) and the local demo result  *)
(* a rider may import instead.                                             *)
(*                                                                         *)
(* Every handler and the alarm end by running the agent, so several        *)
(* executors are at work at a time.  An action is what one of them does    *)
(* between two awaits; a restart loses them all.  What decisions rest on   *)
(* (risk, freshness of the location, notices) is one counter, evidence;    *)
(* answering yields, so a plan is an order of tools, not what they say.    *)
(***************************************************************************)
EXTENDS Integers, Sequences, FiniteSets, SequencesExt

CONSTANTS
  Executors,    \* calls of runAgent under way
  MaxAttempts,  \* executions of a run: 3
  MaxRetained,  \* runs that are kept: 20
  MaxRequests,  \* MAX_JOURNEY_AI_REQUESTS
  MaxCalls,     \* MAX_CALLS, what all journeys may spend in a day
  MaxChanges,   \* bound: what participants and the clock do
  MaxRestarts   \* bound

ASSUME AgentAssumption ==
  /\ IsFiniteSet(Executors)
  /\ MaxRetained > 0 /\ {MaxRetained, MaxAttempts, MaxRequests, MaxCalls, MaxChanges, MaxRestarts} \subseteq Nat

VARIABLES
  room,      \* the part of trip_state involved
  ledger,    \* paid calls reserved today with the governance object
  exec,      \* what each executor is waiting for
  calls,     \* history: the runs for which a paid request left, in order
  changes, restarts

vars == <<room, ledger, exec, calls, changes, restarts>>

Idle == [at |-> "idle"]
pendingRun(run) == run.status \in {"queued", "running"}
context(r) == <<r.evidence, r.help>>
Unread == <<>>

canUseLiveAi(r) == r.open /\ r.monitored /\ r.consent /\ ~r.help /\ r.demo.status # "pending"
canUseCodexDemo(r) == r.open /\ r.monitored /\ ~r.help

(***************************************************************************)
(* save: a run that participants overtook is cancelled, in whichever       *)
(* handler notices first; so is a demo snapshot (syncCodexDemo).  Only the *)
(* latest runs are kept, and an executor may find its run gone.            *)
(***************************************************************************)
syncCodexDemo(r) ==
  IF r.demo.status = "pending" /\ (r.demo.revision # r.revision \/ ~canUseCodexDemo(r) \/ r.demo.read # context(r))
  THEN [r EXCEPT !.demo.status = "cancelled"] ELSE r
superseded(r, run) ==
  \/ ~r.open \/ ~r.monitored \/ run.revision # r.revision
  \/ run.source = "local" /\ ~(canUseCodexDemo(r) /\ r.demo.status = "consumed")
NewRun(r) == [status |-> "queued", revision |-> r.revision, attempts |-> 0, leased |-> FALSE,
              steps |-> <<>>, read |-> Unread, paid |-> "none", source |-> "rules"]
(* What a run did is no longer needed once it was completed, cancelled or  *)
(* given up.                                                               *)
ended(r) == [NewRun(r) EXCEPT !.status = "ended", !.revision = 0]
save(r) ==
  LET s == syncCodexDemo(r)
      kept == {i \in DOMAIN s.runs : i + MaxRetained > s.made}
  IN [s EXCEPT !.runs = [i \in kept |->
       IF pendingRun(s.runs[i]) /\ superseded(s, s.runs[i]) THEN ended(s) ELSE s.runs[i]]]

addRun(r, run) == [r EXCEPT !.made = @ + 1,
                            !.runs = [i \in DOMAIN r.runs \cup {r.made + 1} |-> IF i \in DOMAIN r.runs THEN r.runs[i] ELSE run]]
queueAgent(r) == IF r.open /\ r.monitored THEN addRun(r, NewRun(r)) ELSE r

(* The journey as the server has just taken it over.                       *)
Init ==
  /\ room = queueAgent([open |-> TRUE, monitored |-> TRUE, consent |-> TRUE, help |-> FALSE, revision |-> 0,
                        evidence |-> 0, runs |-> <<>>, made |-> 0, requests |-> 0,
                        demo |-> [status |-> "none", revision |-> 0, read |-> Unread]])
  /\ ledger = 0 /\ exec = [e \in Executors |-> Idle] /\ calls = <<>> /\ changes = 0 /\ restarts = 0

(***************************************************************************)
(* Participants and the clock.                                             *)
(***************************************************************************)
Change(r) == /\ changes < MaxChanges /\ changes' = changes + 1 /\ room' = save(r)
             /\ UNCHANGED <<ledger, exec, calls, restarts>>
acted == [room EXCEPT !.revision = @ + 1]

(* A message is judged by rules at once, which may raise the risk.         *)
PostMessage(concern) == room.open /\ Change(queueAgent([acted EXCEPT !.evidence = IF concern THEN @ + 1 ELSE @]))
CheckIn == room.open /\ Change(acted)
Help == room.open /\ ~room.help /\ Change([acted EXCEPT !.help = TRUE])
Resume == room.open /\ room.monitored /\ Change([acted EXCEPT !.monitored = FALSE])
Takeover == room.open /\ ~room.monitored /\ Change(queueAgent([acted EXCEPT !.monitored = TRUE]))
SetAssistance == room.open /\ Change([acted EXCEPT !.consent = ~@])
Close == room.open /\ Change([acted EXCEPT !.open = FALSE])
(* The alarm finds a check-in unanswered or a follow-up due.               *)
FollowUp == room.open /\ room.monitored /\ Change(queueAgent(room))
(* The location grows stale, or a notice is sent, fails, is acknowledged.  *)
(* The next handler, not the clock, notices.                               *)
EvidenceChanges == /\ changes < MaxChanges /\ changes' = changes + 1
                   /\ room' = [room EXCEPT !.evidence = @ + 1]
                   /\ UNCHANGED <<ledger, exec, calls, restarts>>

exportCodexDemo == canUseCodexDemo(room) /\ Change([acted EXCEPT
                     !.demo = [status |-> "pending", revision |-> acted.revision, read |-> context(acted)]])
cancelCodexDemo == room.demo.status = "pending" /\ Change([acted EXCEPT !.demo.status = "cancelled"])
importCodexDemo ==
  LET run == [NewRun(acted) EXCEPT !.source = "local", !.steps = <<"context">>, !.read = context(acted)]
  IN /\ syncCodexDemo(room).demo.status = "pending"
     /\ Change([addRun(acted, run) EXCEPT !.demo.status = "consumed", !.demo.revision = acted.revision])

(***************************************************************************)
(* An executor: it claims a run for one attempt, and asks again and again  *)
(* whether the attempt is still its own.                                   *)
(***************************************************************************)
Waits(e, w) == exec' = [exec EXCEPT ![e] = w]
Owns(r, w) == /\ w.run \in DOMAIN r.runs
              /\ LET run == r.runs[w.run]
                 IN run.status = "running" /\ run.attempts = w.attempt /\ run.leased
Others == UNCHANGED <<changes, restarts>>

\* Mutant: an interrupted paid attempt is forgotten when the run is taken up again.
claimAfresh(run) == [run EXCEPT !.status = "running", !.attempts = @ + 1, !.leased = TRUE,
                                !.paid = IF @ = "reserved" THEN "none" ELSE @]

claim(run) == [run EXCEPT !.status = "running", !.attempts = @ + 1, !.leased = TRUE,
                          !.paid = IF @ = "reserved" THEN "failed" ELSE @]

(* An attempt starts once nobody holds the run; too many, or too old a run *)
(* (tooOld), end it.                                                       *)
Claim(e, i, tooOld) ==
  LET r == save(room)
  IN /\ exec[e] = Idle /\ i \in DOMAIN r.runs /\ pendingRun(r.runs[i]) /\ ~r.runs[i].leased
     /\ IF tooOld \/ r.runs[i].attempts >= MaxAttempts
        THEN room' = save([r EXCEPT !.runs[i] = ended(r)]) /\ UNCHANGED exec
        ELSE /\ room' = save([r EXCEPT !.runs[i] = claim(@)])
             /\ Waits(e, [at |-> "turn", run |-> i, attempt |-> room'.runs[i].attempts])
     /\ UNCHANGED <<ledger, calls>> /\ Others

stale(r, run) == run.read # Unread /\ run.read # context(r)
(* The imported result is bound to its snapshot; other runs start over.    *)
refresh(r, i) ==
  LET c == [r EXCEPT !.runs[i] = ended(r)]
  IN save(IF r.runs[i].source = "local" THEN c ELSE queueAgent(c))

(* The paid assessment comes once, right after the context was read.       *)
mayPay(r, run) == run.steps = <<"context">> /\ run.source = "rules" /\ run.paid = "none" /\ canUseLiveAi(r)
(* Either planner takes the first step of its plan that is still open.     *)
(* Both leave out recruitment here, which they do when it is under way;    *)
(* and a notice, once there is one: every cause that allows it queued one. *)
plan == <<"context", "check-in", "follow-up">>
nextDecision(run) ==
  LET left == {k \in DOMAIN plan : ~Contains(run.steps, plan[k])}
  IN IF left = {} THEN "complete" ELSE plan[Min(left)]

(* One turn of the loop, from a reload to the next await.                  *)
TurnFrom(e, w, r) ==
  IF ~Owns(r, w) THEN room' = r /\ Waits(e, Idle)
  ELSE IF stale(r, r.runs[w.run]) THEN room' = refresh(r, w.run) /\ Waits(e, Idle)
  ELSE IF mayPay(r, r.runs[w.run]) /\ r.requests < MaxRequests
  THEN /\ room' = save([r EXCEPT !.runs[w.run].paid = "reserved", !.requests = @ + 1])
       /\ Waits(e, [at |-> "reserving", run |-> w.run, attempt |-> w.attempt, seen |-> context(r)])
  ELSE IF mayPay(r, r.runs[w.run])
  THEN room' = save([r EXCEPT !.runs[w.run].paid = "failed"]) /\ Waits(e, [w EXCEPT !.at = "turn"])
  ELSE room' = r /\ Waits(e, [at |-> "deciding", run |-> w.run, attempt |-> w.attempt,
                              decision |-> nextDecision(r.runs[w.run])])
Turn(e) == exec[e].at = "turn" /\ TurnFrom(e, exec[e], save(room)) /\ UNCHANGED <<ledger, calls>> /\ Others

(* The budget of all journeys answers, and the request leaves if nothing   *)
(* the reservation rested on has changed.                                  *)
current(r, w) == Owns(r, w) /\ r.runs[w.run].revision = r.revision /\ canUseLiveAi(r) /\ w.seen = context(r)
Reserved(e) ==
  LET w == exec[e] IN
  LET r == save(room) IN
  /\ w.at = "reserving" /\ room' = r
  /\ ledger' = IF ledger < MaxCalls THEN ledger + 1 ELSE ledger
  /\ IF ledger < MaxCalls /\ current(r, w)
     THEN calls' = Append(calls, w.run) /\ Waits(e, [w EXCEPT !.at = "calling"])
     ELSE UNCHANGED calls /\ Waits(e, [w EXCEPT !.at = "unpaid"])
  /\ Others

\* Mutant: the answer is used without looking at the journey again.
adoptAlways(r, w, ok) ==
  IF w.run \notin DOMAIN r.runs \/ ~pendingRun(r.runs[w.run]) THEN r ELSE [r EXCEPT !.runs[w.run].paid = "completed", !.runs[w.run].source = "paid"]

adopt(r, w, ok) ==
  IF w.run \notin DOMAIN r.runs \/ ~pendingRun(r.runs[w.run]) THEN r
  ELSE [r EXCEPT !.runs[w.run].paid = IF ~current(r, w) THEN "discarded" ELSE IF ok THEN "completed" ELSE "failed",
                 !.runs[w.run].source = IF ok /\ current(r, w) THEN "paid" ELSE @]
Assessed(e, ok) ==
  LET w == exec[e] IN
  LET r == save(room) IN
  /\ w.at = "calling" \/ (w.at = "unpaid" /\ ~ok)
  /\ room' = save(adopt(r, w, ok))
  /\ Waits(e, [at |-> "turn", run |-> w.run, attempt |-> w.attempt])
  /\ UNCHANGED <<ledger, calls>> /\ Others

(* An attempt that failed leaves the run to another one.                   *)
released(r, i) ==
  [r EXCEPT !.runs[i] = IF @.attempts >= MaxAttempts THEN ended(r) ELSE [@ EXCEPT !.status = "queued", !.leased = FALSE]]

(* executeAgentTool, after the check that no tool is used twice.           *)
effect(r, i, tool) == [r EXCEPT !.runs[i].steps = Append(@, tool),
                                !.runs[i].read = IF tool = "context" THEN context(r) ELSE @]
execute(r, i, tool) == IF Contains(r.runs[i].steps, tool) THEN released(r, i) ELSE effect(r, i, tool)

\* Mutant: any execution of the run may go on with it, not only the latest.
DecidedByAny(e) ==
  LET w == exec[e] IN
  LET r == save(room) IN
  /\ w.at = "deciding" /\ UNCHANGED <<ledger, calls>> /\ Others
  /\ IF w.run \notin DOMAIN r.runs \/ r.runs[w.run].status # "running" THEN room' = r /\ Waits(e, Idle)
     ELSE IF w.decision = "complete" THEN room' = save([r EXCEPT !.runs[w.run] = ended(r)]) /\ Waits(e, Idle)
     ELSE TurnFrom(e, w, save(effect(r, w.run, w.decision)))

(* The decision arrives: a tool, or the end.                               *)
Decided(e) ==
  LET w == exec[e] IN
  LET r == save(room) IN
  /\ w.at = "deciding"
  /\ IF ~Owns(r, w) THEN room' = r /\ Waits(e, Idle)
     ELSE IF stale(r, r.runs[w.run]) THEN room' = refresh(r, w.run) /\ Waits(e, Idle)
     ELSE IF w.decision = "complete"
     THEN room' = save([r EXCEPT !.runs[w.run] = ended(r)]) /\ Waits(e, Idle)
     ELSE TurnFrom(e, w, save(execute(r, w.run, w.decision)))
  /\ UNCHANGED <<ledger, calls>> /\ Others
(* Or there is none: the provider failed, was aborted or took too long.    *)
Undecided(e) ==
  LET w == exec[e] IN
  /\ w.at = "deciding" /\ Waits(e, Idle)
  /\ room' = IF w.run \in DOMAIN room.runs /\ room.runs[w.run].status = "running" /\ room.runs[w.run].attempts = w.attempt
             THEN save(released(room, w.run)) ELSE room
  /\ UNCHANGED <<ledger, calls>> /\ Others

LeaseEnds(i) == /\ i \in DOMAIN room.runs /\ room.runs[i].leased
                /\ room' = [room EXCEPT !.runs[i].leased = FALSE]
                /\ UNCHANGED <<ledger, exec, calls>> /\ Others
Restart == /\ restarts < MaxRestarts /\ restarts' = restarts + 1
           /\ exec' = [e \in Executors |-> Idle] /\ UNCHANGED <<room, ledger, calls, changes>>

People == \/ \E b \in BOOLEAN : PostMessage(b)
          \/ CheckIn \/ Help \/ Resume \/ Takeover \/ SetAssistance \/ Close \/ FollowUp \/ EvidenceChanges
          \/ exportCodexDemo \/ cancelCodexDemo \/ importCodexDemo
Works(e) == Turn(e) \/ Reserved(e) \/ Decided(e) \/ Undecided(e) \/ \E ok \in BOOLEAN : Assessed(e, ok)
Starts(e) == \E i \in DOMAIN room.runs, tooOld \in BOOLEAN : Claim(e, i, tooOld)
Next == \/ People \/ Restart
        \/ \E i \in DOMAIN room.runs : LeaseEnds(i)
        \/ \E e \in Executors : Works(e) \/ Starts(e)
Spec == Init /\ [][Next]_vars

-----------------------------------------------------------------------------
(* Recovery, retries and two executors on one run repeat no effect.        *)
EffectsOnce == \A i \in DOMAIN room.runs : IsInjective(room.runs[i].steps)

(* A run buys at most one assessment, whatever interrupts it, and none     *)
(* that the budget of the journey and that of the day do not hold.         *)
PaidOnce == /\ IsInjective(calls) /\ Len(calls) <= room.requests /\ room.requests <= MaxRequests
            /\ Len(calls) <= ledger /\ ledger <= MaxCalls

(* An executor does and adopts nothing on a journey other than the one it  *)
(* was decided for: same revision, still monitored, same evidence.         *)
NothingFromThePast ==
  [][\A e \in Executors, i \in DOMAIN room.runs \cap DOMAIN room'.runs :
       /\ exec'[e] # exec[e] /\ exec[e] # Idle /\ exec[e].run = i
       /\ \/ Len(room'.runs[i].steps) > Len(room.runs[i].steps)
          \/ room'.runs[i].source = "paid" /\ room.runs[i].source = "rules"
       => /\ room.open /\ room.monitored /\ room.runs[i].revision = room.revision
          /\ room.runs[i].read \in {Unread, context(room)}]_vars

=============================================================================
