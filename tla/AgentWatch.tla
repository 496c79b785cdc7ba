----------------------------- MODULE AgentWatch -----------------------------
(***************************************************************************)
(* The runtime on the guardian's machine (watchPersonalAgent and           *)
(* submitAssessment of src/scripts/personal-agent-watch.ts) at work on the *)
(* delegation of PersonalAgent: its loop, its heartbeats, the poll that    *)
(* tells it that a job was superseded while the model is thinking, and the *)
(* network between both.                                                   *)
(*                                                                         *)
(* PersonalAgent takes an operation of the server apart at its awaits;     *)
(* here it is one step, and what is taken apart is the call.  Whatever     *)
(* rejects an await of the loop leads to its finally block, Stop.          *)
(***************************************************************************)
EXTENDS PersonalAgent, Functions

CONSTANTS
  MaxTurns,     \* options.maxTurns
  WatchFor,     \* options.maxMinutes
  MaxSubmits,   \* submissions of one assessment: 3
  MaxFailures   \* bound: calls without an answer

ASSUME AgentWatchAssumption ==
  {MaxTurns, WatchFor, MaxSubmits} \subseteq Nat \ {0} /\ MaxFailures \in Nat

VARIABLES
  runner,    \* the loop
  net,       \* what the loop and the poll wait for; whether a heartbeat is under way
  stray,     \* requests that nobody waits for any more and that may still arrive
  failures,
  answered,  \* history: the jobs whose answer took effect, in order
  reported   \* history: the jobs the runtime reported as completed

watchVars == <<runner, net, stray, failures, answered, reported>>
serverVars == vars
record == <<failures, answered, reported>>

Quiet == [stage |-> "none"]
Refusal == [ok |-> FALSE]
NoJob == [id |-> 0, left |-> 0]
request(op, j) == [stage |-> "sent", op |-> op, job |-> j]
ended == runner.at \in {"off", "releasing", "stopped"}

(***************************************************************************)
(* The server's side: any operation, with the reply it sends.              *)
(***************************************************************************)
Perform(op, j, Replied(_)) ==
  LET r == reconcile(room)
      c(f) == [token |-> 1, op |-> op, job |-> j, followUp |-> f]
  IN \E f \in FollowUps :
       /\ IF mayAct(r, c(f)) /\ performed(r, c(f)) # {}
          THEN /\ \E s \in performed(r, c(f)) : Stored(s)
               /\ Replied([ok |-> TRUE, job |-> [id |-> room'.job, left |-> room'.deadline]])
          ELSE Refused /\ Replied(Refusal)
       /\ LET answer == mayAct(r, c(f)) /\ answers(r, c(f))
          IN /\ answered' = IF answer THEN Append(answered, j) ELSE answered
             /\ silence' = IF answer \/ (op = "accept" /\ r.status = "approved") THEN 0 ELSE silence
       /\ UNCHANGED <<call, held, given, suspended, inputs, failures, reported>>

(***************************************************************************)
(* The loop.  It is at the call it waits for, thinking (the model is       *)
(* running), pausing, releasing or stopped.                                *)
(***************************************************************************)
Goes(at) == runner' = [runner EXCEPT !.at = at]
Calls(at, op, j) == Goes(at) /\ net' = [net EXCEPT !.main = request(op, j)]
pending(c) == IF c.stage = "sent" THEN {[op |-> c.op, job |-> c.job]} ELSE {}

(* The finally block: the timers end, calls under way are aborted, and the *)
(* delegation is released.                                                 *)
Stop ==
  /\ Goes("releasing")
  /\ net' = [main |-> request("release", 0), poll |-> Quiet, beat |-> FALSE]
  /\ stray' = stray \cup pending(net.main) \cup pending(net.poll)
                    \cup (IF net.beat THEN {[op |-> "heartbeat", job |-> 0]} ELSE {})

(* What the loop does with a response until its next await.                *)
Take(reply) ==
  IF runner.turns >= MaxTurns \/ runner.left = 0 \/ reply.job.id \in runner.seen
     \/ (reply.job.id # 0 /\ reply.job.left = 0)
  THEN Stop
  ELSE /\ runner' = IF reply.job.id = 0 THEN [runner EXCEPT !.at = "sleeping", !.job = NoJob]
                    ELSE [runner EXCEPT !.at = "thinking", !.job = reply.job, !.turns = @ + 1,
                                        !.seen = @ \cup {reply.job.id}, !.stale = FALSE, !.attempt = 0]
       /\ net' = [net EXCEPT !.main = Quiet] /\ UNCHANGED stray

(* submitAssessment, from the check of the expiry to the call.             *)
Submit == IF runner.job.left = 0 THEN Stop
          ELSE /\ runner' = [runner EXCEPT !.at = "submit", !.attempt = @ + 1]
               /\ net' = [net EXCEPT !.main = request("assess", runner.job.id)] /\ UNCHANGED stray

(* The response arrives: to accept, to updates, to the updates just before *)
(* the submission, or to the submission.                                   *)
Answered ==
  LET reply == net.main.reply
  IN /\ ~ended /\ net.main.stage = "replied" /\ UNCHANGED <<serverVars, failures, answered>>
     /\ IF ~reply.ok THEN Stop
        ELSE IF runner.at = "confirm" /\ reply.job.id = runner.job.id /\ ~runner.stale THEN Submit
        ELSE Take(reply)
     /\ reported' = IF reply.ok /\ runner.at = "submit" THEN reported \cup {runner.job.id} ELSE reported

(* It does not: only the identical submission is tried again, after a      *)
(* pause, and the request may still arrive.                                *)
Unanswered ==
  /\ runner.at \notin {"releasing", "stopped"} /\ net.main.stage \in {"sent", "replied"}
  /\ failures < MaxFailures /\ failures' = failures + 1
  /\ IF runner.at = "submit" /\ runner.attempt < MaxSubmits
     THEN Goes("pausing") /\ net' = [net EXCEPT !.main = Quiet] /\ stray' = stray \cup pending(net.main)
     ELSE Stop
  /\ UNCHANGED <<serverVars, answered, reported>>
\* Mutant: the model is asked again for what could not be submitted.
RetryInference ==
  /\ runner.at = "pausing" /\ runner.turns < MaxTurns
  /\ runner' = [runner EXCEPT !.at = "thinking", !.turns = @ + 1]
  /\ UNCHANGED <<serverVars, net, stray, record>>

Retry == runner.at = "pausing" /\ Submit /\ UNCHANGED <<serverVars, record>>

Wake == /\ runner.at = "sleeping" /\ Calls("update", "updates", 0) /\ UNCHANGED <<serverVars, stray, record>>

(* The model has answered, while the job is still open.                    *)
Assess == /\ runner.at = "thinking" /\ runner.job.left > 0
          /\ Calls("confirm", "updates", 0) /\ UNCHANGED <<serverVars, stray, record>>
(* It has failed, or was aborted because the job was superseded or is over. *)
NoAssessment == /\ runner.at = "thinking"
                /\ IF runner.stale THEN Calls("update", "updates", 0) /\ UNCHANGED stray ELSE Stop
                /\ UNCHANGED <<serverVars, record>>

(* The owner interrupts it, or its time is up.                             *)
Interrupted == ~ended /\ Stop /\ UNCHANGED <<serverVars, record>>
(* The last call is answered or given up after three seconds; or the       *)
(* process dies at any time without one.                                   *)
Stopped ==
  /\ runner.at = "releasing" /\ Goes("stopped")
  /\ net' = [net EXCEPT !.main = Quiet] /\ stray' = stray \cup pending(net.main)
  /\ UNCHANGED <<serverVars, record>>
Killed ==
  /\ ~ended /\ failures < MaxFailures /\ failures' = failures + 1
  /\ Goes("stopped") /\ net' = [main |-> Quiet, poll |-> Quiet, beat |-> FALSE]
  /\ UNCHANGED <<serverVars, stray, answered, reported>>

(***************************************************************************)
(* The two timers.  A failure of either aborts the loop.                   *)
(***************************************************************************)
Beat == /\ ~ended /\ runner.at # "accept" /\ ~net.beat /\ net' = [net EXCEPT !.beat = TRUE]
        /\ UNCHANGED <<serverVars, runner, stray, record>>
BeatAnswered == /\ net.beat
                /\ Perform("heartbeat", 0, LAMBDA reply :
                     IF reply.ok THEN net' = [net EXCEPT !.beat = FALSE] /\ UNCHANGED <<runner, stray>>
                     ELSE Stop)
Poll == /\ runner.at = "thinking" /\ net.poll = Quiet
        /\ net' = [net EXCEPT !.poll = request("updates", runner.job.id)]
        /\ UNCHANGED <<serverVars, runner, stray, record>>
(* The model is aborted only if it still works on the job that was asked   *)
(* about.                                                                  *)
PollAnswered ==
  /\ net.poll.stage = "replied" /\ UNCHANGED <<serverVars, record>>
  /\ IF ~net.poll.reply.ok THEN Stop
     ELSE /\ runner' = [runner EXCEPT !.stale = @ \/ (runner.at = "thinking" /\ runner.job.id = net.poll.job
                                                      /\ net.poll.reply.job.id # net.poll.job)]
          /\ net' = [net EXCEPT !.poll = Quiet] /\ UNCHANGED stray
TimerUnanswered == /\ net.beat \/ net.poll # Quiet
                   /\ failures < MaxFailures /\ failures' = failures + 1
                   /\ Stop /\ UNCHANGED <<serverVars, answered, reported>>

(***************************************************************************)
(* Requests arrive, late ones too.                                         *)
(***************************************************************************)
Serve(who) ==
  LET c == net[who]
  IN /\ c.stage = "sent"
     /\ Perform(c.op, c.job, LAMBDA reply :
          net' = [net EXCEPT ![who] = [stage |-> "replied", op |-> c.op, job |-> c.job, reply |-> reply]])
     /\ UNCHANGED <<runner, stray>>
ServeStray == \E c \in stray : /\ Perform(c.op, c.job, LAMBDA reply : stray' = stray \ {c})
                               /\ UNCHANGED <<runner, net>>

(* What the watch of the runtime and the clock of the server share.        *)
aged(c) == IF c.stage = "replied" /\ c.reply.ok THEN [c EXCEPT !.reply.job.left = Elapse(@)] ELSE c
ClockTicks ==
  /\ Tick /\ (ended \/ (runner.left > 0 /\ ~(runner.at = "thinking" /\ runner.job.left = 0)))
  /\ runner' = [runner EXCEPT !.left = Elapse(@), !.job.left = Elapse(@)]
  /\ net' = [net EXCEPT !.main = aged(@), !.poll = aged(@)]
  /\ UNCHANGED <<stray, record>>

(* The guardian has connected the runtime that the rider approved, and the *)
(* script is started with the connection.                                  *)
Off == [at |-> "off", left |-> 0, turns |-> 0, seen |-> {}, job |-> NoJob, attempt |-> 0, stale |-> FALSE]
NoWatch == /\ runner = Off /\ net = [main |-> Quiet, poll |-> Quiet, beat |-> FALSE]
           /\ stray = {} /\ failures = 0 /\ answered = <<>> /\ reported = {}
WatchInit ==
  LET g == CHOOSE g \in Guardians : TRUE
  IN /\ room = [open |-> TRUE, guardian |-> g, assignment |-> 1,
                guardMode |-> "human", nextCheckIn |-> CheckInEvery, aiNextCheckIn |-> NoTimer,
                assistance |-> TRUE, help |-> FALSE,
                status |-> "approved", delegations |-> 1, owner |-> g, granted |-> 1, token |-> 1,
                tokens |-> 1, expires |-> Authorization, lastSeen |-> NoTimer, deadline |-> NoTimer,
                nextJob |-> NoTimer, job |-> 0, jobs |-> 0, done |-> {}, fresh |-> {}]
     /\ alarm = schedule(room)
     /\ call = NoCall /\ held = {1} /\ given = {} /\ suspended = FALSE /\ inputs = MaxInputs - 1 /\ silence = 0
     /\ runner = [Off EXCEPT !.at = "accept", !.left = WatchFor]
     /\ net = [main |-> request("accept", 0), poll |-> Quiet, beat |-> FALSE]
     /\ stray = {} /\ failures = 0 /\ answered = <<>> /\ reported = {}

Loop == Answered \/ Retry \/ Wake \/ Assess \/ NoAssessment \/ Stopped
Timers == Beat \/ BeatAnswered \/ Poll \/ PollAnswered \/ TimerUnanswered
Server == /\ RiderSpeaks \/ GuardianCheckIn \/ EvidenceAges \/ Revoke \/ AlarmFires
          /\ UNCHANGED watchVars
WatchNext == \/ Loop \/ Timers \/ Unanswered \/ Interrupted \/ Killed
             \/ (\E who \in {"main", "poll"} : Serve(who)) \/ ServeStray
             \/ Server \/ ClockTicks
WatchSpec == WatchInit /\ [][WatchNext]_<<vars, watchVars>>

-----------------------------------------------------------------------------
(* Lost answers, repeated submissions, late requests and superseded jobs:  *)
(* the runtime pays for one inference per job, and meets none twice        *)
(* (STILLHERE_JOB_REPEATED); an answer takes effect once; and what the     *)
(* runtime reports as completed took effect.                               *)
OncePerJob ==
  /\ Cardinality(runner.seen) = runner.turns
  /\ net.main.stage = "replied" /\ net.main.reply.ok /\ runner.at \in {"update", "confirm", "submit"}
       => \/ net.main.reply.job.id \notin runner.seen
          \/ runner.at = "confirm" /\ net.main.reply.job.id = runner.job.id /\ ~runner.stale
  /\ IsInjective(answered) /\ reported \subseteq Range(answered)
=============================================================================
