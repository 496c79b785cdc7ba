---------------------------- MODULE ModelRunner ----------------------------
(***************************************************************************)
(* One assessment by the command line tool on the guardian's own machine   *)
(* (src/scripts/codex-demo.ts): assessInMemory, which the watching runtime *)
(* calls, and runCodexDemo, which writes a result for the rider to import. *)
(* Both run a few processes one after the other in a temporary directory   *)
(* (withTemporaryDirectory, preflight, runProcess), the last of which is   *)
(* the model, whose events createEventCollector follows.                   *)
(*                                                                         *)
(* A process may write, break its input pipe, err, end or never end in any *)
(* order with the timers and the abort; each event is one step.            *)
(***************************************************************************)
EXTENDS Integers, Sequences

CONSTANTS
  Checks,    \* processes of the preflight
  MaxLines   \* bound: lines the model writes

ASSUME ModelRunnerAssumption == Checks \in Nat \ {0} /\ MaxLines \in Nat

VARIABLES
  task,       \* the assessment: where it is, and what its caller is told
  child,      \* the process that was started last
  run,        \* runProcess, which watches it
  collector,  \* createEventCollector
  emitted,    \* history: the lines of the model that arrived before the run had failed
  machine     \* the temporary directory, the expiry and the abort

runnerVars == <<task, child, run, collector, emitted, machine>>

Model == Checks + 1
(* What a line of the model says; "odd" stands for every other event.      *)
Lines == {"thread", "notice", "started", "reasoning", "message", "completed", "odd"}

NoProcess == [alive |-> FALSE, code |-> 0, broken |-> FALSE]
NoRun == [settled |-> "resolved", failed |-> FALSE, closed |-> TRUE, timer |-> FALSE, closeTimer |-> FALSE]
NewCollector == [started |-> FALSE, result |-> FALSE, completed |-> FALSE, notice |-> FALSE]

(***************************************************************************)
(* createEventCollector.onLine: {} when it throws.                         *)
(***************************************************************************)
onLine(c, line) ==
  IF c.completed THEN {}
  ELSE CASE line = "thread" -> {c}
         [] line = "started" /\ ~c.started -> {[c EXCEPT !.started = TRUE]}
         [] line = "notice" /\ ~c.started /\ ~c.notice -> {[c EXCEPT !.notice = TRUE]}
         [] line = "reasoning" /\ c.started -> {c}
         [] line = "message" /\ c.started /\ ~c.result -> {[c EXCEPT !.result = TRUE]}
         [] line = "completed" /\ c.started /\ c.result -> {[c EXCEPT !.completed = TRUE]}
         [] OTHER -> {}

(***************************************************************************)
(* runProcess settles once.  After a failure it kills the process and      *)
(* waits for its end, but not for ever.                                    *)
(***************************************************************************)
Deaf == run.settled # "no" \/ run.failed
finishFailure(r) == [r EXCEPT !.settled = "rejected", !.failed = TRUE, !.timer = FALSE, !.closeTimer = FALSE]
settleError(r) ==
  IF r.settled # "no" \/ r.failed THEN r
  ELSE IF r.closed THEN finishFailure(r)
  ELSE [r EXCEPT !.failed = TRUE, !.timer = FALSE, !.closeTimer = TRUE]
Fails == run' = settleError(run) /\ UNCHANGED <<task, child, collector, emitted>>

consume(line) ==
  LET heard == IF task.process = Model THEN onLine(collector, line) ELSE {collector}
  IN /\ emitted' = IF task.process = Model /\ ~Deaf THEN Append(emitted, line) ELSE emitted
     /\ IF Deaf THEN UNCHANGED <<run, collector>>
        ELSE IF heard = {} THEN run' = settleError(run) /\ UNCHANGED collector
        ELSE UNCHANGED run /\ collector' \in heard

Writes(line) == /\ child.alive /\ Len(emitted) < MaxLines /\ consume(line)
                /\ UNCHANGED <<task, child, machine>>
(* A closed input pipe waits for the end, which may explain it.            *)
PipeBreaks == /\ child.alive /\ child' = [child EXCEPT !.broken = TRUE]
              /\ UNCHANGED <<task, run, collector, emitted, machine>>
(* Any other error of the process or its pipes, or too much output.        *)
ChildErrs == child.alive /\ Fails /\ UNCHANGED machine

\* Mutant: the end of the process is taken for success.
ClosesWell(code, line) ==
  /\ child.alive /\ child' = [child EXCEPT !.alive = FALSE, !.code = code]
  /\ line = "" /\ run' = [run EXCEPT !.closed = TRUE, !.timer = FALSE, !.settled = IF @ = "no" THEN "resolved" ELSE @]
  /\ UNCHANGED <<task, collector, emitted, machine>>

(* It ends, perhaps with a last line that no newline followed.             *)
Closes(code, line) ==
  LET r == [run EXCEPT !.closed = TRUE]
      heard == IF line = "" \/ task.process # Model THEN {collector} ELSE onLine(collector, line)
      well == code = 0 /\ ~child.broken
  IN /\ child.alive /\ child' = [child EXCEPT !.alive = FALSE, !.code = code]
     /\ line # "" => Len(emitted) < MaxLines /\ task.process = Model
     /\ emitted' = IF line = "" \/ Deaf THEN emitted ELSE Append(emitted, line)
     /\ CASE run.settled # "no" -> run' = r /\ UNCHANGED collector
          [] run.settled = "no" /\ run.failed -> run' = finishFailure(r) /\ UNCHANGED collector
          [] ~Deaf /\ well /\ heard # {} -> /\ run' = [r EXCEPT !.settled = "resolved", !.timer = FALSE]
                                            /\ collector' \in heard
          [] OTHER -> run' = settleError(r) /\ UNCHANGED collector
     /\ UNCHANGED <<task, machine>>

TimesOut == run.timer /\ Fails /\ UNCHANGED machine
CloseTimesOut == /\ run.closeTimer /\ run' = finishFailure(run)
                 /\ UNCHANGED <<task, child, collector, emitted, machine>>
(* The caller's signal; runCodexDemo has none.                             *)
Abort == /\ task.inMemory /\ ~machine.aborted /\ machine' = [machine EXCEPT !.aborted = TRUE]
         /\ run' = settleError(run) /\ UNCHANGED <<task, child, collector, emitted>>
Expires == /\ ~machine.expired /\ machine' = [machine EXCEPT !.expired = TRUE]
           /\ UNCHANGED <<task, child, run, collector, emitted>>

(***************************************************************************)
(* The assessment, from one await to the next.                             *)
(***************************************************************************)
check == ~machine.expired /\ ~machine.aborted
Ends(result, typed) ==
  task' = [task EXCEPT !.at = "cleaning", !.result = result, !.typed = typed,
                       !.terminationPending = run.settled = "rejected" /\ ~run.closed]
(* The next process, unless the abort came first or it cannot be started.  *)
Spawn(n) ==
  \/ /\ ~machine.aborted /\ task' = [task EXCEPT !.at = "running", !.process = n]
     /\ child' = [alive |-> TRUE, code |-> 0, broken |-> FALSE]
     /\ run' = [settled |-> "no", failed |-> FALSE, closed |-> FALSE, timer |-> TRUE, closeTimer |-> FALSE]
  \/ Ends("failure", TRUE) /\ UNCHANGED <<child, run>>

Begin == /\ task.at = "new" /\ check /\ Spawn(1)
         /\ machine' = [machine EXCEPT !.directory = TRUE] /\ UNCHANGED <<collector, emitted>>
Rejected == /\ task.at = "running" /\ run.settled = "rejected" /\ Ends("failure", TRUE)
            /\ UNCHANGED <<child, run, collector, emitted, machine>>
(* What a check of the preflight printed is verified before the next one;  *)
(* the model is started only while the snapshot is still valid, and once   *)
(* the schema of its answer is written.                                    *)
Prepared == /\ task.at = "running" /\ run.settled = "resolved" /\ task.process < Model
            /\ \/ (task.process < Checks \/ check) /\ Spawn(task.process + 1)
               \/ Ends("failure", TRUE) /\ UNCHANGED <<child, run>>
               \/ task.process = Checks /\ check /\ Ends("failure", FALSE) /\ UNCHANGED <<child, run>>
            /\ UNCHANGED <<collector, emitted, machine>>
(* The answer is valid if the snapshot still is, the turn was complete and *)
(* it cites what the snapshot holds; the file must not exist yet.          *)
Concluded == /\ task.at = "running" /\ run.settled = "resolved" /\ task.process = Model
             /\ \/ check /\ collector.completed /\ collector.result /\ Ends("assessment", TRUE)
                \/ Ends("failure", TRUE)
                \/ check /\ collector.completed /\ ~task.inMemory /\ Ends("failure", FALSE)
             /\ UNCHANGED <<child, run, collector, emitted, machine>>

\* Mutant: a failed removal of the directory is nobody's error.
CleanQuietly ==
  /\ task.at = "cleaning" /\ task' = [task EXCEPT !.at = "over"]
  /\ machine' \in {machine, [machine EXCEPT !.directory = FALSE]}
  /\ UNCHANGED <<child, run, collector, emitted>>

(* runWithCleanup: a failed removal does not replace the first error, and  *)
(* is an error of its own where there was none.                            *)
Clean ==
  /\ task.at = "cleaning"
  /\ \/ machine' = [machine EXCEPT !.directory = FALSE] /\ task' = [task EXCEPT !.at = "over"]
     \/ /\ UNCHANGED machine
        /\ task' = [task EXCEPT !.at = "over", !.result = "failure", !.cleanupFailed = @ \/ task.typed]
  /\ UNCHANGED <<child, run, collector, emitted>>

RunnerInit ==
  /\ \E m \in BOOLEAN : task = [at |-> "new", process |-> 0, inMemory |-> m, result |-> "none", typed |-> TRUE,
                                terminationPending |-> FALSE, cleanupFailed |-> FALSE]
  /\ child = NoProcess /\ run = NoRun /\ collector = NewCollector /\ emitted = <<>>
  /\ machine = [directory |-> FALSE, expired |-> FALSE, aborted |-> FALSE]

Process == \/ \E line \in Lines : Writes(line)
           \/ PipeBreaks \/ ChildErrs
           \/ \E code \in {0, 1}, line \in Lines \cup {""} : Closes(code, line)
RunnerNext == \/ Process \/ TimesOut \/ CloseTimesOut \/ Abort \/ Expires
              \/ Begin \/ Rejected \/ Prepared \/ Concluded \/ Clean
RunnerSpec == RunnerInit /\ [][RunnerNext]_runnerVars

-----------------------------------------------------------------------------
(* An assessment comes from one whole turn of a model that used no tool,   *)
(* said one thing, was told everything and ended of itself, whatever order *)
(* its lines, its end, the timers and the abort came in.                   *)
OneTurnOnly ==
  task.result = "assessment" =>
    /\ ~child.alive /\ child.code = 0 /\ ~child.broken
    /\ \E i, j, k \in DOMAIN emitted :
         /\ i < j /\ j < k /\ emitted[i] = "started" /\ emitted[j] = "message" /\ emitted[k] = "completed"
         /\ \A l \in DOMAIN emitted \ {i, j, k} : emitted[l] \in {"thread", "notice", "reasoning"}
    /\ \A i, j \in DOMAIN emitted : emitted[i] = "notice" /\ emitted[j] = "notice" => i = j

(* The caller never waits for a process without a timer that ends the      *)
(* wait; and it is told when a process may still be running or the         *)
(* directory is still there.  An error of the file system while the result *)
(* is written does not say so.                                             *)
NothingLeftUnsaid ==
  /\ task.at = "running" /\ run.settled = "no" => run.timer \/ run.closeTimer
  /\ task.at = "over" => /\ child.alive => task.terminationPending
                         /\ machine.directory => task.cleanupFailed \/ ~task.typed
=============================================================================
