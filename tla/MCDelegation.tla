---------------------------- MODULE MCDelegation ----------------------------
(* A delegation with any runtime, a delegation with the script, and one    *)
(* assessment on the guardian's machine: one of them in each behaviour.    *)
EXTENDS AgentWatch, ModelRunner

VARIABLE scene

Scenes ==
  /\ scene \in {"runtime", "script", "machine"}
  /\ RunnerInit /\ (scene # "machine" => task.inMemory)
  /\ (scene = "script" /\ WatchInit) \/ (scene # "script" /\ NoWatch /\ Init)
MCNext ==
  /\ UNCHANGED scene
  /\ \/ scene = "runtime" /\ Next /\ UNCHANGED <<watchVars, runnerVars>>
     \/ scene = "script" /\ WatchNext /\ UNCHANGED runnerVars
     \/ scene = "machine" /\ RunnerNext /\ UNCHANGED <<vars, watchVars>>
MCSpec == Scenes /\ [][MCNext]_<<vars, watchVars, runnerVars, scene>>
=============================================================================
