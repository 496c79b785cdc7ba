----------------------------- MODULE SafetyGuard -----------------------------
(***************************************************************************)
(* The first version of the program (src/contracts/programs/safety-guard): *)
(* a rider names one guardian for a task, the guardian accepts and checks  *)
(* in, and the rider completes or cancels it.  Completion pays the         *)
(* guardian a fixed reward into an account that all tasks of the guardian  *)
(* share.  Still deployed beside version 2, which has no accounts in       *)
(* common with it.                                                         *)
(*                                                                         *)
(* An instruction is one step, and changes nothing when it fails; a task   *)
(* account is never closed.  The time of the end of a task, which no       *)
(* instruction reads, and the bumps are left out.                          *)
(***************************************************************************)
EXTENDS Integers, FiniteSets

CONSTANTS
  Keys,           \* public keys but the default one
  TripIds,        \* trip identifiers but zero
  RewardPoints,   \* REWARD_POINTS: 10
  MaxDuration,    \* MAX_DURATION_SECONDS
  Cooldown,       \* CHECK_IN_COOLDOWN_SECONDS: 15
  MaxU32, MaxU64  \* u32::MAX, u64::MAX

VARIABLES
  tasks,       \* GuardTask accounts, by rider and trip
  reputation,  \* Reputation accounts, by guardian; zero before their first use
  now          \* the cluster's clock

vars == <<tasks, reputation, now>>

Absent == [state |-> "absent"]
TaskIds == Keys \X TripIds
Task == [guardian : Keys, createdAt : Nat, deadline : Nat, acceptedAt : Nat, lastCheckInAt : Nat,
         checkInCount : 0..MaxU32, state : {"pending", "active", "completed", "cancelled"}]
Reputation == [points : 0..MaxU64, completedTasks : 0..MaxU64]

Init == /\ tasks = [id \in TaskIds |-> Absent]
        /\ reputation = [g \in Keys |-> [points |-> 0, completedTasks |-> 0]]
        /\ now \in Nat

(* The account is derived from the rider's key, who signs, and the trip.   *)
create_task(id, guardian, deadline) ==
  /\ tasks[id] = Absent /\ id[1] # guardian
  /\ deadline > now /\ deadline - now <= MaxDuration
  /\ tasks' = [tasks EXCEPT ![id] = [guardian |-> guardian, createdAt |-> now, deadline |-> deadline,
                                     acceptedAt |-> 0, lastCheckInAt |-> 0, checkInCount |-> 0,
                                     state |-> "pending"]]
  /\ UNCHANGED <<reputation, now>>

accept_task(id) ==
  /\ tasks[id].state = "pending" /\ now <= tasks[id].deadline
  /\ tasks' = [tasks EXCEPT ![id].state = "active", ![id].acceptedAt = now]
  /\ UNCHANGED <<reputation, now>>

check_in(id) ==
  /\ tasks[id].state = "active" /\ now <= tasks[id].deadline
  /\ tasks[id].checkInCount = 0 \/ now - tasks[id].lastCheckInAt >= Cooldown
  /\ tasks[id].checkInCount < MaxU32
  /\ tasks' = [tasks EXCEPT ![id].checkInCount = @ + 1, ![id].lastCheckInAt = now]
  /\ UNCHANGED <<reputation, now>>

(* Both sums are taken before anything is written.                         *)
complete_task(id) ==
  LET g == tasks[id].guardian
      r == reputation[g]
  IN /\ tasks[id].state = "active" /\ tasks[id].checkInCount > 0
     /\ r.points + RewardPoints <= MaxU64 /\ r.completedTasks + 1 <= MaxU64
     /\ reputation' = [reputation EXCEPT ![g] = [points |-> r.points + RewardPoints,
                                                 completedTasks |-> r.completedTasks + 1]]
     /\ tasks' = [tasks EXCEPT ![id].state = "completed"]
     /\ UNCHANGED now

cancel_task(id) ==
  /\ tasks[id].state \in {"pending", "active"}
  /\ tasks' = [tasks EXCEPT ![id].state = "cancelled"]
  /\ UNCHANGED <<reputation, now>>

Tick == now' = now + 1 /\ UNCHANGED <<tasks, reputation>>

Next == \/ \E id \in TaskIds, g \in Keys, d \in Nat : create_task(id, g, d)
        \/ \E id \in TaskIds : accept_task(id) \/ check_in(id) \/ complete_task(id) \/ cancel_task(id)
        \/ Tick
Spec == Init /\ [][Next]_vars

-----------------------------------------------------------------------------
TypeOK == /\ tasks \in [TaskIds -> Task \cup {Absent}]
          /\ reputation \in [Keys -> Reputation]
          /\ now \in Nat

completedBy(t, g) == {id \in TaskIds : t[id].state = "completed" /\ t[id].guardian = g}

(* Every completed task is paid once, to its own guardian, however the     *)
(* tasks that share the account of a guardian are interleaved.             *)
PaidPerTask ==
  \A g \in Keys : /\ reputation[g].completedTasks = Cardinality(completedBy(tasks, g))
                  /\ reputation[g].points = RewardPoints * reputation[g].completedTasks

(* What a task's check-ins say of the time it was guarded.                 *)
witnessed(t) ==
  /\ t.lastCheckInAt <= t.deadline
  /\ t.acceptedAt + (t.checkInCount - 1) * Cooldown <= t.lastCheckInAt

(* A completed task bears witness of presence: its check-ins lie between   *)
(* acceptance and deadline, at least a cooldown apart.                     *)
PresenceIsWitnessed ==
  \A id \in TaskIds : /\ tasks[id].state = "completed" => tasks[id].checkInCount > 0
                      /\ tasks[id].state # "absent" /\ tasks[id].checkInCount > 0 => witnessed(tasks[id])
=============================================================================
