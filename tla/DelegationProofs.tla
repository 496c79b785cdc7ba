--------------------------- MODULE DelegationProofs ---------------------------
(***************************************************************************)
(* The delegation on the server (PersonalAgent), the script that works for *)
(* it (AgentWatch) and one assessment on its machine (ModelRunner).        *)
(*                                                                         *)
(* AgentInv: what is stored between two steps is Ready, what every handler *)
(* needs and every handler gives back before it saves; Settled, what       *)
(* saving adds; Covered, how the silence of the runtime bounds coverage;   *)
(* and OnTime, that the alarm is no later than whatever is due.  WatchInv  *)
(* adds, as long as the loop lives, what the replies on their way to it    *)
(* may name: a job never comes back, so a reply that is late names one     *)
(* that is new to the loop, or the one it works on.  RunnerInv follows one *)
(* process after the other to what the caller is told.                     *)
(***************************************************************************)
EXTENDS MCDelegation, WellFoundedInduction, SequenceTheorems, FiniteSetTheorems, TLAPS

(***************************************************************************)
(* The delegation on the server.                                           *)
(***************************************************************************)
Account == Guardians \cup {NoOne}
Status == {"requested", "approved", "connecting", "active", "ended"}
Room == [open : BOOLEAN, guardian : Account, assignment : Nat, guardMode : {"human", "ai"},
         nextCheckIn : Timer, aiNextCheckIn : Timer, assistance : BOOLEAN, help : BOOLEAN,
         status : Status, delegations : Nat, owner : Account, granted : Nat, token : Nat,
         tokens : Nat, expires : Nat, lastSeen : Timer, deadline : Timer, nextJob : Timer,
         job : Nat, jobs : Nat, done : SUBSET Nat, fresh : SUBSET Nat]

(* What every handler preserves before it saves: of the pending job and    *)
(* the jobs done, what a delegation that is over leaves, and who is due.   *)
JobsKept(r) == /\ r.job <= r.jobs /\ r.done \subseteq 1..r.jobs /\ r.job \notin r.done /\ r.fresh \subseteq r.done \cup {r.job}
               /\ 0 \notin r.fresh /\ r.token <= r.tokens
               /\ ~personalAgentConnected(r) => r.job = 0 /\ r.deadline = NoTimer /\ r.nextJob = NoTimer /\ r.done = {}
               /\ personalAgentConnected(r) => /\ r.lastSeen # NoTimer
                                               /\ r.job = 0 => r.nextJob # NoTimer
                                               /\ r.job # 0 => r.nextJob = NoTimer
                                               /\ r.job = 0 /\ r.deadline # NoTimer => r.nextJob = 0
                                               /\ r.job # 0 => r.deadline # NoTimer
TimesKept(r) == /\ r.lastSeen <= Connectivity /\ r.aiNextCheckIn <= AiCheckInEvery
                /\ r.open /\ r.guardMode = "human" => r.nextCheckIn # NoTimer
                /\ r.open /\ r.guardMode = "ai" /\ r.assistance /\ ~personalAgentConnected(r) => r.aiNextCheckIn # NoTimer
Ready(r) == r \in Room /\ JobsKept(r) /\ TimesKept(r)

(* What saving adds: only time and evidence end what is stored.            *)
Standing(r) == r.open /\ r.guardian = r.owner /\ r.assignment = r.granted /\ r.assistance /\ ~r.help
Settled(r) == /\ Ready(r) /\ (personalAgentLive(r) => Standing(r))
              /\ r.job = 0 => r.deadline = NoTimer
(* The time a runtime has been silent, and what is left to it.             *)
Covered(r, s) ==
  personalAgentConnected(r) => \E f \in FollowUps :
    \/ r.deadline # NoTimer /\ s + r.deadline <= f + Response
    \/ r.deadline = NoTimer /\ s + r.nextJob <= f
OnTime(r, a) == \A t \in Deadlines(r) : a # NoTimer /\ a <= t

Asked == [stage : {"asked", "performed", "asked again"}, token : Nat, op : Operations, job : Nat,
          followUp : FollowUps \cup {0}, restricted : BOOLEAN]
Calling == call = NoCall \/ (call \in Asked /\ (call.op = "assess" => call.followUp \in FollowUps))
AgentInv == /\ Settled(room) /\ Covered(room, silence) /\ OnTime(room, alarm)
            /\ alarm \in Timer /\ silence \in Nat /\ inputs \in Int /\ suspended \in BOOLEAN /\ Calling
            /\ given \subseteq 1..room.jobs /\ held \subseteq 1..room.tokens

LEMMA EndReady ==
  ASSUME NEW r, Ready(r), NEW h \in BOOLEAN, h /\ personalAgentConnected(r) => r.guardMode = "human"
  PROVE  /\ Ready(endPersonalAgent(r, h)) /\ ~personalAgentLive(endPersonalAgent(r, h))
         /\ endPersonalAgent(r, h).jobs = r.jobs /\ endPersonalAgent(r, h).tokens = r.tokens
<1> USE PersonalAgentAssumption DEF NoTimer
<1> DEFINE w == withoutAgent(r)
<1>1. CASE ~personalAgentLive(r)
  BY <1>1 DEF endPersonalAgent
<1>2. /\ w \in Room /\ ~personalAgentLive(w) /\ ~personalAgentConnected(w) /\ JobsKept(w) /\ w.jobs = r.jobs /\ w.tokens = r.tokens
      /\ w.lastSeen = r.lastSeen /\ w.aiNextCheckIn = r.aiNextCheckIn /\ w.open = r.open /\ w.guardMode = r.guardMode
      /\ w.assistance = r.assistance /\ w.nextCheckIn = r.nextCheckIn
  <2>1. r \in Room
    BY DEF Ready
  <2>2. w \in Room
    BY <2>1 DEF withoutAgent, Room, Status, Timer
  <2>3. /\ w.status = "ended" /\ w.token = 0 /\ w.job = 0 /\ w.deadline = NoTimer /\ w.nextJob = NoTimer /\ w.done = {} /\ w.fresh = {}
        /\ w.lastSeen = r.lastSeen /\ w.aiNextCheckIn = r.aiNextCheckIn /\ w.open = r.open /\ w.guardMode = r.guardMode
        /\ w.assistance = r.assistance /\ w.nextCheckIn = r.nextCheckIn /\ w.jobs = r.jobs /\ w.tokens = r.tokens
    BY <2>1 DEF withoutAgent, Room
  <2> HIDE DEF w
  <2>4. r.jobs \in Nat /\ r.tokens \in Nat
    BY <2>1 DEF Room
  <2> QED BY <2>2, <2>3, <2>4 DEF personalAgentLive, personalAgentConnected, JobsKept
<1>3. CASE personalAgentLive(r) /\ r.open /\ ~h /\ (r.status = "active" \/ r.guardMode = "ai")
  <2> DEFINE e == [w EXCEPT !.guardMode = "ai", !.nextCheckIn = NoTimer,
                            !.aiNextCheckIn = IF r.assistance THEN AiCheckInEvery ELSE NoTimer]
  <2>1. endPersonalAgent(r, h) = e
    BY <1>3 DEF endPersonalAgent
  <2>2. Ready(e) /\ ~personalAgentLive(e) /\ e.jobs = w.jobs /\ e.tokens = w.tokens
    <3> HIDE DEF w
    <3>1. e \in Room
      BY <1>2 DEF Room, Timer
    <3>2. /\ e.guardMode = "ai" /\ e.nextCheckIn = NoTimer /\ e.aiNextCheckIn = (IF r.assistance THEN AiCheckInEvery ELSE NoTimer)
      BY <1>2 DEF Room
    <3>3. /\ e.status = w.status /\ e.job = w.job /\ e.jobs = w.jobs /\ e.tokens = w.tokens /\ e.token = w.token
          /\ e.deadline = w.deadline /\ e.nextJob = w.nextJob /\ e.done = w.done /\ e.fresh = w.fresh
          /\ e.lastSeen = w.lastSeen /\ e.open = w.open /\ e.assistance = w.assistance
      BY <1>2 DEF Room
    <3> HIDE DEF e
    <3>4. JobsKept(e) /\ ~personalAgentConnected(e) /\ ~personalAgentLive(e)
      BY <1>2, <3>1, <3>2, <3>3 DEF JobsKept, personalAgentConnected, personalAgentLive
    <3>5. TimesKept(e)
      BY <1>2, <3>2, <3>3, <3>4 DEF TimesKept, Ready
    <3> QED BY <3>1, <3>3, <3>4, <3>5 DEF Ready
  <2> QED BY <2>1, <2>2, <1>2
<1>4. CASE personalAgentLive(r) /\ ~(r.open /\ ~h /\ (r.status = "active" \/ r.guardMode = "ai"))
  <2>1. endPersonalAgent(r, h) = w
    BY <1>4 DEF endPersonalAgent
  <2>2. TimesKept(w)
    <3> HIDE DEF w
    <3> QED BY <1>2, <1>4 DEF Ready, TimesKept, JobsKept, personalAgentLive, personalAgentConnected, Room
  <2> QED BY <2>1, <2>2, <1>2 DEF Ready
<1> QED BY <1>1, <1>3, <1>4

LEMMA RefreshReady ==
  ASSUME NEW r, Ready(r), authorized(r), personalAgentConnected(r), NEW s \in Nat, Covered(r, s)
  PROVE  LET n == refreshJob(r)
         IN /\ Ready(n) /\ Covered(n, s) /\ n.jobs >= r.jobs /\ n.tokens = r.tokens /\ authorized(n)
            /\ personalAgentConnected(n) /\ (n.job = 0 => n.deadline = NoTimer)
<1> USE PersonalAgentAssumption DEF NoTimer
<1>1. CASE ~jobDue(r)
  <2>1. refreshJob(r) = r
    BY <1>1 DEF refreshJob
  <2> QED BY <1>1, <2>1 DEF jobDue, JobsKept, Ready, Room
<1>2. CASE jobDue(r)
  <2> DEFINE d == IF r.deadline = NoTimer THEN sooner(r.expires, Response) ELSE r.deadline
             n == newJob(r, d)
  <2>1. refreshJob(r) = n
    BY <1>2 DEF refreshJob
  <2>2. d \in Nat /\ d # 0 /\ (r.deadline # NoTimer => d = r.deadline)
        /\ (r.deadline = NoTimer => d <= Response)
    BY DEF sooner, Ready, Room, Timer, authorized
  <2> HIDE DEF d
  <2>3. Ready(n) /\ n.jobs >= r.jobs /\ n.tokens = r.tokens /\ authorized(n) /\ personalAgentConnected(n)
        /\ n.job # 0 /\ n.deadline = d /\ n.nextJob = NoTimer
    <3>1. n \in Room
      <4> DEFINE j == r.jobs + 1
                 q == r.fresh \cup {j}
      <4>1. j \in Nat /\ q \in SUBSET Nat /\ d \in Timer /\ NoTimer \in Timer /\ r \in Room
        BY <2>2 DEF Ready, Room, Timer
      <4>2. n = [r EXCEPT !.job = j, !.jobs = j, !.fresh = q, !.nextJob = NoTimer, !.deadline = d]
        BY <4>1 DEF newJob, Room
      <4> HIDE DEF j, q, n
      <4> QED BY <4>1, <4>2 DEF Room
    <3>2. /\ n.job = r.jobs + 1 /\ n.jobs = r.jobs + 1 /\ n.fresh = r.fresh \cup {r.jobs + 1} /\ n.nextJob = NoTimer /\ n.deadline = d
          /\ n.done = r.done /\ n.token = r.token /\ n.tokens = r.tokens /\ n.status = r.status
      BY DEF newJob, Ready, Room
    <3>3. /\ n.open = r.open /\ n.guardMode = r.guardMode /\ n.nextCheckIn = r.nextCheckIn /\ n.aiNextCheckIn = r.aiNextCheckIn
          /\ n.assistance = r.assistance /\ n.help = r.help /\ n.guardian = r.guardian /\ n.owner = r.owner
          /\ n.assignment = r.assignment /\ n.granted = r.granted /\ n.expires = r.expires /\ n.lastSeen = r.lastSeen
      BY DEF newJob, Ready, Room
    <3>4. r.jobs \in Nat /\ r.job \in Nat /\ r.job \notin r.fresh
      BY <1>2 DEF Ready, Room, jobDue
    <3> HIDE DEF n
    <3>5. JobsKept(n) /\ personalAgentConnected(n)
      BY <2>2, <3>2, <3>3, <3>4 DEF Ready, JobsKept, personalAgentConnected
    <3>6. TimesKept(n) /\ authorized(n)
      BY <2>2, <3>2, <3>3, <3>5 DEF Ready, TimesKept, authorized, personalAgentConnected
    <3> QED BY <2>2, <3>1, <3>2, <3>4, <3>5, <3>6 DEF Ready
  <2>4. Covered(n, s)
    <3>1. PICK f \in FollowUps : \/ r.deadline # NoTimer /\ s + r.deadline <= f + Response
                                 \/ r.deadline = NoTimer /\ s + r.nextJob <= f
      BY DEF Covered
    <3>2. r.deadline = NoTimer => r.nextJob \in Nat
      BY DEF Ready, JobsKept, Room, Timer
    <3>3. f \in Nat /\ r.deadline \in Int
      BY DEF Ready, Room, Timer
    <3>4. s + d <= f + Response
      BY <2>2, <3>1, <3>2, <3>3
    <3> HIDE DEF n
    <3> QED BY <2>2, <2>3, <3>4 DEF Covered
  <2> HIDE DEF n
  <2> QED BY <2>1, <2>3, <2>4
<1> QED BY <1>1, <1>2

LEMMA ReconcileSettles ==
  ASSUME NEW r, Ready(r), NEW s \in Nat, Covered(r, s)
  PROVE  LET n == reconcile(r)
         IN /\ Settled(n) /\ Covered(n, s) /\ n.jobs >= r.jobs /\ n.tokens = r.tokens
            /\ personalAgentLive(n) => authorized(n)
<1> USE DEF NoTimer
<1>1. CASE ~personalAgentLive(r)
  BY <1>1 DEF reconcile, Settled, Ready, Room, JobsKept, personalAgentLive, personalAgentConnected
<1>2. CASE personalAgentLive(r) /\ ~authorized(r)
  <2> DEFINE h == replaced(r) /\ r.guardMode = "human"
             n == endPersonalAgent(r, h)
  <2>1. reconcile(r) = n
    BY <1>2 DEF reconcile
  <2>2. h \in BOOLEAN /\ (h => r.guardMode = "human")
    BY DEF replaced
  <2> HIDE DEF h
  <2>3. Ready(n) /\ ~personalAgentLive(n) /\ n.jobs = r.jobs /\ n.tokens = r.tokens
    BY <2>2, EndReady
  <2> HIDE DEF n
  <2>4. Settled(n) /\ Covered(n, s) /\ n.jobs >= r.jobs
    BY <2>3 DEF Settled, Covered, Ready, Room, JobsKept, personalAgentLive, personalAgentConnected
  <2> QED BY <2>1, <2>3, <2>4
<1>3. CASE authorized(r) /\ personalAgentConnected(r)
  <2> DEFINE n == refreshJob(r)
  <2>1. reconcile(r) = n
    BY <1>3 DEF reconcile, personalAgentLive, personalAgentConnected
  <2>2. /\ Ready(n) /\ Covered(n, s) /\ n.jobs >= r.jobs /\ n.tokens = r.tokens /\ authorized(n)
        /\ personalAgentConnected(n) /\ (n.job = 0 => n.deadline = NoTimer)
    BY <1>3, RefreshReady
  <2> HIDE DEF n
  <2>3. Settled(n)
    BY <2>2 DEF Settled, Standing, authorized
  <2> QED BY <2>1, <2>2, <2>3
<1>4. CASE authorized(r) /\ personalAgentLive(r) /\ ~personalAgentConnected(r)
  <2>1. reconcile(r) = r
    BY <1>4 DEF reconcile
  <2> QED BY <1>4, <2>1 DEF Settled, Standing, authorized, Ready, Room, JobsKept
<1> QED BY <1>1, <1>2, <1>3, <1>4

LEMMA SaveSettles ==
  ASSUME NEW r, Ready(r), NEW s \in Nat, Covered(r, s)
  PROVE  LET n == save(r) IN Settled(n) /\ Covered(n, s) /\ n.jobs >= r.jobs /\ n.tokens = r.tokens
<1> USE PersonalAgentAssumption DEF NoTimer
<1> DEFINE m == reconcile(r)
           n == [m EXCEPT !.aiNextCheckIn = NoTimer]
<1>1. Settled(m) /\ Covered(m, s) /\ m.jobs >= r.jobs /\ m.tokens = r.tokens
  BY ReconcileSettles
<1>2. save(r) = IF m.assistance THEN m ELSE n
  BY DEF save
<1> HIDE DEF m
<1>3. CASE ~m.assistance
  <2>1. Settled(n) /\ n.jobs = m.jobs /\ n.tokens = m.tokens
        /\ n.status = m.status /\ n.deadline = m.deadline /\ n.nextJob = m.nextJob
    BY <1>1, <1>3 DEF Settled, Ready, Room, Timer, JobsKept, TimesKept, personalAgentConnected, personalAgentLive, Standing
  <2> HIDE DEF n
  <2>2. Covered(n, s)
    BY <1>1, <2>1 DEF Covered, personalAgentConnected
  <2> QED BY <1>1, <1>2, <1>3, <2>1, <2>2
<1> QED BY <1>1, <1>2, <1>3

-----------------------------------------------------------------------------
(* The alarm: none of the stored deadlines is earlier, whether a handler   *)
(* sets it or leaves it as it is.                                          *)
LEMMA LeastIsChosen ==
  ASSUME NEW S, S \subseteq Nat, S # {}
  PROVE  LET t == CHOOSE t \in S : \A d \in S : t <= d
         IN t \in S /\ \A d \in S : t <= d
<1>1. PICK d \in S : \A e \in S : ~ (<<e, d>> \in OpToRel(<, Nat))
  BY WFMin, NatLessThanWellFounded, Zenon
<1>2. \A e \in S : <<e, d>> \in Nat \X Nat
  OBVIOUS
<1>3. \A e \in S : ~(e < d)
  BY <1>1, <1>2 DEF OpToRel
<1>4. \A e \in S : d <= e
  BY <1>3
<1> QED BY <1>4

LEMMA ScheduleOnTime ==
  ASSUME NEW r, r \in Room
  PROVE  schedule(r) \in Timer /\ OnTime(r, schedule(r))
<1>1. Deadlines(r) \subseteq Nat
  BY DEF Deadlines, Room, Timer, NoTimer
<1>2. CASE Deadlines(r) = {}
  BY <1>2 DEF schedule, OnTime, Timer
<1>3. CASE Deadlines(r) # {}
  <2> DEFINE S == Deadlines(r)
             c == CHOOSE t \in S : \A d \in S : t <= d
  <2>1. c \in S /\ \A d \in S : c <= d
    BY <1>1, <1>3, LeastIsChosen
  <2>2. schedule(r) = c
    BY <1>3 DEF schedule
  <2> HIDE DEF c
  <2> QED BY <1>1, <2>1, <2>2 DEF OnTime, Timer, NoTimer
<1> QED BY <1>2, <1>3

LEMMA EndOnTime ==
  ASSUME NEW r, Settled(r), personalAgentLive(r), NEW a \in Timer, OnTime(r, a),
         NEW h \in BOOLEAN, h /\ personalAgentConnected(r) => r.guardMode = "human"
  PROVE  OnTime(endPersonalAgent(r, h), a)
<1> USE PersonalAgentAssumption DEF NoTimer, Timer
<1> DEFINE w == withoutAgent(r)
           e == [w EXCEPT !.guardMode = "ai", !.nextCheckIn = NoTimer,
                          !.aiNextCheckIn = IF r.assistance THEN AiCheckInEvery ELSE NoTimer]
<1>1. r \in Room /\ r.open /\ r.assistance
  BY DEF Settled, Ready, Standing
<1>2. w \in Room
  BY <1>1 DEF withoutAgent, Room, Status
<1>3. /\ w.status = "ended" /\ w.job = 0 /\ w.deadline = NoTimer /\ w.nextJob = NoTimer /\ w.aiNextCheckIn = r.aiNextCheckIn
      /\ w.open = r.open /\ w.guardMode = r.guardMode /\ w.nextCheckIn = r.nextCheckIn
  BY <1>1 DEF withoutAgent, Room
<1> HIDE DEF w
<1>4. CASE ~h /\ (r.status = "active" \/ r.guardMode = "ai")
  <2>1. endPersonalAgent(r, h) = e
    BY <1>1, <1>4 DEF endPersonalAgent, w
  <2>2. /\ e.status = "ended" /\ e.job = 0 /\ e.deadline = NoTimer /\ e.nextJob = NoTimer /\ e.nextCheckIn = NoTimer
        /\ e.aiNextCheckIn = AiCheckInEvery /\ e.guardMode = "ai" /\ e.open
    BY <1>1, <1>2, <1>3 DEF Room
  <2> HIDE DEF e
  <2>3. Deadlines(e) \subseteq {AiCheckInEvery}
    BY <2>2 DEF Deadlines, personalAgentLive, personalAgentConnected
  <2>4. a # NoTimer /\ a <= AiCheckInEvery
    <3>1. CASE personalAgentConnected(r)
      <4>1. r.lastSeen \in Deadlines(r)
        BY <1>1, <3>1 DEF Deadlines, Settled, Ready, JobsKept
      <4> QED BY <1>1, <4>1 DEF OnTime, Settled, Ready, TimesKept, Room
    <3>2. CASE ~personalAgentConnected(r)
      <4>1. r.guardMode = "ai" /\ r.aiNextCheckIn # NoTimer
        BY <1>1, <1>4, <3>2 DEF Settled, Ready, TimesKept, personalAgentConnected
      <4>2. r.aiNextCheckIn \in Deadlines(r)
        BY <1>1, <4>1 DEF Deadlines
      <4> QED BY <1>1, <4>2 DEF OnTime, Settled, Ready, TimesKept, Room
    <3> QED BY <3>1, <3>2
  <2> QED BY <2>1, <2>3, <2>4 DEF OnTime
<1>5. CASE ~(~h /\ (r.status = "active" \/ r.guardMode = "ai"))
  <2>1. endPersonalAgent(r, h) = w
    BY <1>5 DEF endPersonalAgent, w
  <2>2. Deadlines(w) \subseteq Deadlines(r)
    BY <1>1, <1>3 DEF Deadlines, personalAgentLive, personalAgentConnected
  <2> QED BY <2>1, <2>2 DEF OnTime
<1> QED BY <1>4, <1>5

LEMMA RefreshOnTime ==
  ASSUME NEW r, Settled(r), authorized(r), personalAgentConnected(r), NEW a \in Timer, OnTime(r, a)
  PROVE  OnTime(refreshJob(r), a)
<1> USE PersonalAgentAssumption DEF NoTimer, Timer
<1>1. CASE ~jobDue(r)
  BY <1>1 DEF refreshJob
<1>2. CASE jobDue(r)
  <2> DEFINE d == IF r.deadline = NoTimer THEN sooner(r.expires, Response) ELSE r.deadline
             n == newJob(r, d)
  <2>1. refreshJob(r) = n
    BY <1>2 DEF refreshJob
  <2>2. r \in Room /\ r.open /\ r.lastSeen # NoTimer /\ r.lastSeen <= Connectivity
    BY DEF Settled, Ready, authorized, JobsKept, TimesKept
  <2>3. /\ n.job = r.jobs + 1 /\ n.nextJob = NoTimer /\ n.deadline = d
        /\ n.status = r.status /\ n.open = r.open /\ n.guardMode = r.guardMode /\ n.nextCheckIn = r.nextCheckIn
        /\ n.aiNextCheckIn = r.aiNextCheckIn /\ n.expires = r.expires /\ n.lastSeen = r.lastSeen
    BY <2>2 DEF newJob, Room
  <2>4. r.lastSeen \in Deadlines(r) /\ r.expires \in Deadlines(r) /\ (r.deadline # NoTimer => r.deadline \in Deadlines(r))
    BY <2>2 DEF Deadlines, Room, personalAgentLive, personalAgentConnected
  <2>5. a # NoTimer /\ a <= d
    BY <2>2, <2>4 DEF OnTime, sooner, Room
  <2> HIDE DEF d, n
  <2>6. Deadlines(n) \subseteq Deadlines(r) \cup {d}
    BY <2>2, <2>3 DEF Deadlines, personalAgentLive, personalAgentConnected, Room
  <2> QED BY <2>1, <2>5, <2>6 DEF OnTime
<1> QED BY <1>1, <1>2

LEMMA ReconcileOnTime ==
  ASSUME NEW r, Settled(r), NEW a \in Timer, OnTime(r, a)
  PROVE  OnTime(reconcile(r), a)
<1>1. CASE ~personalAgentLive(r)
  BY <1>1 DEF reconcile
<1>2. CASE personalAgentLive(r) /\ ~authorized(r)
  <2>1. reconcile(r) = endPersonalAgent(r, replaced(r) /\ r.guardMode = "human")
    BY <1>2 DEF reconcile
  <2> QED BY <1>2, <2>1, EndOnTime DEF replaced
<1>3. CASE authorized(r) /\ personalAgentConnected(r)
  BY <1>3, RefreshOnTime DEF reconcile, personalAgentLive, personalAgentConnected
<1>4. CASE authorized(r) /\ ~personalAgentConnected(r)
  BY <1>4 DEF reconcile
<1> QED BY <1>1, <1>2, <1>3, <1>4

(* Ending a delegation leaves nothing to reconcile.                        *)
LEMMA EndedIsSaved ==
  ASSUME NEW r, Settled(r), personalAgentLive(r)
  PROVE  LET e == endPersonalAgent(r, FALSE) IN save(e) = e
<1>1. /\ ~personalAgentLive(endPersonalAgent(r, FALSE)) 
      /\ endPersonalAgent(r, FALSE).assistance
  <2>1. r \in Room /\ r.assistance
    BY DEF Settled, Ready, Standing
  <2> QED BY <2>1 DEF endPersonalAgent, withoutAgent, Room, personalAgentLive
<1> QED BY <1>1 DEF save, reconcile

-----------------------------------------------------------------------------
(* What participants do.                                                   *)
LEMMA StoredKeeps ==
  ASSUME AgentInv, NEW r, Ready(r), silence' \in Nat, Covered(r, silence'),
         r.jobs >= room.jobs, r.tokens >= room.tokens,
         Stored(r), inputs' \in Int, suspended' \in BOOLEAN, Calling', UNCHANGED <<given, held>>
  PROVE  AgentInv'
<1>1. Settled(room') /\ Covered(room', silence') /\ room'.jobs >= r.jobs /\ room'.tokens = r.tokens
  BY SaveSettles DEF Stored
<1>2. alarm' \in Timer /\ OnTime(room', alarm')
  BY <1>1, ScheduleOnTime DEF Stored, Settled, Ready
<1>3. given' \subseteq 1..room'.jobs /\ held' \subseteq 1..room'.tokens
  <2>1. /\ room.jobs \in Nat /\ r.jobs \in Nat /\ room'.jobs \in Nat /\ room.tokens \in Nat /\ r.tokens \in Nat
        /\ given \subseteq 1..room.jobs /\ held \subseteq 1..room.tokens
    BY <1>1 DEF AgentInv, Settled, Ready, Room
  <2>2. room.jobs <= room'.jobs /\ room.tokens <= room'.tokens
    BY <1>1, <2>1
  <2>3. 1..room.jobs \subseteq 1..room'.jobs /\ 1..room.tokens \subseteq 1..room'.tokens
    BY <1>1, <2>1, <2>2
  <2> QED BY <2>1, <2>3
<1> QED BY <1>1, <1>2, <1>3 DEF AgentInv

(* A change that leaves the jobs alone.                                    *)
Amends(r, n) ==
  /\ n \in Room /\ n.job = r.job /\ n.jobs = r.jobs /\ n.done = r.done /\ n.fresh = r.fresh
  /\ n.token = r.token /\ n.tokens = r.tokens /\ n.status = r.status /\ n.deadline = r.deadline
  /\ n.nextJob = r.nextJob /\ n.lastSeen = r.lastSeen
  /\ n.aiNextCheckIn <= AiCheckInEvery
  /\ (n.open /\ n.guardMode = "human" => n.nextCheckIn # NoTimer)
  /\ (n.open /\ n.guardMode = "ai" /\ n.assistance /\ ~personalAgentConnected(n) => n.aiNextCheckIn # NoTimer)
Stays(r) == /\ r \in Room /\ JobsKept(r) /\ r.lastSeen <= Connectivity /\ r.aiNextCheckIn <= AiCheckInEvery
            /\ r.jobs >= room.jobs /\ r.tokens >= room.tokens /\ Covered(r, silence)

LEMMA AmendReady ==
  ASSUME NEW r, Stays(r), NEW n, Amends(r, n)
  PROVE  Ready(n) /\ Stays(n)
<1>1. JobsKept(n) /\ TimesKept(n)
  BY DEF Stays, Amends, JobsKept, TimesKept, personalAgentConnected
<1>2. Covered(n, silence)
  BY DEF Stays, Amends, Covered, personalAgentConnected
<1> QED BY <1>1, <1>2 DEF Ready, Stays, Amends, TimesKept

LEMMA LoadedStays ==
  ASSUME AgentInv
  PROVE  /\ Stays(Loaded) /\ Ready(Loaded)
         /\ Stays([room EXCEPT !.fresh = {}]) /\ Settled([room EXCEPT !.fresh = {}])
         /\ personalAgentLive(Loaded) => Standing(Loaded)
<1>1. room \in Room /\ Settled(room) /\ silence \in Nat /\ Covered(room, silence) /\ room.jobs \in Nat /\ room.tokens \in Nat
  BY DEF AgentInv, Settled, Ready, Room
<1> DEFINE m == reconcile(room)
<1>2. Settled(m) /\ Covered(m, silence) /\ m.jobs >= room.jobs /\ m.tokens = room.tokens
  BY <1>1, ReconcileSettles DEF Settled
<1>3. ASSUME NEW r, Settled(r), Covered(r, silence), r.jobs >= room.jobs, r.tokens >= room.tokens
      PROVE  LET n == [r EXCEPT !.fresh = {}]
             IN Stays(n) /\ Settled(n)
  <2> DEFINE n == [r EXCEPT !.fresh = {}]
  <2>1. n \in Room /\ n.job = r.job /\ n.jobs = r.jobs /\ n.done = r.done /\ n.fresh = {}
        /\ n.token = r.token /\ n.tokens = r.tokens /\ n.status = r.status /\ n.deadline = r.deadline
        /\ n.nextJob = r.nextJob /\ n.lastSeen = r.lastSeen /\ n.guardMode = r.guardMode /\ n.aiNextCheckIn = r.aiNextCheckIn
        /\ n.open = r.open /\ n.nextCheckIn = r.nextCheckIn /\ n.assistance = r.assistance
    BY <1>3 DEF Settled, Ready, Room
  <2>2. n.guardian = r.guardian /\ n.owner = r.owner /\ n.assignment = r.assignment /\ n.granted = r.granted /\ n.help = r.help
    BY <1>3 DEF Settled, Ready, Room
  <2> HIDE DEF n
  <2>3. JobsKept(n) /\ TimesKept(n)
    BY <1>3, <2>1 DEF Settled, Ready, JobsKept, TimesKept, personalAgentConnected
  <2>4. Covered(n, silence)
    BY <1>3, <2>1 DEF Covered, personalAgentConnected
  <2>5. Settled(n)
    BY <1>3, <2>1, <2>2, <2>3 DEF Settled, Ready, Standing, personalAgentLive
  <2>6. Stays(n)
    BY <1>3, <2>1, <2>3, <2>4 DEF Stays, TimesKept
  <2> QED BY <2>5, <2>6 DEF n
<1>4. Loaded = [m EXCEPT !.fresh = {}]
  BY DEF Loaded
<1> HIDE DEF m
<1>5. Stays(Loaded) /\ Settled(Loaded)
  BY <1>1, <1>2, <1>3, <1>4
<1>6. Stays([room EXCEPT !.fresh = {}]) /\ Settled([room EXCEPT !.fresh = {}])
  BY <1>1, <1>3
<1> QED BY <1>5, <1>6 DEF Settled

LEMMA ActKeeps ==
  ASSUME AgentInv, NEW r, Ready(r), Stays(r), Act(r)
  PROVE  AgentInv'
<1>1. silence' = silence /\ silence \in Nat /\ suspended' \in BOOLEAN /\ inputs' \in Int /\ UNCHANGED <<given, held>>
  BY DEF AgentInv, Act, Unasked
<1>2. Calling'
  BY DEF AgentInv, Calling, Act, Unasked
<1> QED BY <1>1, <1>2, StoredKeeps DEF Act, Stays

(* Whatever the mode, ending a delegation takes its jobs.                  *)
LEMMA EndStays ==
  ASSUME NEW r, Ready(r), Stays(r), NEW h \in BOOLEAN
  PROVE  LET e == endPersonalAgent(r, h)
         IN /\ Stays(e) /\ ~personalAgentLive(e)
            /\ (h /\ personalAgentConnected(r) => r.guardMode = "human") => Ready(e)
<1> DEFINE e == endPersonalAgent(r, h)
<1>1. CASE h /\ personalAgentConnected(r) => r.guardMode = "human"
  <2>1. Ready(e) /\ ~personalAgentLive(e) /\ e.jobs = r.jobs /\ e.tokens = r.tokens
    BY <1>1, EndReady
  <2> HIDE DEF e
  <2>2. Stays(e)
    BY <2>1 DEF Ready, TimesKept, Stays, Covered, personalAgentLive, personalAgentConnected
  <2> QED BY <2>1, <2>2 DEF e
<1>2. CASE h /\ personalAgentConnected(r) /\ r.guardMode # "human"
  <2>1. e = withoutAgent(r)
    BY <1>2 DEF endPersonalAgent, personalAgentLive, personalAgentConnected
  <2>0. r \in Room
    BY DEF Ready
  <2>2. e \in Room
    <3>1. withoutAgent(r) \in Room
      BY <2>0 DEF withoutAgent, Room, Status, Timer, NoTimer
    <3> QED BY <2>1, <3>1
  <2>3. /\ e.status = "ended" /\ e.token = 0 /\ e.job = 0 /\ e.deadline = NoTimer /\ e.nextJob = NoTimer /\ e.done = {} /\ e.fresh = {}
        /\ e.lastSeen = r.lastSeen /\ e.aiNextCheckIn = r.aiNextCheckIn /\ e.jobs = r.jobs /\ e.tokens = r.tokens
    BY <2>1 DEF withoutAgent, Room, Ready
  <2> HIDE DEF e
  <2>4. Stays(e) /\ ~personalAgentLive(e)
    BY <2>2, <2>3 DEF Stays, JobsKept, Covered, personalAgentConnected, personalAgentLive, Room
  <2> QED BY <1>2, <2>4 DEF e
<1> QED BY <1>1, <1>2

LEMMA TakeoverReady ==
  ASSUME NEW r, Stays(r)
  PROVE  Stays(takeover(r)) /\ Ready(takeover(r))
<1> USE PersonalAgentAssumption DEF NoTimer
<1> DEFINE v == IF r.assistance /\ ~personalAgentConnected(r) THEN AiCheckInEvery ELSE NoTimer
           n == [r EXCEPT !.guardMode = "ai", !.nextCheckIn = NoTimer, !.aiNextCheckIn = v]
<1>1. takeover(r) = n
  BY DEF takeover
<1>2. r \in Room /\ v \in Timer /\ v <= AiCheckInEvery
  BY DEF Stays, Timer
<1>3. n \in Room
  <2> HIDE DEF v
  <2> QED BY <1>2 DEF Room, Timer
<1>4. /\ n.job = r.job /\ n.jobs = r.jobs /\ n.done = r.done /\ n.fresh = r.fresh /\ n.token = r.token /\ n.tokens = r.tokens
      /\ n.status = r.status /\ n.deadline = r.deadline /\ n.nextJob = r.nextJob /\ n.lastSeen = r.lastSeen /\ n.open = r.open
      /\ n.assistance = r.assistance /\ n.guardMode = "ai" /\ n.aiNextCheckIn = v
  <2> HIDE DEF v
  <2> QED BY <1>2 DEF Room
<1> HIDE DEF n
<1>5. Amends(r, n)
  BY <1>2, <1>3, <1>4 DEF Amends, personalAgentConnected
<1> QED BY <1>1, <1>5, AmendReady

LEMMA GuardianReturns ==
  ASSUME AgentInv, GuardianCheckIn
  PROVE  \E n : Amends(endPersonalAgent(Loaded, TRUE), n) /\ Stays(endPersonalAgent(Loaded, TRUE)) /\ Act(n)
<1> USE PersonalAgentAssumption DEF NoTimer
<1> DEFINE r == Loaded
<1>2. Ready(r) /\ Stays(r)
  BY LoadedStays
<1> HIDE DEF r
<1> DEFINE e == endPersonalAgent(r, TRUE)
<1>11. Stays(e) /\ e \in Room /\ ~personalAgentLive(e) /\ (~personalAgentConnected(r) => Ready(e))
  BY <1>2, EndStays DEF Stays
<1> DEFINE back == personalAgentConnected(r)
           mode == IF back THEN "human" ELSE e.guardMode
           ai == IF back THEN NoTimer ELSE e.aiNextCheckIn
           due == IF mode = "human" THEN CheckInEvery ELSE e.nextCheckIn
           n == [e EXCEPT !.guardMode = mode, !.aiNextCheckIn = ai, !.nextCheckIn = due]
<1>21. Act([e EXCEPT !.guardMode = mode, !.aiNextCheckIn = IF back THEN NoTimer ELSE @,
                    !.nextCheckIn = IF mode = "human" THEN CheckInEvery ELSE @])
  BY DEF GuardianCheckIn, r
<1> HIDE DEF e
<1>22. Act(n)
  BY <1>11, <1>21 DEF Room
<1>23. mode \in {"human", "ai"} /\ ai \in Timer /\ due \in Timer /\ ai <= AiCheckInEvery
  BY <1>11 DEF Room, Timer, Stays
<1>24. Amends(e, n)
  <2>1. (e.open /\ mode = "human" => due # NoTimer)
    OBVIOUS
  <2>2. (e.open /\ mode = "ai" /\ e.assistance /\ ~personalAgentConnected(e) => ai # NoTimer)
    BY <1>11 DEF Ready, TimesKept, Room
  <2> HIDE DEF mode, ai, due
  <2>3. n \in Room
    BY <1>11, <1>23 DEF Room
  <2>4. /\ n.job = e.job /\ n.jobs = e.jobs /\ n.done = e.done /\ n.fresh = e.fresh /\ n.token = e.token /\ n.tokens = e.tokens
        /\ n.status = e.status /\ n.deadline = e.deadline /\ n.nextJob = e.nextJob /\ n.lastSeen = e.lastSeen
        /\ n.open = e.open /\ n.assistance = e.assistance /\ n.guardMode = mode /\ n.nextCheckIn = due /\ n.aiNextCheckIn = ai
    BY <1>11 DEF Room
  <2> HIDE DEF n
  <2> QED BY <1>23, <2>1, <2>2, <2>3, <2>4 DEF Amends, personalAgentConnected
<1> HIDE DEF n
<1> QED BY <1>11, <1>22, <1>24 DEF e, r

(* Each act amends what was loaded.                                        *)
LEMMA ParticipantsKeep ==
  ASSUME AgentInv,
         \/ RiderSpeaks \/ RiderCheckIn \/ Help \/ GuardianCheckIn \/ Resume \/ Takeover
         \/ (\E g \in Guardians : ApproveGuardian(g))
         \/ (\E on \in BOOLEAN : SetAssistance(on)) \/ Close \/ DeleteGuardian
  PROVE  AgentInv'
<1> USE PersonalAgentAssumption DEF NoTimer
<1> DEFINE r == Loaded
<1>2. Ready(r) /\ Stays(r) /\ r \in Room /\ (personalAgentLive(r) => Standing(r)) /\ r.aiNextCheckIn <= AiCheckInEvery
  BY LoadedStays DEF Stays
<1> HIDE DEF r
<1>3. CASE RiderSpeaks
  BY <1>2, <1>3, ActKeeps DEF RiderSpeaks, r
<1>4. ASSUME NEW n, Amends(r, n), Act(n) PROVE AgentInv'
  BY <1>2, <1>4, AmendReady, ActKeeps
<1>5. CASE RiderCheckIn
  <2> DEFINE n == [r EXCEPT !.aiNextCheckIn = IF r.guardMode = "ai" THEN AiCheckInEvery ELSE @]
  <2>1. Amends(r, n)
    BY <1>2 DEF Amends, Ready, JobsKept, TimesKept, Room, Timer, personalAgentConnected
  <2>2. Act(n)
    BY <1>5 DEF RiderCheckIn, r
  <2> HIDE DEF n
  <2> QED BY <1>4, <2>1, <2>2
<1>6. CASE Help
  <2> DEFINE n == [r EXCEPT !.help = TRUE]
  <2>1. Amends(r, n)
    BY <1>2 DEF Amends, Ready, JobsKept, TimesKept, Room, Timer, personalAgentConnected
  <2>2. Act(n)
    BY <1>6 DEF Help, r
  <2> HIDE DEF n
  <2> QED BY <1>4, <2>1, <2>2
<1>7. CASE Close
  <2> DEFINE n == [r EXCEPT !.open = FALSE, !.nextCheckIn = NoTimer, !.aiNextCheckIn = NoTimer]
  <2>1. Amends(r, n)
    <3>1. n \in Room
      BY <1>2 DEF Room, Timer
    <3>2. /\ n.job = r.job /\ n.jobs = r.jobs /\ n.done = r.done /\ n.fresh = r.fresh /\ n.token = r.token /\ n.tokens = r.tokens
          /\ n.status = r.status /\ n.deadline = r.deadline /\ n.nextJob = r.nextJob /\ n.lastSeen = r.lastSeen /\ n.guardMode = r.guardMode /\ n.assistance = r.assistance
      BY <1>2 DEF Room
    <3>3. n.open = FALSE /\ n.nextCheckIn = NoTimer /\ n.aiNextCheckIn = NoTimer
      BY <1>2 DEF Room
    <3> HIDE DEF n
    <3> QED BY <1>2, <3>1, <3>2, <3>3 DEF Amends, Ready, JobsKept, TimesKept, personalAgentConnected
  <2>2. Act(n)
    BY <1>7 DEF Close, r
  <2> HIDE DEF n
  <2> QED BY <1>4, <2>1, <2>2
<1>8. ASSUME NEW on \in BOOLEAN, SetAssistance(on) PROVE AgentInv'
  <2> DEFINE v == IF on /\ r.guardMode = "ai" THEN AiCheckInEvery ELSE r.aiNextCheckIn
             n == [r EXCEPT !.assistance = on, !.aiNextCheckIn = v]
  <2>0. v \in Timer
    BY <1>2 DEF Room, Timer
  <2>2. Act(n)
    BY <1>2, <1>8 DEF SetAssistance, r, Room
  <2>1. Amends(r, n)
    <3> HIDE DEF v
    <3>1. n \in Room
      BY <1>2, <2>0 DEF Room
    <3>2. /\ n.job = r.job /\ n.jobs = r.jobs /\ n.done = r.done /\ n.fresh = r.fresh /\ n.token = r.token /\ n.tokens = r.tokens
          /\ n.status = r.status /\ n.deadline = r.deadline /\ n.nextJob = r.nextJob /\ n.lastSeen = r.lastSeen /\ n.open = r.open /\ n.guardMode = r.guardMode
          /\ n.nextCheckIn = r.nextCheckIn
      BY <1>2 DEF Room
    <3>3. n.assistance = on /\ n.aiNextCheckIn = v
      BY <1>2 DEF Room
    <3> HIDE DEF n
    <3> QED BY <1>2, <3>1, <3>2, <3>3 DEF v, Amends, Ready, JobsKept, TimesKept, personalAgentConnected
  <2> HIDE DEF n
  <2> QED BY <1>4, <2>1, <2>2
<1>9. CASE Takeover
  <2>1. Stays(takeover(r)) /\ Ready(takeover(r))
    BY <1>2, TakeoverReady
  <2>2. Act(takeover(r))
    BY <1>9 DEF Takeover, r
  <2> QED BY <2>1, <2>2, ActKeeps
<1>10. ASSUME NEW g \in Guardians, ApproveGuardian(g) PROVE AgentInv'
  <2> DEFINE n == [r EXCEPT !.guardian = g, !.assignment = @ + 1, !.guardMode = "human",
                            !.nextCheckIn = CheckInEvery, !.aiNextCheckIn = NoTimer]
  <2>2. Act(n)
    BY <1>10 DEF ApproveGuardian, r
  <2>3. n \in Room
    <3>1. r.assignment + 1 \in Nat /\ g \in Account /\ CheckInEvery \in Timer
      BY <1>2 DEF Room, Account, Timer
    <3>2. n = [r EXCEPT !.guardian = g, !.assignment = r.assignment + 1, !.guardMode = "human",
                        !.nextCheckIn = CheckInEvery, !.aiNextCheckIn = NoTimer]
      BY <1>2 DEF Room
    <3> DEFINE q == r.assignment + 1
    <3> HIDE DEF q, n
    <3> QED BY <1>2, <3>1, <3>2 DEF q, Room, Timer
  <2>4. /\ n.job = r.job /\ n.jobs = r.jobs /\ n.done = r.done /\ n.fresh = r.fresh /\ n.token = r.token /\ n.tokens = r.tokens
        /\ n.status = r.status /\ n.deadline = r.deadline /\ n.nextJob = r.nextJob /\ n.lastSeen = r.lastSeen
        /\ n.guardMode = "human" /\ n.nextCheckIn = CheckInEvery /\ n.aiNextCheckIn = NoTimer
    BY <1>2 DEF Room
  <2> HIDE DEF n
  <2>5. Amends(r, n)
    BY <2>3, <2>4 DEF Amends
  <2> QED BY <1>4, <2>2, <2>5
<1> DEFINE e == endPersonalAgent(r, TRUE)
<1>11. Stays(e) /\ e \in Room /\ ~personalAgentLive(e) /\ (~personalAgentConnected(r) => Ready(e))
  BY <1>2, EndStays DEF Stays
<1>12. CASE GuardianCheckIn
  BY <1>12, GuardianReturns, AmendReady, ActKeeps
<1>13. CASE Resume
  <2> DEFINE n == [e EXCEPT !.guardMode = "human", !.aiNextCheckIn = NoTimer, !.nextCheckIn = CheckInEvery]
  <2>1. Act(n)
    BY <1>13 DEF Resume, r
  <2> HIDE DEF e
  <2>2. n \in Room
    BY <1>11 DEF Room, Timer
  <2>3. /\ n.job = e.job /\ n.jobs = e.jobs /\ n.done = e.done /\ n.fresh = e.fresh /\ n.token = e.token /\ n.tokens = e.tokens
        /\ n.status = e.status /\ n.deadline = e.deadline /\ n.nextJob = e.nextJob /\ n.lastSeen = e.lastSeen
        /\ n.guardMode = "human" /\ n.nextCheckIn = CheckInEvery /\ n.aiNextCheckIn = NoTimer
    BY <1>11 DEF Room
  <2> HIDE DEF n
  <2>4. Amends(e, n)
    BY <2>2, <2>3 DEF Amends
  <2> QED BY <1>11, <2>1, <2>4, AmendReady, ActKeeps
<1>14. CASE DeleteGuardian
  <2> DEFINE b == [room EXCEPT !.fresh = {}]
             d == endPersonalAgent(b, FALSE)
             n == [d EXCEPT !.guardian = NoOne]
  <2>1. Act(takeover(n))
    BY <1>14 DEF DeleteGuardian
  <2>2. Stays(b) /\ Ready(b)
    BY LoadedStays DEF Settled
  <2> HIDE DEF b
  <2>3. Stays(d) /\ ~personalAgentLive(d) /\ d \in Room /\ Ready(d)
    BY <2>2, EndStays DEF Stays
  <2> HIDE DEF d
  <2>4. Amends(d, n)
    BY <2>3 DEF Amends, Ready, JobsKept, TimesKept, Room, Account, personalAgentConnected
  <2> HIDE DEF n
  <2>5. Stays(n)
    BY <2>3, <2>4, AmendReady
  <2> QED BY <2>1, <2>5, TakeoverReady, ActKeeps
<1> QED BY <1>3, <1>5, <1>6, <1>7, <1>8, <1>9, <1>10, <1>12, <1>13, <1>14

-----------------------------------------------------------------------------
(* The delegation and the operations of the runtime.                       *)
LEMMA ReconciledStays ==
  ASSUME AgentInv
  PROVE  LET r == reconcile(room)
         IN /\ Settled(r) /\ Ready(r) /\ Stays(r) /\ OnTime(r, alarm) /\ (personalAgentLive(r) => authorized(r))
<1> DEFINE r == reconcile(room)
<1>1. Ready(room) /\ Covered(room, silence) /\ Settled(room) /\ silence \in Nat /\ room.tokens \in Nat
  BY DEF AgentInv, Settled, Ready, Room
<1>2. Settled(r) /\ Covered(r, silence) /\ r.jobs >= room.jobs /\ r.tokens = room.tokens
      /\ (personalAgentLive(r) => authorized(r))
  BY <1>1, ReconcileSettles
<1>3. OnTime(r, alarm)
  BY <1>1, ReconcileOnTime DEF AgentInv
<1> HIDE DEF r
<1>4. Ready(r) /\ Stays(r)
  BY <1>1, <1>2 DEF Settled, Ready, Stays, TimesKept
<1> QED BY <1>2, <1>3, <1>4 DEF r

LEMMA PutKeeps ==
  ASSUME AgentInv, Settled(room'), Stays(room'), OnTime(room', alarm), alarm' = alarm, silence' = silence,
         inputs' \in Int, suspended' \in BOOLEAN, Calling', given' \subseteq 1..room'.jobs, held' = held
  PROVE  AgentInv'
<1>1. Covered(room', silence') /\ silence' \in Nat /\ OnTime(room', alarm') /\ alarm' \in Timer
  BY DEF AgentInv, Stays
<1>2. held' \subseteq 1..room'.tokens
  <2>1. room.tokens \in Nat /\ room'.tokens \in Nat /\ room'.tokens >= room.tokens /\ held \subseteq 1..room.tokens
    BY DEF AgentInv, Settled, Ready, Room, Stays
  <2> QED BY <2>1
<1> QED BY <1>1, <1>2 DEF AgentInv

LEMMA RequestKeeps ==
  ASSUME AgentInv, Request \/ Approve \/ Revoke \/ Connect
  PROVE  AgentInv'
<1> USE PersonalAgentAssumption DEF NoTimer
<1> DEFINE r == reconcile(room)
<1>1. Ready(r) /\ Stays(r) /\ r \in Room
  BY ReconciledStays DEF Stays
<1>2. UNCHANGED <<silence, inputs, suspended, given, held>> /\ Calling'
  BY DEF AgentInv, Calling, Request, Approve, Revoke, Connect, Unasked
<1>3. ASSUME NEW n, Ready(n), Stays(n), Stored(n) PROVE AgentInv'
  BY <1>2, <1>3, StoredKeeps DEF AgentInv, Stays
<1>4. CASE Request
  <2> DEFINE n == [r EXCEPT !.status = "requested", !.delegations = @ + 1, !.owner = r.guardian,
                            !.granted = r.assignment, !.expires = Authorization, !.lastSeen = NoTimer]
  <2>1. Stored(n) /\ ~personalAgentLive(r)
    BY <1>4 DEF Request
  <2> HIDE DEF r
  <2>2. n \in Room
    <3>1. r.delegations + 1 \in Nat /\ Authorization \in Nat
      BY <1>1 DEF Room
    <3> QED BY <1>1, <3>1 DEF Room, Timer, Status
  <2>3. /\ n.job = r.job /\ n.jobs = r.jobs /\ n.done = r.done /\ n.fresh = r.fresh /\ n.token = r.token /\ n.tokens = r.tokens
        /\ n.deadline = r.deadline /\ n.nextJob = r.nextJob /\ n.open = r.open /\ n.guardMode = r.guardMode
        /\ n.assistance = r.assistance /\ n.nextCheckIn = r.nextCheckIn /\ n.aiNextCheckIn = r.aiNextCheckIn
        /\ n.status = "requested" /\ n.lastSeen = NoTimer
    BY <1>1 DEF Room
  <2> HIDE DEF n
  <2>4. Ready(n) /\ Stays(n)
    BY <1>1, <2>1, <2>2, <2>3 DEF Ready, JobsKept, TimesKept, Stays, Covered, personalAgentLive, personalAgentConnected
  <2> QED BY <1>3, <2>1, <2>4
<1>5. CASE Approve
  <2> DEFINE n == [r EXCEPT !.status = "approved"]
  <2>1. Stored(n) /\ r.status = "requested"
    BY <1>5 DEF Approve
  <2> HIDE DEF r
  <2>2. n \in Room
    BY <1>1 DEF Room, Status
  <2>3. /\ n.job = r.job /\ n.jobs = r.jobs /\ n.done = r.done /\ n.fresh = r.fresh /\ n.token = r.token /\ n.tokens = r.tokens
        /\ n.deadline = r.deadline /\ n.nextJob = r.nextJob /\ n.open = r.open /\ n.guardMode = r.guardMode
        /\ n.assistance = r.assistance /\ n.nextCheckIn = r.nextCheckIn /\ n.aiNextCheckIn = r.aiNextCheckIn
        /\ n.status = "approved" /\ n.lastSeen = r.lastSeen
    BY <1>1 DEF Room
  <2> HIDE DEF n
  <2>4. Ready(n) /\ Stays(n)
    BY <1>1, <2>1, <2>2, <2>3 DEF Ready, JobsKept, TimesKept, Stays, Covered, personalAgentConnected
  <2> QED BY <1>3, <2>1, <2>4
<1>6. CASE Revoke
  <2>1. Stored(endPersonalAgent(r, FALSE))
    BY <1>6 DEF Revoke
  <2>2. Ready(endPersonalAgent(r, FALSE)) /\ Stays(endPersonalAgent(r, FALSE))
    BY <1>1, EndStays
  <2> QED BY <1>3, <2>1, <2>2
<1>7. CASE Connect
  <2> DEFINE n == [r EXCEPT !.token = r.tokens + 1, !.tokens = @ + 1]
  <2>1. Stored(n)
    BY <1>7 DEF Connect
  <2> HIDE DEF r
  <2>0. r.tokens \in Nat /\ r.tokens + 1 \in Nat /\ room.tokens \in Nat
    BY <1>1 DEF Room, AgentInv, Settled, Ready
  <2>2. n \in Room /\ r.tokens \in Nat /\ room.tokens \in Nat
    <3> DEFINE q == r.tokens + 1
    <3>1. n = [r EXCEPT !.token = q, !.tokens = q]
      BY <1>1 DEF Room
    <3> HIDE DEF q, n
    <3> QED BY <1>1, <2>0, <3>1 DEF q, Room
  <2>3. /\ n.job = r.job /\ n.jobs = r.jobs /\ n.done = r.done /\ n.fresh = r.fresh /\ n.token = r.tokens + 1 /\ n.tokens = r.tokens + 1
        /\ n.deadline = r.deadline /\ n.nextJob = r.nextJob /\ n.open = r.open /\ n.guardMode = r.guardMode
        /\ n.assistance = r.assistance /\ n.nextCheckIn = r.nextCheckIn /\ n.aiNextCheckIn = r.aiNextCheckIn
        /\ n.status = r.status /\ n.lastSeen = r.lastSeen
    BY <1>1 DEF Room
  <2> HIDE DEF n
  <2>4. Ready(n)
    BY <1>1, <2>2, <2>3 DEF Ready, JobsKept, TimesKept, personalAgentConnected
  <2>5. Stays(n)
    BY <1>1, <2>2, <2>3, <2>4 DEF Ready, TimesKept, Stays, Covered, personalAgentConnected
  <2> QED BY <1>3, <2>1, <2>4, <2>5
<1> QED BY <1>4, <1>5, <1>6, <1>7

(* What an operation of a caller with authority makes of the delegation,   *)
(* and of the time that its runtime has been silent.                       *)
LEMMA PerformedReady ==
  ASSUME NEW r, Ready(r), Stays(r), authorized(r), NEW c, c.op = "assess" => c.followUp \in FollowUps,
         NEW n \in performed(r, c), silence \in Nat, NEW s \in Nat,
         s = IF answers(r, c) \/ (c.op = "accept" /\ r.status = "approved") THEN 0 ELSE silence
  PROVE  Ready(n) /\ Covered(n, s) /\ n.jobs >= room.jobs /\ n.tokens >= room.tokens
<1> USE PersonalAgentAssumption DEF NoTimer
<1>0. r \in Room
  BY DEF Ready
<1>1. CASE c.op = "release"
  <2>1. n = endPersonalAgent(r, FALSE)
    BY <1>1 DEF performed
  <2>2. Ready(n) /\ Stays(n) /\ ~personalAgentLive(n)
    BY <2>1, EndStays
  <2> QED BY <2>2 DEF Stays, Covered, personalAgentLive, personalAgentConnected
<1>2. CASE c.op = "accept" /\ r.status = "approved"
  <2> DEFINE d == sooner(r.expires, Response)
  <2>1. n = [r EXCEPT !.status = "connecting", !.lastSeen = Connectivity, !.nextJob = 0,
                      !.deadline = d, !.aiNextCheckIn = NoTimer, !.fresh = {}]
    BY <1>2 DEF performed
  <2>2. d \in Timer /\ d # NoTimer /\ d <= Response /\ d >= 0
    BY <1>0 DEF sooner, Timer, Room
  <2> HIDE DEF d
  <2>3. n \in Room
    BY <1>0, <2>1, <2>2 DEF Room, Timer, Status
  <2>4. /\ n.status = "connecting" /\ n.lastSeen = Connectivity /\ n.nextJob = 0 /\ n.deadline = d /\ n.aiNextCheckIn = NoTimer
        /\ n.fresh = {} /\ n.job = r.job /\ n.jobs = r.jobs /\ n.done = r.done /\ n.token = r.token /\ n.tokens = r.tokens
        /\ n.open = r.open /\ n.guardMode = r.guardMode /\ n.nextCheckIn = r.nextCheckIn
    BY <1>0, <2>1 DEF Room
  <2>5. Ready(n)
    BY <1>2, <2>2, <2>3, <2>4 DEF Ready, JobsKept, TimesKept, personalAgentConnected
  <2>6. Covered(n, s)
    <3>1. PICK f \in FollowUps : TRUE
      OBVIOUS
    <3>2. f \in Nat /\ s = 0
      BY <1>2
    <3>3. s + d <= f + Response
      BY <2>2, <3>2 DEF Timer
    <3> QED BY <2>2, <2>4, <3>3 DEF Covered
  <2> QED BY <2>4, <2>5, <2>6 DEF Stays
<1>3. CASE c.op = "heartbeat"
  <2>1. n = [r EXCEPT !.lastSeen = Connectivity] /\ s = silence /\ personalAgentConnected(r)
    BY <1>3 DEF performed, answers
  <2>2. n \in Room
    BY <1>0, <2>1 DEF Room, Timer
  <2>3. /\ n.lastSeen = Connectivity /\ n.job = r.job /\ n.jobs = r.jobs /\ n.done = r.done /\ n.fresh = r.fresh
        /\ n.token = r.token /\ n.tokens = r.tokens /\ n.status = r.status /\ n.deadline = r.deadline /\ n.nextJob = r.nextJob
        /\ n.open = r.open /\ n.guardMode = r.guardMode /\ n.assistance = r.assistance
        /\ n.nextCheckIn = r.nextCheckIn /\ n.aiNextCheckIn = r.aiNextCheckIn
    BY <1>0, <2>1 DEF Room
  <2>4. Ready(n)
    BY <2>2, <2>3 DEF Ready, JobsKept, TimesKept, personalAgentConnected
  <2> QED BY <2>1, <2>3, <2>4 DEF Stays, Covered, personalAgentConnected
<1>4. CASE answers(r, c) /\ personalAgentConnected(r)
  <2> DEFINE d == sooner(r.expires, c.followUp)
             q == r.done \cup {c.job}
  <2>0. c.op = "assess" /\ c.job = r.job /\ c.job \in r.fresh /\ c.followUp \in FollowUps /\ s = 0
    BY <1>4 DEF answers
  <2>1. n = [r EXCEPT !.status = "active", !.guardMode = "ai", !.nextCheckIn = NoTimer,
                      !.aiNextCheckIn = NoTimer, !.job = 0, !.deadline = NoTimer,
                      !.nextJob = d, !.done = q]
    BY <1>0, <1>4, <2>0 DEF performed, Room
  <2>8. c.followUp \in Nat /\ r.expires \in Nat /\ r.job \in Nat /\ r.jobs \in Nat /\ r.done \in SUBSET Nat
    BY <1>0, <2>0 DEF Room
  <2>9. d \in Nat /\ d <= c.followUp
    BY <2>8 DEF sooner
  <2>2. d \in Nat /\ d <= c.followUp /\ q \in SUBSET Nat /\ r.job \in Nat /\ r.jobs \in Nat
    BY <2>0, <2>8, <2>9
  <2> HIDE DEF d
  <2>3. n \in Room
    <3> HIDE DEF q
    <3> QED BY <1>0, <2>1, <2>2 DEF Room, Timer, Status
  <2>4. /\ n.status = "active" /\ n.lastSeen = r.lastSeen /\ n.nextJob = d /\ n.deadline = NoTimer /\ n.aiNextCheckIn = NoTimer
        /\ n.fresh = r.fresh /\ n.job = 0 /\ n.jobs = r.jobs /\ n.done = q /\ n.token = r.token /\ n.tokens = r.tokens
        /\ n.open = r.open /\ n.guardMode = "ai" /\ n.nextCheckIn = NoTimer
    BY <1>0, <2>1 DEF Room
  <2>5. JobsKept(n)
    BY <1>4, <2>0, <2>2, <2>4 DEF Ready, JobsKept, personalAgentConnected
  <2>6. TimesKept(n)
    BY <1>4, <2>4 DEF Ready, TimesKept, personalAgentConnected
  <2>7. Covered(n, s)
    <3>1. c.followUp \in Nat /\ s + d <= c.followUp
      BY <2>0, <2>8, <2>2
    <3> QED BY <2>0, <2>4, <3>1 DEF Covered
  <2> QED BY <2>3, <2>4, <2>5, <2>6, <2>7 DEF Ready, Stays
<1>5. CASE c.op # "release" /\ ~(c.op = "accept" /\ r.status = "approved") /\ c.op # "heartbeat"
           /\ ~(answers(r, c) /\ personalAgentConnected(r))
  <2>1. n = r /\ personalAgentConnected(r)
    BY <1>5 DEF performed
  <2>2. s = silence
    BY <1>5, <2>1
  <2> QED BY <2>1, <2>2 DEF Stays
<1> QED BY <1>1, <1>2, <1>3, <1>4, <1>5

LEMMA RefusedKeeps ==
  ASSUME AgentInv, room' = reconcile(room), UNCHANGED <<alarm, silence, inputs, suspended, held>>, Calling',
         given' \subseteq 1..room'.jobs
  PROVE  AgentInv'
BY ReconciledStays, PutKeeps DEF AgentInv

LEMMA GivenKept ==
  ASSUME AgentInv, NEW r, r \in Room, r.jobs >= room.jobs
  PROVE  given \subseteq 1..r.jobs
<1>1. room.jobs \in Nat /\ r.jobs \in Nat /\ given \subseteq 1..room.jobs
  BY DEF AgentInv, Settled, Ready, Room
<1> QED BY <1>1

LEMMA EndedKeeps ==
  ASSUME AgentInv, personalAgentLive(reconcile(room)), room' = save(endPersonalAgent(reconcile(room), FALSE)),
         UNCHANGED <<alarm, silence, inputs, suspended, held, given>>, Calling'
  PROVE  AgentInv'
<1> DEFINE r == reconcile(room)
           e == endPersonalAgent(r, FALSE)
<1>1. Settled(r) /\ Ready(r) /\ Stays(r) /\ OnTime(r, alarm) /\ alarm \in Timer
  BY ReconciledStays DEF AgentInv
<1>2. save(e) = e /\ OnTime(e, alarm) /\ Ready(e) /\ Stays(e) /\ ~personalAgentLive(e)
  BY <1>1, EndedIsSaved, EndOnTime, EndStays
<1> HIDE DEF r, e
<1>3. Settled(e) /\ room' = e
  BY <1>2 DEF Settled, Ready, JobsKept, personalAgentLive, personalAgentConnected, r, e
<1>4. given' \subseteq 1..e.jobs
  BY <1>2, GivenKept DEF Stays
<1> QED BY <1>2, <1>3, <1>4, PutKeeps DEF AgentInv

LEMMA RuntimeKeeps ==
  ASSUME AgentInv, Runtime
  PROVE  AgentInv'
<1> DEFINE r == reconcile(room)
<1>1. Settled(r) /\ Ready(r) /\ Stays(r) /\ OnTime(r, alarm) /\ (personalAgentLive(r) => authorized(r)) /\ r \in Room
  BY ReconciledStays DEF Stays
<1>2. given \subseteq 1..r.jobs
  BY <1>1, GivenKept DEF Stays
<1>3. given \subseteq Nat /\ held \subseteq Nat
  BY DEF AgentInv
<1>4. ASSUME NEW t \in held, NEW op \in Operations, NEW j \in Nat, NEW f \in FollowUps \cup {0},
             op = "assess" => f \in FollowUps, Ask(t, op, j, f)
      PROVE  AgentInv'
  <2>1. room' = r /\ UNCHANGED <<alarm, silence, inputs, suspended, held, given>>
    BY <1>4 DEF Ask, Refused
  <2>2. Calling'
    BY <1>3, <1>4 DEF Ask, Calling, Asked, AgentInv
  <2> QED BY <1>2, <2>1, <2>2, RefusedKeeps
<1>5. CASE Operate
  <2> DEFINE done == performed(r, call)
  <2>1. UNCHANGED <<held, given, suspended, inputs>> /\ call.stage = "asked"
    BY <1>5 DEF Operate
  <2>2. call \in Asked /\ (call.op = "assess" => call.followUp \in FollowUps)
    BY <2>1 DEF AgentInv, Calling, NoCall
  <2>3. CASE Refused /\ call' = NoCall /\ UNCHANGED silence
    BY <1>2, <2>1, <2>3, RefusedKeeps DEF Refused, Calling
  <2>4. CASE mayAct(r, call) /\ call.restricted
    BY <1>5, <2>1, <2>4, EndedKeeps DEF Operate, Calling, mayAct
  <2>5. CASE mayAct(r, call) /\ ~call.restricted /\ done # {}
    <3>1. PICK n \in done : Stored(n)
      BY <1>5, <2>5 DEF Operate
    <3>2. silence' = IF answers(r, call) \/ (call.op = "accept" /\ r.status = "approved") THEN 0 ELSE silence
      BY <1>5, <2>5 DEF Operate
    <3>3. authorized(r) /\ silence \in Nat /\ silence' \in Nat
      BY <1>1, <2>5, <3>2 DEF mayAct, AgentInv
    <3>4. Ready(n) /\ Covered(n, silence') /\ n.jobs >= room.jobs /\ n.tokens >= room.tokens
      BY <1>1, <2>2, <3>2, <3>3, PerformedReady
    <3>5. Calling'
      BY <1>5, <2>2, <2>5 DEF Operate, Calling, Asked
    <3>6. inputs' \in Int /\ suspended' \in BOOLEAN /\ UNCHANGED <<given, held>>
      BY <2>1 DEF AgentInv
    <3> QED BY <3>1, <3>3, <3>4, <3>5, <3>6, StoredKeeps
  <2> QED BY <1>5, <2>3, <2>4, <2>5 DEF Operate
<1>6. CASE AskAgain
  <2>1. UNCHANGED <<room, alarm, held, given, suspended, inputs, silence>> /\ call \in Asked
        /\ (call.op = "assess" => call.followUp \in FollowUps)
    BY <1>6 DEF AskAgain, AgentInv, Calling, NoCall
  <2>2. Calling'
    BY <1>6, <2>1 DEF AskAgain, AgentInv, Calling, Asked
  <2> QED BY <2>1, <2>2 DEF AgentInv
<1>7. CASE Answer
  <2>1. UNCHANGED <<alarm, held, suspended, inputs, silence>> /\ Calling'
    BY <1>7 DEF Answer, Calling
  <2>2. CASE mayAct(r, call) /\ call.restricted
    BY <1>7, <2>1, <2>2, EndedKeeps DEF Answer, mayAct
  <2>3. CASE ~(mayAct(r, call) /\ call.restricted)
    <3>1. room' = r
      BY <1>7, <2>3 DEF Answer
    <3>2. given' \subseteq given \cup (IF r.job # 0 THEN {r.job} ELSE {})
      BY <1>7 DEF Answer
    <3>3. r.job \in Nat /\ r.jobs \in Nat /\ r.job <= r.jobs
      BY <1>1 DEF Ready, Room, JobsKept
    <3> HIDE DEF r
    <3>4. given' \subseteq 1..r.jobs
      BY <1>2, <3>2, <3>3
    <3> QED BY <2>1, <3>1, <3>4, RefusedKeeps DEF r
  <2> QED BY <2>2, <2>3
<1>8. CASE Drop
  BY <1>8 DEF Drop, AgentInv, Calling
<1>9. CASE \E t \in held, op \in Operations \ {"assess"} : Ask(t, op, 0, 0)
  BY <1>4, <1>9
<1>10. CASE \E t \in held, j \in given, f \in FollowUps : Ask(t, "assess", j, f)
  BY <1>3, <1>4, <1>10 DEF Operations
<1> QED BY <1>5, <1>6, <1>7, <1>8, <1>9, <1>10 DEF Runtime

-----------------------------------------------------------------------------
(* The alarm and the clock.                                                *)
LEMMA WokenReady ==
  ASSUME AgentInv
  PROVE  LET r == reconcile(room)
         IN /\ Ready(woken) /\ Stays(woken)
            /\ woken.status = r.status /\ woken.job = r.job /\ woken.jobs = r.jobs /\ woken.done = r.done
<1> USE PersonalAgentAssumption DEF NoTimer
<1> DEFINE r == reconcile(room)
           t == IF r.guardMode = "human" /\ r.nextCheckIn = 0 THEN takeover(r) ELSE r
           n == [t EXCEPT !.aiNextCheckIn = AiCheckInEvery]
<1>1. Ready(r) /\ Stays(r)
  BY ReconciledStays
<1>2. Ready(t) /\ Stays(t)
  BY <1>1, TakeoverReady
<1>3. woken = r \/ woken = t \/ woken = n
  BY DEF woken
<1>5. woken.status = r.status /\ woken.job = r.job /\ woken.jobs = r.jobs /\ woken.done = r.done
  <2>1. r \in Room
    BY <1>1 DEF Ready
  <2> HIDE DEF r
  <2> QED BY <1>3, <2>1 DEF takeover, Room
<1> HIDE DEF r, t
<1>4. Amends(t, n)
  BY <1>2 DEF Amends, Ready, JobsKept, TimesKept, Room, Timer, personalAgentConnected
<1> HIDE DEF n
<1>6. Ready(woken) /\ Stays(woken)
  BY <1>1, <1>2, <1>3, <1>4, AmendReady
<1> QED BY <1>5, <1>6 DEF r

LEMMA AlarmKeeps ==
  ASSUME AgentInv, AlarmFires
  PROVE  AgentInv'
<1>1. Ready(woken) /\ Stays(woken)
  BY WokenReady
<1>2. Stored(woken) /\ UNCHANGED <<call, held, given, suspended, silence, inputs>>
  BY DEF AlarmFires, Unasked
<1> HIDE DEF woken
<1>3. Calling' /\ silence' \in Nat /\ inputs' \in Int /\ suspended' \in BOOLEAN
  BY <1>2 DEF AgentInv, Calling
<1> QED BY <1>1, <1>2, <1>3, StoredKeeps DEF Stays

(* A deadline that has come leaves the alarm something to do.              *)
LEMMA DueIsDone ==
  ASSUME AgentInv, personalAgentConnected(room),
         room.deadline = 0 \/ (room.deadline = NoTimer /\ room.nextJob = 0)
  PROVE  save(woken) # room
<1> USE DEF NoTimer
<1> DEFINE r == reconcile(room)
<1>1. Ready(room) /\ Settled(room) /\ room.jobs \in Nat /\ personalAgentLive(room)
  BY DEF AgentInv, Settled, Ready, Room, personalAgentConnected, personalAgentLive
<1>2. ~personalAgentLive(r) \/ r.jobs = room.jobs + 1
  <2>1. CASE authorized(room)
    <3>1. room.nextJob = 0 /\ room.deadline = NoTimer /\ r = refreshJob(room)
      BY <1>1, <2>1 DEF authorized, reconcile
    <3>2. jobDue(room)
      BY <1>1, <3>1 DEF jobDue, Ready, JobsKept
    <3>3. r = newJob(room, sooner(room.expires, Response))
      BY <3>1, <3>2 DEF refreshJob
    <3> QED BY <1>1, <3>3 DEF newJob, Ready, Room
  <2>2. CASE ~authorized(room)
    <3>1. r = endPersonalAgent(room, replaced(room) /\ room.guardMode = "human")
      BY <1>1, <2>2 DEF reconcile
    <3> QED BY <1>1, <3>1, EndReady DEF replaced
  <2> QED BY <2>1, <2>2
<1>3. r \in Room /\ r.jobs \in Nat
  BY ReconciledStays DEF Stays, Room
<1>4. woken.status = r.status /\ woken.jobs = r.jobs
  BY WokenReady
<1>5. Ready(woken) /\ Stays(woken) /\ silence \in Nat
  BY WokenReady DEF AgentInv
<1> HIDE DEF r
<1> DEFINE w == woken
<1>6. w.status = r.status /\ w.jobs = r.jobs /\ Ready(w) /\ Stays(w)
  BY <1>4, <1>5
<1> HIDE DEF w
<1>7. save(w).jobs >= w.jobs /\ save(w).jobs \in Nat
  BY <1>5, <1>6, SaveSettles DEF Stays, Settled, Ready, Room
<1>8. CASE r.jobs = room.jobs + 1
  BY <1>1, <1>6, <1>7, <1>8 DEF w
<1>9. CASE ~personalAgentLive(r)
  <2>1. ~personalAgentLive(w)
    BY <1>6, <1>9 DEF personalAgentLive
  <2>2. save(w).status = w.status
    BY <1>6, <2>1 DEF save, reconcile, Ready, Room
  <2> QED BY <1>1, <1>6, <1>9, <2>2 DEF personalAgentLive, w
<1> QED BY <1>2, <1>8, <1>9

LEMMA TickKeeps ==
  ASSUME AgentInv, Tick
  PROVE  AgentInv'
<1> USE PersonalAgentAssumption DEF NoTimer
<1>1. ASSUME NEW t \in Timer
      PROVE  /\ Elapse(t) \in Timer /\ Elapse(t) <= t /\ (Elapse(t) = NoTimer <=> t = NoTimer) /\ (t \in Nat => Elapse(t) \in Nat)
             /\ (t > 0 => Elapse(t) = t - 1)
  BY DEF Elapse, Timer
<1>2. /\ Settled(room) /\ room \in Room /\ alarm \in Timer /\ silence \in Nat /\ Covered(room, silence) /\ OnTime(room, alarm)
      /\ JobsKept(room) /\ TimesKept(room)
  BY DEF AgentInv, Settled, Ready
<1>3. /\ room.nextCheckIn \in Timer /\ room.aiNextCheckIn \in Timer /\ room.expires \in Nat /\ room.lastSeen \in Timer
      /\ room.deadline \in Timer /\ room.nextJob \in Timer /\ room.expires \in Timer
  BY <1>2 DEF Room, Timer
<1> DEFINE ci == Elapse(room.nextCheckIn)
           ai == Elapse(room.aiNextCheckIn)
           ex == Elapse(room.expires)
           ls == Elapse(room.lastSeen)
           dl == Elapse(room.deadline)
           nj == Elapse(room.nextJob)
           n == [room EXCEPT !.nextCheckIn = ci, !.aiNextCheckIn = ai, !.expires = ex,
                             !.lastSeen = ls, !.deadline = dl, !.nextJob = nj]
<1>4. /\ {ci, ai, ls, dl, nj} \subseteq Timer /\ ex \in Nat
      /\ (ci = NoTimer <=> room.nextCheckIn = NoTimer) /\ (ai = NoTimer <=> room.aiNextCheckIn = NoTimer)
      /\ (ls = NoTimer <=> room.lastSeen = NoTimer) /\ (dl = NoTimer <=> room.deadline = NoTimer)
      /\ (nj = NoTimer <=> room.nextJob = NoTimer) /\ ai <= room.aiNextCheckIn /\ ls <= room.lastSeen
  BY <1>1, <1>3
<1>5. room' = n
  BY <1>2 DEF Tick, Room
<1>6. UNCHANGED <<call, held, given, suspended, inputs>> /\ alarm' = Elapse(alarm)
      /\ silence' = (IF personalAgentConnected(room) THEN silence + 1 ELSE 0) /\ (alarm = 0 => save(woken) = room)
  BY DEF Tick
<1>7. n \in Room
  <2> HIDE DEF ci, ai, ex, ls, dl, nj
  <2> QED BY <1>2, <1>4 DEF Room
<1>8. /\ n.open = room.open /\ n.guardian = room.guardian /\ n.assignment = room.assignment /\ n.guardMode = room.guardMode
      /\ n.assistance = room.assistance /\ n.help = room.help /\ n.status = room.status /\ n.owner = room.owner
      /\ n.granted = room.granted /\ n.token = room.token /\ n.tokens = room.tokens /\ n.job = room.job /\ n.jobs = room.jobs
      /\ n.done = room.done /\ n.fresh = room.fresh
  BY <1>2 DEF Room
<1>9. n.nextCheckIn = ci /\ n.aiNextCheckIn = ai /\ n.expires = ex /\ n.lastSeen = ls /\ n.deadline = dl /\ n.nextJob = nj
  BY <1>2 DEF Room
<1> HIDE DEF n
<1>10. Settled(n)
  <2>1. JobsKept(n)
    <3>1. room.job = 0 => room.deadline = NoTimer
      BY <1>2 DEF Settled
    <3> HIDE DEF ci, ai, ex, ls, dl, nj
    <3> QED BY <1>2, <1>4, <1>8, <1>9, <3>1 DEF JobsKept, personalAgentConnected
  <2>2. TimesKept(n)
    <3>1. ls <= Connectivity /\ ai <= AiCheckInEvery
      BY <1>1, <1>2, <1>3 DEF TimesKept, Timer
    <3> HIDE DEF ci, ai, ex, ls, dl, nj
    <3> QED BY <1>2, <1>4, <1>8, <1>9, <3>1 DEF TimesKept, personalAgentConnected
  <2>3. (personalAgentLive(n) => Standing(n)) /\ (n.job = 0 => n.deadline = NoTimer)
    <3> HIDE DEF ci, ai, ex, ls, dl, nj
    <3> QED BY <1>2, <1>4, <1>8, <1>9 DEF Settled, Standing, personalAgentLive
  <2> QED BY <1>7, <2>1, <2>2, <2>3 DEF Settled, Ready
<1>11. alarm' \in Timer
  BY <1>1, <1>2, <1>6
<1>12. OnTime(n, alarm')
  <2> SUFFICES ASSUME NEW d \in Deadlines(n) PROVE alarm' # NoTimer /\ alarm' <= d
    BY DEF OnTime
  <2>1. PICK t \in Deadlines(room) : d = Elapse(t) /\ t \in Timer
    <3> HIDE DEF ci, ai, ex, ls, dl, nj
    <3>1. \/ d = ci /\ room.nextCheckIn \in Deadlines(room)
          \/ d = ai /\ room.aiNextCheckIn \in Deadlines(room)
          \/ d = ex /\ room.expires \in Deadlines(room)
          \/ d = ls /\ room.lastSeen \in Deadlines(room)
          \/ d = dl /\ room.deadline \in Deadlines(room)
          \/ d = nj /\ room.nextJob \in Deadlines(room)
      BY <1>3, <1>4, <1>8, <1>9 DEF Deadlines, personalAgentLive, personalAgentConnected
    <3> QED BY <1>3, <3>1 DEF ci, ai, ex, ls, dl, nj
  <2>2. alarm # NoTimer /\ alarm <= t
    BY <1>2, <2>1 DEF OnTime
  <2> QED BY <1>2, <1>6, <2>1, <2>2 DEF Elapse, Timer
<1>13. silence' \in Nat
  BY <1>2, <1>6
<1>14. Covered(n, silence')
  <2> SUFFICES ASSUME personalAgentConnected(room)
               PROVE  \E f \in FollowUps : \/ dl # NoTimer /\ silence + 1 + dl <= f + Response
                                           \/ dl = NoTimer /\ silence + 1 + nj <= f
    BY <1>6, <1>8, <1>9 DEF Covered, personalAgentConnected
  <2>1. ~(room.deadline = 0 \/ (room.deadline = NoTimer /\ room.nextJob = 0))
    <3> SUFFICES ASSUME room.deadline = 0 \/ (room.deadline = NoTimer /\ room.nextJob = 0) PROVE FALSE
      OBVIOUS
    <3>1. save(woken) # room
      BY DueIsDone
    <3>2. 0 \in Deadlines(room)
      BY <1>2 DEF Deadlines, Settled, Standing, JobsKept, personalAgentConnected, personalAgentLive
    <3>3. alarm = 0
      BY <1>2, <3>2 DEF OnTime, Timer
    <3> QED BY <1>6, <3>1, <3>3
  <2>2. PICK f \in FollowUps : \/ room.deadline # NoTimer /\ silence + room.deadline <= f + Response
                               \/ room.deadline = NoTimer /\ silence + room.nextJob <= f
    BY <1>2 DEF Covered
  <2>3. f \in Nat
    OBVIOUS
  <2>4. room.deadline = NoTimer => room.nextJob # NoTimer
    BY <1>2 DEF JobsKept
  <2>5. CASE room.deadline # NoTimer
    <3>1. room.deadline > 0 /\ dl = room.deadline - 1 /\ dl # NoTimer /\ room.deadline \in Nat
      BY <1>3, <2>1, <2>5 DEF Elapse, Timer
    <3> HIDE DEF dl, nj
    <3> QED BY <1>2, <2>2, <2>3, <2>5, <3>1
  <2>6. CASE room.deadline = NoTimer
    <3>1. room.nextJob > 0 /\ nj = room.nextJob - 1 /\ dl = NoTimer /\ room.nextJob \in Nat
      BY <1>3, <2>1, <2>4, <2>6 DEF Elapse, Timer
    <3> HIDE DEF dl, nj
    <3> QED BY <1>2, <2>2, <2>3, <2>6, <3>1
  <2> QED BY <2>5, <2>6
<1>15. given' \subseteq 1..n.jobs /\ held' \subseteq 1..n.tokens
  BY <1>6, <1>8 DEF AgentInv
<1>16. Calling' /\ inputs' \in Int /\ suspended' \in BOOLEAN
  BY <1>6 DEF AgentInv, Calling
<1> QED BY <1>5, <1>10, <1>11, <1>12, <1>13, <1>14, <1>15, <1>16 DEF AgentInv

LEMMA AgentStarts == Init => AgentInv
<1> SUFFICES ASSUME Init PROVE AgentInv
  OBVIOUS
<1> USE PersonalAgentAssumption DEF NoTimer
<1>1. (CHOOSE g \in Guardians : TRUE) \in Guardians
  OBVIOUS
<1>2. room.guardian \in Account
  BY <1>1 DEF Init, Account
<1>3. room \in Room
  BY <1>1 DEF Init, Room, Account, Timer, Status
<1>4. Settled(room) /\ Covered(room, silence)
  BY <1>3 DEF Init, Settled, Ready, JobsKept, TimesKept, Covered, personalAgentLive, personalAgentConnected
<1>5. OnTime(room, alarm) /\ alarm \in Timer
  BY <1>3, ScheduleOnTime DEF Init
<1>6. call = NoCall /\ held = {} /\ given = {} /\ suspended = FALSE /\ inputs = 0 /\ silence = 0
  BY DEF Init
<1>7. given \subseteq 1..room.jobs /\ held \subseteq 1..room.tokens /\ inputs \in Int /\ silence \in Nat
  BY <1>6
<1>8. Calling /\ suspended \in BOOLEAN
  BY <1>6, Zenon DEF Calling
<1> QED BY <1>4, <1>5, <1>7, <1>8 DEF AgentInv

LEMMA AgentStep == AgentInv /\ [Next]_vars => AgentInv'
<1> SUFFICES ASSUME AgentInv, [Next]_vars PROVE AgentInv'
  OBVIOUS
<1>1. CASE UNCHANGED vars
  BY <1>1 DEF vars, AgentInv, Calling
<1>2. CASE EvidenceAges
  <2> DEFINE n == [room EXCEPT !.fresh = {}]
  <2>1. room' = n /\ UNCHANGED <<alarm, call, held, given, suspended, silence>> /\ inputs' = inputs + 1
    BY <1>2 DEF EvidenceAges, Unasked
  <2>2. Settled(n) /\ Stays(n)
    BY LoadedStays
  <2>3. Deadlines(n) = Deadlines(room)
    <3>1. room \in Room
      BY DEF AgentInv, Settled, Ready
    <3>2. /\ n.open = room.open /\ n.nextCheckIn = room.nextCheckIn /\ n.guardMode = room.guardMode /\ n.aiNextCheckIn = room.aiNextCheckIn
          /\ n.status = room.status /\ n.expires = room.expires /\ n.lastSeen = room.lastSeen /\ n.deadline = room.deadline
          /\ n.job = room.job /\ n.nextJob = room.nextJob
      BY <3>1 DEF Room
    <3> HIDE DEF n
    <3> QED BY <3>2 DEF Deadlines, personalAgentLive, personalAgentConnected
  <2>4. OnTime(n, alarm)
    BY <2>3 DEF AgentInv, OnTime
  <2> HIDE DEF n
  <2>5. given \subseteq 1..n.jobs
    BY <2>2, GivenKept DEF Stays
  <2> QED BY <2>1, <2>2, <2>4, <2>5, PutKeeps DEF AgentInv, Calling
<1>3. CASE Suspend
  BY <1>3 DEF Suspend, AgentInv, Calling
<1>4. CASE HandOver
  <2>1. room.token \in 1..room.tokens
    BY <1>4 DEF HandOver, AgentInv, Settled, Ready, JobsKept, Room
  <2> QED BY <1>4, <2>1 DEF HandOver, AgentInv, Calling
<1> QED BY <1>1, <1>2, <1>3, <1>4, ParticipantsKeep, RequestKeeps, RuntimeKeeps, AlarmKeeps, TickKeeps DEF Next, Participants

(* What is stored is ready for every handler, covered, and due on time,    *)
(* whatever calls and timers meet between the awaits of the handlers.      *)
THEOREM DelegationInvariant == Spec => []AgentInv
  BY AgentStarts, AgentStep, PTL DEF Spec

LEMMA CoverageFollows == AgentInv => SilenceEndsCoverage
<1> SUFFICES ASSUME AgentInv, personalAgentConnected(room) PROVE \E f \in FollowUps : silence <= f + Response
  BY DEF SilenceEndsCoverage
<1>1. PICK f \in FollowUps : \/ room.deadline # NoTimer /\ silence + room.deadline <= f + Response
                             \/ room.deadline = NoTimer /\ silence + room.nextJob <= f
  BY DEF AgentInv, Covered
<1>2. /\ room.deadline \in Timer /\ room.nextJob \in Timer /\ silence \in Nat
      /\ (room.deadline = NoTimer => room.nextJob # NoTimer)
  BY DEF AgentInv, Settled, Ready, JobsKept, Room
<1>3. f \in Nat /\ Response \in Nat
  BY PersonalAgentAssumption
<1> QED BY <1>1, <1>2, <1>3 DEF Timer, NoTimer

(* Connectivity and new input never keep coverage.                         *)
THEOREM SilenceEndsCoverageHolds == Spec => []SilenceEndsCoverage
  BY CoverageFollows, DelegationInvariant, PTL

LEMMA DueFollows == AgentInv => SomebodyIsDue
BY DEF AgentInv, OnTime, AlarmNeverLate, SomebodyIsDue, Settled, Ready, JobsKept, TimesKept, Room

(* Coverage passes to somebody with a deadline that wakes the object.      *)
THEOREM SomebodyIsDueHolds == Spec => []SomebodyIsDue
  BY DueFollows, DelegationInvariant, PTL

(* Context reaches a runtime only while its delegation stands.             *)
THEOREM ContextStaysWithinHolds == Spec => ContextStaysWithin
<1>1. AgentInv /\ [Next]_vars /\ given' # given
        => authorized(room') /\ personalAgentConnected(room') /\ call.token = room'.token
  <2> SUFFICES ASSUME AgentInv, [Next]_vars, given' # given
               PROVE  authorized(room') /\ personalAgentConnected(room') /\ call.token = room'.token
    OBVIOUS
  <2>1. Answer
    BY DEF Next, vars, Participants, RiderSpeaks, RiderCheckIn, Help, GuardianCheckIn, Resume, Takeover, ApproveGuardian,
           SetAssistance, Close, DeleteGuardian, EvidenceAges, Suspend, Request, Approve, Revoke, Connect, HandOver,
           Act, Unasked, Runtime, Ask, Operate, AskAgain, Drop, AlarmFires, Tick
  <2>2. LET r == reconcile(room)
        IN room' = r /\ mayAct(r, call) /\ r.job # 0
    BY <2>1 DEF Answer
  <2>3. authorized(room') /\ Ready(room')
    BY <2>2, ReconciledStays DEF mayAct
  <2> QED BY <2>2, <2>3 DEF Ready, JobsKept, mayAct
<1> QED BY <1>1, DelegationInvariant, PTL DEF Spec, ContextStaysWithin

(***************************************************************************)
(* The script at work on it.                                               *)
(***************************************************************************)
JobView == [id : Nat, left : Timer]
Reply == {Refusal} \cup [ok : {TRUE}, job : JobView]
Call == {Quiet} \cup [stage : {"sent"}, op : Operations, job : Nat]
        \cup [stage : {"replied"}, op : Operations, job : Nat, reply : Reply]
Net == [main : Call, poll : Call, beat : BOOLEAN]
Loops == [at : {"off", "accept", "update", "thinking", "confirm", "submit", "pausing", "sleeping", "releasing", "stopped"},
          left : Nat, turns : Nat, seen : SUBSET Nat, job : JobView, attempt : Nat, stale : BOOLEAN]
WatchTypeOK == /\ runner \in Loops /\ net \in Net /\ stray \subseteq [op : Operations, job : Nat]
               /\ failures \in Nat /\ answered \in Seq(Nat)

(* What has been answered is over for good.                                *)
Answers(r, a) == /\ IsInjective(a) /\ Range(a) \subseteq 1..r.jobs /\ r.job \notin Range(a) /\ r.done \subseteq Range(a)
Working == {"thinking", "confirm", "submit", "pausing"}
(* The job that is pending is a new one to the runtime, or the one that it *)
(* works on and has not been told to leave.                                *)
Current(r, u) == /\ u.seen \subseteq 1..r.jobs
                 /\ r.job \in u.seen => u.at \in Working /\ r.job = u.job.id /\ ~u.stale
                 /\ u.at \in Working => u.job.id \in u.seen
                 /\ u.at = "accept" => u.seen = {}
Asking(u, c, a) ==
  /\ u.at \in {"thinking", "pausing", "sleeping"} => c.stage = "none"
  /\ c.stage # "none" => (c.op = "assess" <=> u.at = "submit") /\ (u.at = "submit" => c.job = u.job.id)
Received(r, u, c, a) ==
  c.stage = "replied" /\ c.reply.ok =>
    /\ c.reply.job.id <= r.jobs
    /\ r.job \in u.seen \/ c.reply.job.id \in u.seen => u.at = "confirm" /\ c.reply.job.id = u.job.id /\ ~u.stale
    /\ u.at = "submit" => u.job.id \in Range(a)
Polled(r, c) ==
  /\ c.stage # "none" => c.job \in 1..r.jobs
  /\ c.stage = "replied" /\ c.reply.ok => (c.reply.job.id # c.job => r.job # c.job)
Turns == IsFiniteSet(runner.seen) /\ Cardinality(runner.seen) = runner.turns
(* Pending jobs are succeeded by new ones, and never come back.            *)
Moves(r, n) == /\ n \in Room /\ n.jobs >= r.jobs /\ (n.job = r.job \/ n.job = 0 \/ n.job > r.jobs)
               /\ n.job <= n.jobs /\ n.done \subseteq r.done

LEMMA MovesOn ==
  ASSUME NEW r, r \in Room, NEW m, Moves(r, m), NEW n, Moves(m, n)
  PROVE  Moves(r, n)
BY DEF Moves, Room

LEMMA EndMoves ==
  ASSUME NEW r, Ready(r), NEW h \in BOOLEAN
  PROVE  LET e == endPersonalAgent(r, h) IN e \in Room => Moves(r, e)
<1> DEFINE w == withoutAgent(r)
<1>0. r \in Room /\ r.job <= r.jobs
  BY DEF Ready, JobsKept
<1>1. w.jobs = r.jobs /\ w.job = 0 /\ w.done = {} /\ DOMAIN w = DOMAIN r
  BY <1>0 DEF withoutAgent, Room
<1>2. LET e == endPersonalAgent(r, h)
      IN \/ e = r \/ e = w
         \/ e = [w EXCEPT !.guardMode = "ai", !.nextCheckIn = NoTimer,
                          !.aiNextCheckIn = IF r.assistance THEN AiCheckInEvery ELSE NoTimer]
  BY DEF endPersonalAgent
<1> HIDE DEF w
<1>3. LET e == endPersonalAgent(r, h) IN e = r \/ (e.jobs = r.jobs /\ e.job = 0 /\ e.done = {})
  BY <1>0, <1>1, <1>2 DEF Room
<1> QED BY <1>0, <1>3 DEF Moves, Room

LEMMA RefreshMoves ==
  ASSUME NEW r, Ready(r)
  PROVE  LET n == refreshJob(r) IN n \in Room => Moves(r, n)
<1>1. r \in Room /\ r.job <= r.jobs
  BY DEF Ready, JobsKept
<1>2. CASE refreshJob(r) = r
  BY <1>1, <1>2 DEF Moves, Room
<1>3. ASSUME NEW d, refreshJob(r) = newJob(r, d)
      PROVE  LET n == refreshJob(r) IN n.jobs = r.jobs + 1 /\ n.job = r.jobs + 1 /\ n.done = r.done
  BY <1>1, <1>3 DEF newJob, Room
<1>4. \/ refreshJob(r) = r
      \/ refreshJob(r) = newJob(r, IF r.deadline = NoTimer THEN sooner(r.expires, Response) ELSE r.deadline)
  BY DEF refreshJob
<1> QED BY <1>1, <1>2, <1>3, <1>4 DEF Moves, Room

LEMMA ReconcileMoves ==
  ASSUME NEW r, Ready(r), NEW s \in Nat, Covered(r, s)
  PROVE  Moves(r, reconcile(r))
<1>1. reconcile(r) \in Room
  BY ReconcileSettles DEF Settled, Ready
<1>2. r \in Room /\ r.job <= r.jobs
  BY DEF Ready, JobsKept
<1>3. CASE reconcile(r) = r
  BY <1>2, <1>3 DEF Moves, Room
<1>4. CASE reconcile(r) = endPersonalAgent(r, replaced(r) /\ r.guardMode = "human")
  BY <1>1, <1>4, EndMoves DEF replaced
<1>5. CASE reconcile(r) = refreshJob(r)
  BY <1>1, <1>5, RefreshMoves
<1> QED BY <1>3, <1>4, <1>5 DEF reconcile

LEMMA SaveMoves ==
  ASSUME NEW r, Ready(r), NEW s \in Nat, Covered(r, s)
  PROVE  Moves(r, save(r))
<1> DEFINE m == reconcile(r)
           n == [m EXCEPT !.aiNextCheckIn = NoTimer]
<1>1. Moves(r, m) /\ m \in Room
  BY ReconcileMoves DEF Moves
<1>2. save(r) \in Room
  BY SaveSettles DEF Settled, Ready
<1>3. save(r) = m \/ save(r) = n
  BY DEF save
<1> HIDE DEF m
<1>4. n.job = m.job /\ n.jobs = m.jobs /\ n.done = m.done
  BY <1>1 DEF Room
<1> HIDE DEF n
<1> QED BY <1>1, <1>2, <1>3, <1>4 DEF Moves

(* The steps of the server beside the calls.                               *)
LEMMA ServerMoves ==
  ASSUME AgentInv, RiderSpeaks \/ GuardianCheckIn \/ EvidenceAges \/ Revoke \/ AlarmFires \/ Tick \/ UNCHANGED room
  PROVE  Moves(room, room')
<1>1. Ready(room) /\ Covered(room, silence) /\ silence \in Nat /\ room \in Room /\ room.job <= room.jobs
  BY DEF AgentInv, Settled, Ready, JobsKept
<1> DEFINE r == reconcile(room)
<1>2. Moves(room, r) /\ Ready(r) /\ Stays(r) /\ r \in Room
  BY <1>1, ReconcileMoves, ReconciledStays DEF Stays
<1>3. ASSUME NEW n, Ready(n), Stays(n), Moves(room, n), Stored(n) PROVE Moves(room, room')
  <2>1. Moves(n, room')
    BY <1>1, <1>3, SaveMoves DEF Stored, Stays
  <2> QED BY <1>1, <1>3, <2>1, MovesOn
<1>4. Moves(room, Loaded) /\ Loaded \in Room /\ Ready(Loaded) /\ Stays(Loaded)
  <2> DEFINE n == [r EXCEPT !.fresh = {}]
  <2>1. n.job = r.job /\ n.jobs = r.jobs /\ n.done = r.done
    <3> HIDE DEF r
    <3> QED BY <1>2 DEF Room
  <2>2. Loaded = n /\ Loaded \in Room /\ Ready(Loaded) /\ Stays(Loaded)
    BY LoadedStays DEF Loaded, Stays
  <2> HIDE DEF n, r
  <2> QED BY <1>2, <2>1, <2>2 DEF Moves
<1>5. CASE RiderSpeaks
  BY <1>3, <1>4, <1>5 DEF RiderSpeaks, Act
<1>6. CASE GuardianCheckIn
  <2> DEFINE e == endPersonalAgent(Loaded, TRUE)
  <2>1. PICK n : Amends(e, n) /\ Stays(e) /\ Act(n)
    BY <1>6, GuardianReturns
  <2>2. Moves(room, e)
    BY <1>1, <1>4, <2>1, EndMoves, MovesOn DEF Stays
  <2>3. Ready(n) /\ Stays(n)
    BY <2>1, AmendReady
  <2> HIDE DEF e
  <2>4. Moves(room, n)
    BY <2>1, <2>2 DEF Amends, Moves
  <2> QED BY <1>3, <2>1, <2>3, <2>4 DEF Act
<1>7. CASE EvidenceAges
  BY <1>1, <1>7, LoadedStays DEF EvidenceAges, Moves, Stays, Room
<1>8. CASE Revoke
  <2>1. Ready(endPersonalAgent(r, FALSE)) /\ Stays(endPersonalAgent(r, FALSE))
    BY <1>2, EndStays
  <2>2. Moves(room, endPersonalAgent(r, FALSE))
    BY <1>1, <1>2, <2>1, EndMoves, MovesOn DEF Stays
  <2> QED BY <1>3, <1>8, <2>1, <2>2 DEF Revoke
<1>9. CASE AlarmFires
  <2>1. Ready(woken) /\ Stays(woken) /\ woken.job = r.job /\ woken.jobs = r.jobs /\ woken.done = r.done /\ Stored(woken)
    BY <1>9, WokenReady DEF AlarmFires
  <2> HIDE DEF woken, r
  <2>2. Moves(room, woken)
    BY <1>2, <2>1 DEF Moves, Stays
  <2> QED BY <1>3, <2>1, <2>2
<1>10. CASE Tick
  <2>1. room' \in Room
    BY <1>10, TickKeeps DEF AgentInv, Settled, Ready
  <2>2. room'.job = room.job /\ room'.jobs = room.jobs /\ room'.done = room.done
    BY <1>1, <1>10 DEF Tick, Room
  <2> QED BY <1>1, <2>1, <2>2 DEF Moves, Room
<1>11. CASE UNCHANGED room
  BY <1>1, <1>11 DEF Moves, Room
<1> QED BY <1>5, <1>6, <1>7, <1>8, <1>9, <1>10, <1>11

-----------------------------------------------------------------------------
(* An operation of the script, as one step.                                *)
caller(op, j, f) == [token |-> 1, op |-> op, job |-> j, followUp |-> f]
Allowed(op, j, f) == mayAct(reconcile(room), caller(op, j, f)) /\ performed(reconcile(room), caller(op, j, f)) # {}
AnswersJob(op, j, f) == mayAct(reconcile(room), caller(op, j, f)) /\ answers(reconcile(room), caller(op, j, f))
Served(op, j, f) ==
  /\ IF Allowed(op, j, f) THEN \E s \in performed(reconcile(room), caller(op, j, f)) : Stored(s) ELSE Refused
  /\ answered' = IF AnswersJob(op, j, f) THEN Append(answered, j) ELSE answered
  /\ silence' = IF AnswersJob(op, j, f) \/ (op = "accept" /\ reconcile(room).status = "approved") THEN 0 ELSE silence
  /\ UNCHANGED <<call, held, given, suspended, inputs, failures, reported>>
Answering == Answers(room, answered) /\ answered \in Seq(Nat)
Succeeds(r, n) == n.jobs >= r.jobs /\ (n.job = r.job \/ n.job = 0 \/ n.job > r.jobs)

LEMMA AnswersMove ==
  ASSUME NEW r, r \in Room, NEW n, Moves(r, n), NEW a, Answers(r, a)
  PROVE  Answers(n, a)
<1>1. r.jobs \in Nat /\ n.jobs \in Nat /\ n.job \in Nat /\ r.job \in Nat
  BY DEF Moves, Room
<1>2. Range(a) \subseteq 1..n.jobs
  BY <1>1 DEF Answers, Moves
<1>3. n.job \notin Range(a)
  BY <1>1 DEF Answers, Moves
<1> QED BY <1>2, <1>3 DEF Answers, Moves

LEMMA AnswersAppend ==
  ASSUME NEW a \in Seq(Nat), NEW j \in Nat, IsInjective(a), j \notin Range(a)
  PROVE  /\ IsInjective(Append(a, j)) /\ Range(Append(a, j)) = Range(a) \cup {j} /\ Append(a, j) \in Seq(Nat)
<1> DEFINE b == Append(a, j)
<1>1. Len(a) \in Nat /\ b \in Seq(Nat) /\ Len(b) = Len(a) + 1 /\ DOMAIN a = 1..Len(a) /\ DOMAIN b = 1..(Len(a) + 1)
      /\ b[Len(a) + 1] = j
  OBVIOUS
<1>2. \A i \in 1..Len(a) : b[i] = a[i]
  OBVIOUS
<1> HIDE DEF b
<1>3. IsInjective(b)
  BY <1>1, <1>2 DEF IsInjective, Range
<1>4. Range(b) = Range(a) \cup {j}
  BY <1>1, <1>2 DEF Range
<1> QED BY <1>1, <1>3, <1>4 DEF b

LEMMA PerformedMoves ==
  ASSUME NEW r, Ready(r), NEW op \in Operations, NEW j \in Nat, NEW f, NEW n \in performed(r, caller(op, j, f)), n \in Room
  PROVE  IF answers(r, caller(op, j, f)) THEN n.job = 0 /\ n.jobs = r.jobs /\ n.done = r.done \cup {j} /\ r.job = j /\ j # 0
         ELSE Moves(r, n) /\ (op = "assess" => j \in r.done)
<1> DEFINE c == caller(op, j, f)
<1>0. c.op = op /\ c.job = j /\ c.token = 1 /\ c.followUp = f
  BY DEF caller
<1> HIDE DEF c
<1>1. r \in Room /\ r.job <= r.jobs /\ r.job \in Nat /\ 0 \notin r.fresh /\ (~personalAgentConnected(r) => r.job = 0)
  BY DEF Ready, JobsKept, Room
<1>2. CASE answers(r, c)
  <2>1. op = "assess" /\ r.job = j /\ j \in r.fresh /\ j # 0 /\ personalAgentConnected(r)
    BY <1>0, <1>1, <1>2 DEF answers
  <2>2. n = [r EXCEPT !.status = "active", !.guardMode = "ai", !.nextCheckIn = NoTimer,
                  !.aiNextCheckIn = NoTimer, !.job = 0, !.deadline = NoTimer,
                  !.nextJob = sooner(r.expires, c.followUp), !.done = @ \cup {c.job}]
    BY <1>0, <1>2, <2>1 DEF performed, c
  <2>3. n.job = 0 /\ n.jobs = r.jobs /\ n.done = r.done \cup {j}
    BY <1>0, <1>1, <2>2 DEF Room
  <2> QED BY <1>2, <2>1, <2>3 DEF c
<1>3. CASE ~answers(r, c)
  <2>1. \/ n = endPersonalAgent(r, FALSE) /\ op # "assess"
        \/ n.job = r.job /\ n.jobs = r.jobs /\ n.done = r.done /\ (op = "assess" => j \in r.done)
    <3>1. CASE op = "release"
      BY <1>0, <3>1 DEF performed, c
    <3>2. CASE op = "accept" /\ r.status = "approved"
      <4>1. n = [r EXCEPT !.status = "connecting", !.lastSeen = Connectivity, !.nextJob = 0,
                          !.deadline = sooner(r.expires, Response), !.aiNextCheckIn = NoTimer, !.fresh = {}]
        BY <1>0, <3>2 DEF performed, c
      <4> QED BY <1>1, <3>2, <4>1 DEF Room
    <3>3. CASE op = "heartbeat"
      <4>1. n = [r EXCEPT !.lastSeen = Connectivity]
        BY <1>0, <3>3 DEF performed, c
      <4> QED BY <1>1, <3>3, <4>1 DEF Room
    <3>4. CASE op # "release" /\ ~(op = "accept" /\ r.status = "approved") /\ op # "heartbeat"
      <4>1. n = r /\ (op = "assess" => j \in r.done \cap r.fresh)
        BY <1>0, <1>3, <3>4 DEF performed, c
      <4> QED BY <4>1
    <3> QED BY <3>1, <3>2, <3>3, <3>4
  <2>2. Moves(r, n) /\ (op = "assess" => j \in r.done)
    <3>1. endPersonalAgent(r, FALSE) = n => Moves(r, n)
      BY EndMoves
    <3>2. n.job = r.job /\ n.jobs = r.jobs /\ n.done = r.done => Moves(r, n)
      BY <1>1 DEF Moves, Room
    <3> QED BY <2>1, <3>1, <3>2
  <2> QED BY <1>3, <2>2 DEF c
<1> QED BY <1>2, <1>3

LEMMA ServedKeeps ==
  ASSUME AgentInv, Answering, NEW op \in Operations, NEW j \in Nat, NEW f \in FollowUps, Served(op, j, f)
  PROVE  /\ AgentInv' /\ Answering' /\ Range(answered) \subseteq Range(answered')
         /\ Succeeds(room, room')
         /\ Allowed(op, j, f) /\ op = "assess" => j \in Range(answered') /\ room'.job # j
<1> DEFINE r == reconcile(room)
           c == caller(op, j, f)
<1>1. /\ Ready(r) /\ Stays(r) /\ r \in Room /\ (personalAgentLive(r) => authorized(r)) /\ silence \in Nat
      /\ room \in Room /\ Ready(room) /\ Covered(room, silence)
  BY ReconciledStays DEF Stays, AgentInv, Settled, Ready
<1>2. Moves(room, r)
  BY <1>1, ReconcileMoves
<1>3. Answers(r, answered) /\ answered \in Seq(Nat)
  BY <1>1, <1>2, AnswersMove DEF Answering
<1>4. c.op = op /\ c.followUp = f /\ c.job = j
  BY DEF caller
<1>5. CASE ~Allowed(op, j, f)
  <2>1. ~AnswersJob(op, j, f)
    <3> SUFFICES ASSUME mayAct(r, c), answers(r, c) PROVE performed(r, c) # {}
      BY <1>5 DEF Allowed, AnswersJob
    <3>1. c.op = "assess" /\ r.job \in r.fresh
      BY DEF answers
    <3>2. personalAgentConnected(r)
      BY <1>1, <3>1 DEF Ready, JobsKept
    <3> HIDE DEF r, c
    <3> QED BY <3>1, <3>2 DEF performed
  <2>2. room' = r /\ answered' = answered /\ UNCHANGED <<alarm, call, held, given, suspended, inputs>>
    BY <1>5, <2>1 DEF Served, Refused
  <2>3. silence' \in Nat /\ Covered(r, silence')
    <3>1. silence' = silence \/ (op = "accept" /\ r.status = "approved")
      BY <2>1 DEF Served
    <3>2. silence' \in Nat
      BY <1>1, <2>1 DEF Served
    <3> QED BY <1>1, <3>1, <3>2 DEF Stays, Covered, personalAgentConnected
  <2>4. Settled(r) /\ OnTime(r, alarm)
    BY ReconciledStays
  <2> HIDE DEF r
  <2>5. given \subseteq 1..r.jobs /\ held \subseteq 1..r.tokens
    <3>1. room.jobs \in Nat /\ r.jobs \in Nat /\ room.tokens \in Nat /\ r.tokens \in Nat /\ r.jobs >= room.jobs /\ r.tokens >= room.tokens
          /\ given \subseteq 1..room.jobs /\ held \subseteq 1..room.tokens
      BY <1>1 DEF Stays, Room, AgentInv
    <3> QED BY <3>1
  <2>6. AgentInv'
    BY <2>2, <2>3, <2>4, <2>5 DEF AgentInv, Calling
  <2> QED BY <1>2, <1>3, <1>5, <2>2, <2>6 DEF Answering, Succeeds, Moves
<1>6. CASE Allowed(op, j, f)
  <2>1. PICK n \in performed(r, c) : Stored(n)
    BY <1>6 DEF Served
  <2>2. authorized(r) /\ mayAct(r, c)
    BY <1>1, <1>6 DEF Allowed, mayAct
  <2>3. silence' = (IF answers(r, c) \/ (c.op = "accept" /\ r.status = "approved") THEN 0 ELSE silence)
        /\ answered' = (IF answers(r, c) THEN Append(answered, j) ELSE answered)
    BY <1>4, <2>2 DEF Served, AnswersJob
  <2>4. silence' \in Nat /\ UNCHANGED <<call, held, given, suspended, inputs>>
    BY <1>1, <2>3 DEF Served
  <2>5. Ready(n) /\ Covered(n, silence') /\ n.jobs >= room.jobs /\ n.tokens >= room.tokens
    BY <1>1, <1>4, <2>2, <2>3, <2>4, PerformedReady
  <2>6. AgentInv'
    <3>1. inputs' \in Int /\ suspended' \in BOOLEAN /\ Calling'
      BY <2>4 DEF AgentInv, Calling
    <3> QED BY <2>1, <2>4, <2>5, <3>1, StoredKeeps
  <2>7. n \in Room /\ Moves(n, room')
    BY <2>1, <2>4, <2>5, SaveMoves DEF Stored, Ready
  <2>8. IF answers(r, c) THEN n.job = 0 /\ n.jobs = r.jobs /\ n.done = r.done \cup {j} /\ r.job = j /\ j # 0
        ELSE Moves(r, n) /\ (op = "assess" => j \in r.done)
    BY <1>1, <2>7, PerformedMoves
  <2>9. Answers(n, answered') /\ answered' \in Seq(Nat) /\ Range(answered) \subseteq Range(answered')
        /\ (op = "assess" => j \in Range(answered'))
    <3>1. CASE answers(r, c)
      <4>1. j \notin Range(answered) /\ answered' = Append(answered, j) /\ j \in 1..r.jobs /\ r.jobs \in Nat
        BY <1>1, <1>3, <2>3, <2>8, <3>1 DEF Answers, Ready, JobsKept, Room
      <4>2. IsInjective(answered') /\ Range(answered') = Range(answered) \cup {j} /\ answered' \in Seq(Nat)
        BY <1>3, <4>1, AnswersAppend DEF Answers
      <4>3. 0 \notin 1..n.jobs
        OBVIOUS
      <4> QED BY <1>3, <2>8, <3>1, <4>1, <4>2, <4>3 DEF Answers
    <3>2. CASE ~answers(r, c)
      BY <1>1, <1>3, <2>3, <2>8, <3>2, AnswersMove DEF Answers
    <3> QED BY <3>1, <3>2
  <2>10. Answering'
    BY <2>7, <2>9, AnswersMove DEF Answering
  <2>11. Succeeds(room, room')
    <3>1. Succeeds(r, n)
      BY <1>1, <2>8 DEF Succeeds, Moves, Room
    <3>2. /\ room.jobs \in Nat /\ r.jobs \in Nat /\ n.jobs \in Nat /\ room'.jobs \in Nat
          /\ room.job \in Nat /\ r.job \in Nat /\ n.job \in Nat /\ room'.job \in Nat
      BY <1>1, <2>7 DEF Moves, Room
    <3> HIDE DEF r
    <3> QED BY <1>2, <2>7, <3>1, <3>2 DEF Succeeds, Moves
  <2> QED BY <2>6, <2>9, <2>10, <2>11 DEF Answering, Answers
<1> QED BY <1>5, <1>6

-----------------------------------------------------------------------------
(* The loop, its timers and the network.                                   *)
Lively(r, u, t, a) == Current(r, u) /\ Asking(u, t.main, a) /\ Received(r, u, t.main, a) /\ Polled(r, t.poll)

LEMMA CallType ==
  ASSUME NEW c \in Call
  PROVE  /\ c.stage \in {"none", "sent", "replied"} /\ (c.stage = "none" <=> c = Quiet)
         /\ c.stage # "none" => c.op \in Operations /\ c.job \in Nat
         /\ c.stage = "replied" => c.reply \in Reply
         /\ c.stage = "replied" /\ c.reply.ok => c.reply.job \in JobView /\ c.reply.job.id \in Nat /\ c.reply.job.left \in Timer
<1>1. c.stage \in {"none", "sent", "replied"} /\ (c.stage = "none" <=> c = Quiet)
      /\ (c.stage # "none" => c.op \in Operations /\ c.job \in Nat) /\ (c.stage = "replied" => c.reply \in Reply)
  <2>1. CASE c = Quiet
    BY <2>1 DEF Quiet
  <2>2. CASE c \in [stage : {"sent"}, op : Operations, job : Nat]
    BY <2>2 DEF Quiet
  <2>3. CASE c \in [stage : {"replied"}, op : Operations, job : Nat, reply : Reply]
    BY <2>3 DEF Quiet
  <2> QED BY <2>1, <2>2, <2>3 DEF Call
<1>2. ASSUME NEW p \in Reply, p.ok PROVE p.job \in JobView /\ p.job.id \in Nat /\ p.job.left \in Timer
  <2>1. p # Refusal
    <3>1. Refusal.ok = FALSE
      BY DEF Refusal
    <3> QED BY <1>2, <3>1
  <2>2. p \in [ok : {TRUE}, job : JobView]
    BY <2>1 DEF Reply
  <2> QED BY <2>2 DEF JobView
<1> QED BY <1>1, <1>2

LEMMA LivelyMoves ==
  ASSUME NEW r \in Room, NEW n \in Room, Succeeds(r, n), NEW u, NEW t \in Net, NEW a, NEW b, Range(a) \subseteq Range(b),
         Lively(r, u, t, a)
  PROVE  Lively(n, u, t, b)
<1>1. r.jobs \in Nat /\ n.jobs \in Nat /\ r.job \in Nat /\ n.job \in Nat /\ r.jobs <= n.jobs
  BY DEF Room, Succeeds
<1>2. u.seen \subseteq 1..n.jobs /\ (n.job \in u.seen => n.job = r.job)
  BY <1>1 DEF Lively, Current, Succeeds
<1>3. Current(n, u)
  BY <1>2 DEF Lively, Current
<1>4. Received(n, u, t.main, b)
  <2> SUFFICES ASSUME t.main.stage = "replied", t.main.reply.ok
               PROVE  /\ t.main.reply.job.id <= n.jobs
                      /\ n.job \in u.seen \/ t.main.reply.job.id \in u.seen
                           => u.at = "confirm" /\ t.main.reply.job.id = u.job.id /\ ~u.stale
                      /\ u.at = "submit" => u.job.id \in Range(b)
    BY DEF Received
  <2>1. t.main.reply.job.id \in Nat
    BY CallType DEF Net
  <2>2. /\ t.main.reply.job.id <= r.jobs
        /\ r.job \in u.seen \/ t.main.reply.job.id \in u.seen
             => u.at = "confirm" /\ t.main.reply.job.id = u.job.id /\ ~u.stale
        /\ u.at = "submit" => u.job.id \in Range(a)
    BY DEF Lively, Received
  <2> QED BY <1>1, <1>2, <2>1, <2>2
<1>5. Polled(n, t.poll)
  BY <1>1 DEF Lively, Polled, Succeeds
<1>6. Asking(u, t.main, b)
  BY DEF Lively, Asking
<1> QED BY <1>3, <1>4, <1>5, <1>6 DEF Lively

(* What the loop itself does leaves the server as it is.                   *)
Kept == UNCHANGED <<vars, answered>>
Alive(u) == u.at \notin {"off", "releasing", "stopped"}
WatchInv == /\ AgentInv /\ WatchTypeOK /\ Turns /\ Answering /\ reported \subseteq Range(answered)
           /\ (Alive(runner) => Lively(room, runner, net, answered))

LEMMA KeptKeeps ==
  ASSUME WatchInv, Kept, WatchTypeOK', Turns', reported' \subseteq Range(answered),
         Alive(runner') => Lively(room, runner', net', answered)
  PROVE  WatchInv'
<1>1. UNCHANGED <<room, alarm, call, held, given, suspended, inputs, silence, answered>>
  BY DEF Kept, vars
<1>2. AgentInv'
  BY <1>1 DEF WatchInv, AgentInv, Calling
<1>3. Answering'
  BY <1>1 DEF WatchInv, Answering
<1> QED BY <1>1, <1>2, <1>3 DEF WatchInv

LEMMA PendingType ==
  ASSUME NEW c \in Call
  PROVE  pending(c) \subseteq [op : Operations, job : Nat]
BY CallType DEF pending

LEMMA StopType ==
  ASSUME WatchTypeOK, Turns, Stop
  PROVE  /\ runner' \in Loops /\ net' \in Net /\ stray' \subseteq [op : Operations, job : Nat] /\ Turns' /\ ~Alive(runner')
<1>1. runner' = [runner EXCEPT !.at = "releasing"] /\ runner \in Loops
  BY DEF Stop, Goes, WatchTypeOK
<1>2. runner' \in Loops /\ runner'.at = "releasing" /\ runner'.seen = runner.seen /\ runner'.turns = runner.turns
  BY <1>1 DEF Loops
<1>3. net' \in Net
  BY DEF Stop, Net, Call, Quiet, request, Operations
<1>4. net.main \in Call /\ net.poll \in Call
  BY DEF WatchTypeOK, Net
<1>5. stray' \subseteq [op : Operations, job : Nat]
  BY <1>4, PendingType DEF Stop, WatchTypeOK, Operations
<1> QED BY <1>2, <1>3, <1>5 DEF Turns, Alive

LEMMA StopKeeps ==
  ASSUME WatchInv, Stop, Kept, failures' \in Nat, reported' \subseteq Range(answered)
  PROVE  WatchInv'
<1>1. answered' \in Seq(Nat)
  BY DEF Kept, WatchInv, WatchTypeOK
<1> QED BY <1>1, StopType, KeptKeeps DEF WatchInv, WatchTypeOK

LEMMA SubmitKeeps ==
  ASSUME WatchInv, Submit, Kept, failures' \in Nat, reported' \subseteq Range(answered), runner.at \in {"confirm", "pausing"}
  PROVE  WatchInv'
<1>1. CASE Stop
  BY <1>1, StopKeeps
<1>2. CASE ~Stop
  <2>1. /\ runner' = [runner EXCEPT !.at = "submit", !.attempt = @ + 1] /\ runner \in Loops /\ net \in Net
        /\ net' = [net EXCEPT !.main = request("assess", runner.job.id)] /\ UNCHANGED stray
    BY <1>2 DEF Submit, WatchInv, WatchTypeOK
  <2>2. runner.job \in JobView /\ runner.job.id \in Nat /\ runner.attempt + 1 \in Nat
    BY <2>1 DEF Loops, JobView
  <2>3. runner' \in Loops /\ runner'.at = "submit" /\ runner'.seen = runner.seen /\ runner'.turns = runner.turns
        /\ runner'.job = runner.job /\ runner'.stale = runner.stale
    <3> DEFINE q == runner.attempt + 1
    <3>1. runner' = [runner EXCEPT !.at = "submit", !.attempt = q]
      BY <2>1 DEF Loops
    <3>2. q \in Nat
      BY <2>2
    <3> HIDE DEF q
    <3> QED BY <2>1, <3>1, <3>2 DEF Loops
  <2>4. request("assess", runner.job.id) \in Call
    BY <2>2 DEF request, Call, Operations
  <2>5. net' \in Net /\ net'.main = request("assess", runner.job.id) /\ net'.poll = net.poll
    BY <2>1, <2>4 DEF Net
  <2>6. Lively(room, runner', net', answered)
    <3>1. Lively(room, runner, net, answered)
      BY DEF WatchInv, Alive
    <3> QED BY <2>3, <2>5, <3>1 DEF Lively, Current, Asking, Received, Polled, Working, request
  <2>7. Turns' /\ WatchTypeOK'
    BY <2>1, <2>3, <2>5 DEF Turns, WatchTypeOK, WatchInv, Kept
  <2> QED BY <2>6, <2>7, KeptKeeps
<1> QED BY <1>1, <1>2

(* What the loop does with a response that is not of the job it holds.     *)
LEMMA TakeKeeps ==
  ASSUME WatchInv, Alive(runner), net.main.stage = "replied", net.main.reply.ok, Take(net.main.reply), Kept, failures' \in Nat,
         reported' \subseteq Range(answered), ~(runner.at = "confirm" /\ net.main.reply.job.id = runner.job.id /\ ~runner.stale)
  PROVE  WatchInv'
<1> DEFINE reply == net.main.reply
           id == reply.job.id
<1>1. CASE Stop
  BY <1>1, StopKeeps
<1>2. CASE ~Stop
  <2>1. /\ id \notin runner.seen /\ net' = [net EXCEPT !.main = Quiet] /\ UNCHANGED stray
        /\ runner' = IF id = 0 THEN [runner EXCEPT !.at = "sleeping", !.job = NoJob]
                     ELSE [runner EXCEPT !.at = "thinking", !.job = reply.job, !.turns = @ + 1,
                                         !.seen = @ \cup {id}, !.stale = FALSE, !.attempt = 0]
    BY <1>2 DEF Take
  <2>2. runner \in Loops /\ net \in Net /\ net.main \in Call /\ Lively(room, runner, net, answered) /\ room \in Room
    BY DEF WatchInv, WatchTypeOK, Net, AgentInv, Settled, Ready
  <2>3. reply.job \in JobView /\ id \in Nat
    BY <2>2, CallType
  <2>4. net' \in Net /\ net'.main = Quiet /\ net'.poll = net.poll
    BY <2>1, <2>2 DEF Net, Call
  <2>5. room.job \notin runner.seen /\ id <= room.jobs
    BY <2>2 DEF Lively, Received
  <2>6. IsFiniteSet(runner.seen) /\ Cardinality(runner.seen) = runner.turns /\ runner.turns \in Nat /\ runner.seen \in SUBSET Nat
    BY <2>2 DEF WatchInv, Turns, Loops
  <2> HIDE DEF reply, id
  <2>7. CASE id = 0
    <3>1. runner' = [runner EXCEPT !.at = "sleeping", !.job = NoJob]
      BY <2>1, <2>7
    <3>2. runner' \in Loops /\ runner'.at = "sleeping" /\ runner'.seen = runner.seen /\ runner'.turns = runner.turns
      BY <2>2, <3>1 DEF Loops, NoJob, JobView, Timer
    <3>3. Turns' /\ WatchTypeOK'
      BY <2>1, <2>4, <2>6, <3>2 DEF Turns, WatchTypeOK, WatchInv, Kept
    <3>4. Lively(room, runner', net', answered)
      BY <2>2, <2>4, <2>5, <3>2 DEF Lively, Current, Asking, Received, Polled, Working, Quiet
    <3> QED BY <3>3, <3>4, KeptKeeps
  <2>8. CASE id # 0
    <3> DEFINE tn == runner.turns + 1
               sn == runner.seen \cup {id}
               jb == reply.job
    <3>1. runner' = [runner EXCEPT !.at = "thinking", !.job = jb, !.turns = tn, !.seen = sn, !.stale = FALSE, !.attempt = 0]
      BY <2>1, <2>2, <2>8 DEF Loops
    <3>2. tn \in Nat /\ sn \in SUBSET Nat /\ jb \in JobView /\ jb.id = id
      BY <2>3, <2>6 DEF id
    <3>3. IsFiniteSet(sn) /\ Cardinality(sn) = tn
      BY <2>1, <2>6, FS_AddElement
    <3>4. sn \subseteq 1..room.jobs /\ id \in sn /\ (room.job \in sn => room.job = id)
      <4>1. room.jobs \in Nat /\ runner.seen \subseteq 1..room.jobs
        BY <2>2 DEF Room, Lively, Current
      <4> QED BY <2>3, <2>5, <2>8, <4>1
    <3> HIDE DEF tn, sn, jb
    <3>5. runner' \in Loops /\ runner'.at = "thinking" /\ runner'.seen = sn /\ runner'.turns = tn /\ runner'.job = jb /\ runner'.stale = FALSE
      BY <2>2, <3>1, <3>2 DEF Loops
    <3>6. Turns' /\ WatchTypeOK'
      BY <2>1, <2>4, <3>3, <3>5 DEF Turns, WatchTypeOK, WatchInv, Kept
    <3>7. Lively(room, runner', net', answered)
      BY <2>2, <2>4, <3>2, <3>4, <3>5 DEF Lively, Current, Asking, Received, Polled, Working, Quiet
    <3> QED BY <3>6, <3>7, KeptKeeps
  <2> QED BY <2>7, <2>8
<1> QED BY <1>1, <1>2

LEMMA AnsweredKeeps ==
  ASSUME WatchInv, Answered
  PROVE  WatchInv'
<1> DEFINE reply == net.main.reply
<1>1. ~ended /\ net.main.stage = "replied" /\ Kept /\ UNCHANGED failures
      /\ (IF ~reply.ok THEN Stop
          ELSE IF runner.at = "confirm" /\ reply.job.id = runner.job.id /\ ~runner.stale THEN Submit
          ELSE Take(reply))
      /\ reported' = (IF reply.ok /\ runner.at = "submit" THEN reported \cup {runner.job.id} ELSE reported)
  BY DEF Answered, Kept, serverVars
<1>2. Alive(runner) /\ failures' \in Nat /\ Lively(room, runner, net, answered)
  BY <1>1 DEF ended, Alive, WatchInv, WatchTypeOK
<1>3. reported' \subseteq Range(answered)
  <2>1. reply.ok /\ runner.at = "submit" => runner.job.id \in Range(answered)
    BY <1>1, <1>2 DEF Lively, Received
  <2> QED BY <1>1, <2>1 DEF WatchInv
<1>4. CASE Stop
  BY <1>1, <1>2, <1>3, <1>4, StopKeeps
<1>5. CASE reply.ok /\ runner.at = "confirm" /\ reply.job.id = runner.job.id /\ ~runner.stale
  BY <1>1, <1>2, <1>3, <1>5, SubmitKeeps
<1>6. CASE reply.ok /\ ~(runner.at = "confirm" /\ reply.job.id = runner.job.id /\ ~runner.stale)
  BY <1>1, <1>2, <1>3, <1>6, TakeKeeps
<1> QED BY <1>1, <1>4, <1>5, <1>6

(* A step of the loop to another place, that makes or drops a call.        *)
LEMMA GoesKeeps ==
  ASSUME WatchInv, Kept, Alive(runner), NEW at \in {"update", "confirm", "pausing"}, Goes(at), NEW c \in Call,
         net' = [net EXCEPT !.main = c], c.stage \in {"none", "sent"}, c.stage = "sent" => c.op = "updates" /\ at # "pausing",
         stray' \subseteq [op : Operations, job : Nat], failures' \in Nat, reported' = reported,
         IF at = "update" THEN room.job \notin runner.seen ELSE runner.at \in Working
  PROVE  WatchInv'
<1>1. runner \in Loops /\ net \in Net /\ Lively(room, runner, net, answered)
  BY DEF WatchInv, WatchTypeOK
<1>2. runner' = [runner EXCEPT !.at = at]
  BY DEF Goes
<1>3. runner' \in Loops /\ runner'.at = at /\ runner'.seen = runner.seen /\ runner'.turns = runner.turns
        /\ runner'.job = runner.job /\ runner'.stale = runner.stale
  BY <1>1, <1>2 DEF Loops
<1>4. net' \in Net /\ net'.main = c /\ net'.poll = net.poll
  BY <1>1 DEF Net
<1>5. Lively(room, runner', net', answered)
  BY <1>1, <1>3, <1>4 DEF Lively, Current, Asking, Received, Polled, Working
<1>6. Turns' /\ WatchTypeOK' /\ reported' \subseteq Range(answered)
  BY <1>3, <1>4 DEF Turns, WatchTypeOK, WatchInv, Kept
<1> QED BY <1>5, <1>6, KeptKeeps

LEMMA LoopKeeps ==
  ASSUME WatchInv, Loop \/ Unanswered \/ Interrupted \/ Killed
  PROVE  WatchInv'
<1>0. /\ failures \in Nat /\ reported \subseteq Range(answered) /\ stray \subseteq [op : Operations, job : Nat] /\ net \in Net
      /\ net.main \in Call /\ runner \in Loops /\ answered \in Seq(Nat)
      /\ (Alive(runner) => Lively(room, runner, net, answered))
  BY DEF WatchInv, WatchTypeOK, Net
<1>1. CASE Answered
  BY <1>1, AnsweredKeeps
<1>2. CASE Retry
  BY <1>0, <1>2, SubmitKeeps DEF Retry, Kept, serverVars, record
<1>3. CASE Wake
  <2>1. room.job \notin runner.seen /\ Alive(runner)
    BY <1>0, <1>3 DEF Wake, Lively, Current, Working, Alive
  <2>2. request("updates", 0) \in Call /\ request("updates", 0).stage = "sent" /\ request("updates", 0).op = "updates"
    BY DEF request, Call, Operations
  <2>3. Goes("update") /\ net' = [net EXCEPT !.main = request("updates", 0)] /\ Kept /\ UNCHANGED <<stray, failures, reported>>
    BY <1>3 DEF Wake, Calls, Kept, serverVars, record
  <2> QED BY <1>0, <2>1, <2>2, <2>3, GoesKeeps
<1>4. CASE Assess
  <2>1. runner.at \in Working /\ Alive(runner)
    BY <1>4 DEF Assess, Working, Alive
  <2>2. request("updates", 0) \in Call /\ request("updates", 0).stage = "sent" /\ request("updates", 0).op = "updates"
    BY DEF request, Call, Operations
  <2>3. Goes("confirm") /\ net' = [net EXCEPT !.main = request("updates", 0)] /\ Kept /\ UNCHANGED <<stray, failures, reported>>
    BY <1>4 DEF Assess, Calls, Kept, serverVars, record
  <2> QED BY <1>0, <2>1, <2>2, <2>3, GoesKeeps
<1>5. CASE NoAssessment
  <2>1. CASE Stop
    BY <1>0, <1>5, <2>1, StopKeeps DEF NoAssessment, Kept, serverVars, record
  <2>2. CASE runner.stale
    <3>1. room.job \notin runner.seen /\ Alive(runner)
      BY <1>0, <1>5, <2>2 DEF NoAssessment, Lively, Current, Working, Alive
    <3>2. request("updates", 0) \in Call /\ request("updates", 0).stage = "sent" /\ request("updates", 0).op = "updates"
      BY DEF request, Call, Operations
    <3>3. Goes("update") /\ net' = [net EXCEPT !.main = request("updates", 0)] /\ Kept /\ UNCHANGED <<stray, failures, reported>>
      BY <1>5, <2>2 DEF NoAssessment, Calls, Kept, serverVars, record
    <3> QED BY <1>0, <3>1, <3>2, <3>3, GoesKeeps
  <2> QED BY <1>5, <2>1, <2>2 DEF NoAssessment
<1>6. CASE Stopped
  <2>1. runner' = [runner EXCEPT !.at = "stopped"] /\ net' = [net EXCEPT !.main = Quiet] /\ stray' = stray \cup pending(net.main)
        /\ Kept /\ UNCHANGED <<failures, reported>>
    BY <1>6 DEF Stopped, Goes, Kept, serverVars, record
  <2>2. runner' \in Loops /\ runner'.seen = runner.seen /\ runner'.turns = runner.turns /\ ~Alive(runner')
    BY <1>0, <2>1 DEF Loops, Alive
  <2>3. net' \in Net /\ stray' \subseteq [op : Operations, job : Nat]
    BY <1>0, <2>1, PendingType DEF Net, Call
  <2>4. Turns' /\ WatchTypeOK' /\ reported' \subseteq Range(answered)
    BY <1>0, <2>1, <2>2, <2>3 DEF Turns, WatchTypeOK, WatchInv, Kept
  <2> QED BY <2>1, <2>2, <2>4, KeptKeeps
<1>7. CASE Killed
  <2>1. runner' = [runner EXCEPT !.at = "stopped"] /\ net' = [main |-> Quiet, poll |-> Quiet, beat |-> FALSE]
        /\ Kept /\ UNCHANGED <<stray, reported>> /\ failures' = failures + 1
    BY <1>7 DEF Killed, Goes, Kept, serverVars
  <2>2. runner' \in Loops /\ runner'.seen = runner.seen /\ runner'.turns = runner.turns /\ ~Alive(runner')
    BY <1>0, <2>1 DEF Loops, Alive
  <2>3. net' \in Net
    BY <2>1 DEF Net, Call
  <2>4. Turns' /\ WatchTypeOK' /\ reported' \subseteq Range(answered)
    BY <1>0, <2>1, <2>2, <2>3 DEF Turns, WatchTypeOK, WatchInv, Kept
  <2> QED BY <2>1, <2>2, <2>4, KeptKeeps
<1>8. CASE Unanswered
  <2>0. Kept /\ failures' \in Nat /\ reported' = reported
    BY <1>0, <1>8 DEF Unanswered, Kept, serverVars
  <2>1. CASE Stop
    BY <1>0, <2>0, <2>1, StopKeeps
  <2>2. CASE ~Stop
    <3>1. Goes("pausing") /\ net' = [net EXCEPT !.main = Quiet] /\ stray' = stray \cup pending(net.main) /\ runner.at = "submit"
      BY <1>8, <2>2 DEF Unanswered
    <3>2. Quiet \in Call /\ Quiet.stage = "none"
      BY DEF Call, Quiet
    <3>3. Alive(runner) /\ runner.at \in Working
      BY <3>1 DEF Alive, Working
    <3> QED BY <1>0, <2>0, <3>1, <3>2, <3>3, PendingType, GoesKeeps
  <2> QED BY <2>1, <2>2
<1>9. CASE Interrupted
  BY <1>0, <1>9, StopKeeps DEF Interrupted, Kept, serverVars, record
<1> QED BY <1>1, <1>2, <1>3, <1>4, <1>5, <1>6, <1>7, <1>8, <1>9 DEF Loop

(* A call is served: its reply names the job that is pending afterwards.   *)
View == [ok |-> TRUE, job |-> [id |-> room.job, left |-> room.deadline]]
answer(op, j, f) == IF Allowed(op, j, f) THEN View' ELSE Refusal

LEMMA ServedIs ==
  ASSUME WatchInv, NEW op \in Operations, NEW j \in Nat, NEW f \in FollowUps, Served(op, j, f)
  PROVE  /\ AgentInv' /\ Answering' /\ reported' \subseteq Range(answered') /\ failures' \in Nat /\ room' \in Room
         /\ answer(op, j, f) \in Reply
         /\ answer(op, j, f).ok => answer(op, j, f).job.id = room'.job
         /\ answer(op, j, f).ok /\ op = "assess" => j \in Range(answered') /\ room'.job # j
         /\ \A u : \A t \in Net : Lively(room, u, t, answered) => Lively(room', u, t, answered')
<1>1. AgentInv /\ Answering /\ room \in Room /\ failures \in Nat /\ reported \subseteq Range(answered)
  BY DEF WatchInv, WatchTypeOK, AgentInv, Settled, Ready
<1>2. /\ AgentInv' /\ Answering' /\ Range(answered) \subseteq Range(answered') /\ Succeeds(room, room')
      /\ Allowed(op, j, f) /\ op = "assess" => j \in Range(answered') /\ room'.job # j
  BY <1>1, ServedKeeps
<1>3. room' \in Room
  BY <1>2 DEF AgentInv, Settled, Ready
<1>4. failures' = failures /\ reported' = reported
  BY DEF Served
<1>5. \A u : \A t \in Net : Lively(room, u, t, answered) => Lively(room', u, t, answered')
  BY <1>1, <1>2, <1>3, LivelyMoves
<1>6. View' \in Reply /\ View'.ok /\ View'.job.id = room'.job
  BY <1>3 DEF View, Reply, JobView, Room
<1>7. Refusal \in Reply /\ ~Refusal.ok
  BY DEF Refusal, Reply
<1> HIDE DEF View, Refusal
<1>8. CASE Allowed(op, j, f)
  BY <1>1, <1>2, <1>3, <1>4, <1>5, <1>6, <1>8 DEF answer
<1>9. CASE ~Allowed(op, j, f)
  BY <1>1, <1>2, <1>3, <1>4, <1>5, <1>7, <1>9 DEF answer
<1> QED BY <1>8, <1>9

LEMMA ServeKeeps ==
  ASSUME WatchInv, NEW who \in {"main", "poll"}, Serve(who)
  PROVE  WatchInv'
<1> DEFINE c == net[who]
<1>1. net \in Net /\ c \in Call /\ runner \in Loops /\ (Alive(runner) => Lively(room, runner, net, answered)) /\ Turns
  BY DEF WatchInv, WatchTypeOK, Net
<1>2. c.stage = "sent" /\ UNCHANGED <<runner, stray>>
  BY DEF Serve
<1>3. c.op \in Operations /\ c.job \in Nat
  BY <1>1, <1>2, CallType
<1>4. PICK f \in FollowUps : /\ Served(c.op, c.job, f)
                             /\ net' = [net EXCEPT ![who] = [stage |-> "replied", op |-> c.op, job |-> c.job,
                                                             reply |-> answer(c.op, c.job, f)]]
  BY DEF Serve, Perform, Served, Allowed, AnswersJob, caller, answer, View
<1> DEFINE a == answer(c.op, c.job, f)
           d == [stage |-> "replied", op |-> c.op, job |-> c.job, reply |-> a]
<1>5. /\ AgentInv' /\ Answering' /\ reported' \subseteq Range(answered') /\ failures' \in Nat /\ room' \in Room
      /\ a \in Reply /\ (a.ok => a.job.id = room'.job)
      /\ (a.ok /\ c.op = "assess" => c.job \in Range(answered') /\ room'.job # c.job)
      /\ (Alive(runner) => Lively(room', runner, net, answered'))
  BY <1>1, <1>3, <1>4, ServedIs
<1> HIDE DEF a
<1>6. net' = [net EXCEPT ![who] = d] /\ d \in Call /\ d.stage = "replied" /\ d.op = c.op /\ d.job = c.job /\ d.reply = a
  BY <1>3, <1>4, <1>5 DEF Call, a
<1> HIDE DEF d
<1>7. net' \in Net
  BY <1>1, <1>6 DEF Net
<1>8. ASSUME Alive(runner) PROVE Lively(room', runner, net', answered')
  <2>0. room'.job \in Nat /\ room'.jobs \in Nat /\ room'.job <= room'.jobs
    BY <1>5 DEF AgentInv, Settled, Ready, JobsKept, Room
  <2>1. CASE who = "main"
    <3>1. net'.main = d /\ net'.poll = net.poll
      BY <1>1, <1>6, <2>1 DEF Net
    <3>2. Asking(runner, d, answered')
      BY <1>2, <1>5, <1>6, <1>8, <2>1 DEF Lively, Asking
    <3>3. Received(room', runner, d, answered')
      <4>1. Current(room', runner)
        BY <1>5, <1>8 DEF Lively
      <4>2. runner.at = "submit" => c.op = "assess" /\ c.job = runner.job.id
        BY <1>2, <1>5, <1>8, <2>1 DEF Lively, Asking
      <4>3. ASSUME a.ok, room'.job \in runner.seen
            PROVE  runner.at = "confirm" /\ ~runner.stale /\ room'.job = runner.job.id
        <5>1. room'.job = runner.job.id /\ ~runner.stale /\ runner.at \in Working
          BY <4>1, <4>3 DEF Current
        <5>2. runner.at # "submit"
          BY <1>5, <4>2, <4>3, <5>1
        <5>3. runner.at \notin {"thinking", "pausing"}
          BY <1>1, <1>2, <1>8, <2>1 DEF Lively, Asking
        <5> QED BY <5>1, <5>2, <5>3 DEF Working
      <4> QED BY <1>5, <1>6, <2>0, <4>2, <4>3 DEF Received
    <3> QED BY <1>5, <1>8, <3>1, <3>2, <3>3 DEF Lively
  <2>2. CASE who = "poll"
    <3>1. net'.main = net.main /\ net'.poll = d
      BY <1>1, <1>6, <2>2 DEF Net
    <3>2. Polled(room', d)
      BY <1>2, <1>5, <1>6, <1>8, <2>2 DEF Lively, Polled
    <3> QED BY <1>5, <1>8, <3>1, <3>2 DEF Lively
  <2> QED BY <2>1, <2>2
<1>9. Turns' /\ WatchTypeOK'
  BY <1>1, <1>2, <1>5, <1>7 DEF Turns, WatchTypeOK, WatchInv, Answering
<1> QED BY <1>2, <1>5, <1>8, <1>9 DEF WatchInv

LEMMA StrayKeeps ==
  ASSUME WatchInv, ServeStray
  PROVE  WatchInv'
<1>1. PICK c \in stray : /\ Perform(c.op, c.job, LAMBDA reply : stray' = stray \ {c}) /\ UNCHANGED <<runner, net>>
  BY DEF ServeStray
<1>2. PICK f \in FollowUps : Served(c.op, c.job, f) /\ stray' = stray \ {c}
  BY <1>1 DEF Perform, Served, Allowed, AnswersJob, caller
<1>3. c.op \in Operations /\ c.job \in Nat
  BY DEF WatchInv, WatchTypeOK
<1>4. /\ AgentInv' /\ Answering' /\ reported' \subseteq Range(answered') /\ failures' \in Nat
      /\ \A u : \A t \in Net : Lively(room, u, t, answered) => Lively(room', u, t, answered')
  BY <1>2, <1>3, ServedIs
<1> QED BY <1>1, <1>2, <1>4 DEF WatchInv, WatchTypeOK, Turns, Answering

LEMMA BeatKeeps ==
  ASSUME WatchInv, BeatAnswered
  PROVE  WatchInv'
<1>1. PICK f \in FollowUps : Served("heartbeat", 0, f) /\ (Stop \/ (net' = [net EXCEPT !.beat = FALSE] /\ UNCHANGED <<runner, stray>>))
  BY DEF BeatAnswered, Perform, Served, Allowed, AnswersJob, caller
<1>2. /\ AgentInv' /\ Answering' /\ reported' \subseteq Range(answered') /\ failures' \in Nat /\ room' \in Room
      /\ (Alive(runner) => Lively(room', runner, net, answered')) /\ net \in Net
  BY <1>1, ServedIs DEF Operations, WatchInv, WatchTypeOK
<1>3. CASE Stop
  BY <1>2, <1>3, StopType DEF WatchInv, WatchTypeOK, Answering
<1>4. CASE net' = [net EXCEPT !.beat = FALSE] /\ UNCHANGED <<runner, stray>>
  <2>1. net' \in Net /\ net'.main = net.main /\ net'.poll = net.poll
    BY <1>2, <1>4 DEF Net
  <2> QED BY <1>2, <1>4, <2>1 DEF WatchInv, WatchTypeOK, Turns, Answering, Lively
<1> QED BY <1>1, <1>3, <1>4

LEMMA TimersKeep ==
  ASSUME WatchInv, Timers
  PROVE  WatchInv'
<1>0. /\ failures \in Nat /\ reported \subseteq Range(answered) /\ stray \subseteq [op : Operations, job : Nat] /\ net \in Net
      /\ net.poll \in Call /\ runner \in Loops /\ answered \in Seq(Nat)
      /\ (Alive(runner) => Lively(room, runner, net, answered))
  BY DEF WatchInv, WatchTypeOK, Net
<1>1. CASE Beat
  <2>1. net' = [net EXCEPT !.beat = TRUE] /\ Kept /\ UNCHANGED <<runner, stray, failures, reported>>
    BY <1>1 DEF Beat, Kept, serverVars, record
  <2>2. net' \in Net /\ net'.main = net.main /\ net'.poll = net.poll
    BY <1>0, <2>1 DEF Net
  <2> QED BY <1>0, <2>1, <2>2, KeptKeeps DEF WatchInv, WatchTypeOK, Turns, Lively, Kept
<1>2. CASE BeatAnswered
  BY <1>2, BeatKeeps
<1>3. CASE Poll
  <2>1. net' = [net EXCEPT !.poll = request("updates", runner.job.id)] /\ Kept /\ UNCHANGED <<runner, stray, failures, reported>>
        /\ runner.at = "thinking"
    BY <1>3 DEF Poll, Kept, serverVars, record
  <2>2. runner.job.id \in 1..room.jobs /\ runner.job.id \in Nat
    BY <1>0, <2>1 DEF Lively, Current, Working, Alive, Loops, JobView
  <2>3. request("updates", runner.job.id) \in Call
    BY <2>2 DEF request, Call, Operations
  <2>4. net' \in Net /\ net'.main = net.main /\ net'.poll = request("updates", runner.job.id)
    BY <1>0, <2>1, <2>3 DEF Net
  <2>5. Lively(room, runner, net', answered)
    BY <1>0, <2>1, <2>2, <2>4 DEF Lively, Polled, request, Alive
  <2> QED BY <1>0, <2>1, <2>4, <2>5, KeptKeeps DEF WatchInv, WatchTypeOK, Turns, Kept
<1>4. CASE PollAnswered
  <2>0. Kept /\ UNCHANGED <<failures, reported>> /\ net.poll.stage = "replied"
    BY <1>4 DEF PollAnswered, Kept, serverVars, record
  <2>1. CASE Stop
    BY <1>0, <2>0, <2>1, StopKeeps
  <2>2. CASE ~Stop
    <3> DEFINE st == runner.stale \/ (runner.at = "thinking" /\ runner.job.id = net.poll.job /\ net.poll.reply.job.id # net.poll.job)
    <3>1. /\ runner' = [runner EXCEPT !.stale = st] /\ net' = [net EXCEPT !.poll = Quiet] /\ UNCHANGED stray
          /\ net.poll.reply.ok
      BY <1>0, <1>4, <2>2 DEF PollAnswered, Loops
    <3>2. ASSUME Alive(runner), st PROVE runner.stale \/ room.job # runner.job.id
      BY <1>0, <2>0, <3>1, <3>2 DEF Lively, Polled
    <3>3. st \in BOOLEAN
      BY <1>0 DEF Loops
    <3> HIDE DEF st
    <3>4. runner' \in Loops /\ runner'.at = runner.at /\ runner'.seen = runner.seen /\ runner'.turns = runner.turns /\ runner'.job = runner.job
          /\ runner'.stale = st
      BY <1>0, <3>1, <3>3 DEF Loops
    <3>5. net' \in Net /\ net'.main = net.main /\ net'.poll = Quiet
      BY <1>0, <3>1 DEF Net, Call
    <3>6. ASSUME Alive(runner) PROVE Lively(room, runner', net', answered)
      <4>1. Current(room, runner')
        BY <1>0, <3>2, <3>4, <3>6 DEF Lively, Current
      <4>2. Received(room, runner', net.main, answered)
        <5>1. Received(room, runner, net.main, answered)
          BY <1>0, <3>6 DEF Lively
        <5>2. runner.at = "confirm" => (st <=> runner.stale)
          BY DEF st
        <5> QED BY <3>4, <5>1, <5>2 DEF Received
      <4> QED BY <1>0, <3>4, <3>5, <3>6, <4>1, <4>2 DEF Lively, Asking, Polled, Quiet
    <3> QED BY <1>0, <2>0, <3>1, <3>4, <3>5, <3>6, KeptKeeps DEF WatchInv, WatchTypeOK, Turns, Kept, Alive
  <2> QED BY <2>1, <2>2
<1>5. CASE TimerUnanswered
  BY <1>0, <1>5, StopKeeps DEF TimerUnanswered, Kept, serverVars
<1> QED BY <1>1, <1>2, <1>3, <1>4, <1>5 DEF Timers

LEMMA ServerKeeps ==
  ASSUME WatchInv, RiderSpeaks \/ GuardianCheckIn \/ EvidenceAges \/ Revoke \/ AlarmFires \/ Tick, UNCHANGED answered
  PROVE  /\ AgentInv' /\ Answering' /\ room' \in Room
         /\ \A u : \A t \in Net : Lively(room, u, t, answered) => Lively(room', u, t, answered)
<1>1. AgentInv /\ Answering /\ room \in Room
  BY DEF WatchInv, AgentInv, Settled, Ready
<1>2. Moves(room, room')
  BY <1>1, ServerMoves
<1>3. AgentInv'
  BY <1>1, AgentStep DEF Next, Participants
<1>4. room' \in Room /\ Succeeds(room, room')
  BY <1>2 DEF Moves, Succeeds
<1>5. Answering'
  BY <1>1, <1>2, AnswersMove DEF Answering
<1> QED BY <1>1, <1>3, <1>4, <1>5, LivelyMoves

LEMMA ClockKeeps ==
  ASSUME WatchInv, ClockTicks
  PROVE  WatchInv'
<1>0. /\ runner \in Loops /\ net \in Net /\ net.main \in Call /\ net.poll \in Call /\ (Alive(runner) => Lively(room, runner, net, answered))
  BY DEF WatchInv, WatchTypeOK, Net
<1>1. /\ Tick /\ UNCHANGED <<stray, failures, answered, reported>>
      /\ runner' = [runner EXCEPT !.left = Elapse(@), !.job.left = Elapse(@)]
      /\ net' = [net EXCEPT !.main = aged(@), !.poll = aged(@)]
  BY DEF ClockTicks, record
<1>2. /\ AgentInv' /\ Answering' /\ room' \in Room
      /\ (Alive(runner) => Lively(room', runner, net, answered))
  BY <1>0, <1>1, ServerKeeps
<1>3. \A t \in Timer : Elapse(t) \in Timer
  BY DEF Elapse, Timer, NoTimer
<1>4. \A t \in Nat : Elapse(t) \in Nat
  BY DEF Elapse
<1>5. runner' \in Loops /\ runner'.at = runner.at /\ runner'.seen = runner.seen /\ runner'.turns = runner.turns
      /\ runner'.job.id = runner.job.id /\ runner'.stale = runner.stale
  <2> DEFINE jb == [runner.job EXCEPT !.left = Elapse(@)]
             lf == Elapse(runner.left)
  <2>1. runner.job \in JobView /\ lf \in Nat
    BY <1>0, <1>4 DEF Loops
  <2>2. jb \in JobView /\ jb.id = runner.job.id
    BY <1>3, <2>1 DEF JobView
  <2>3. runner' = [runner EXCEPT !.left = lf, !.job = jb]
    BY <1>0, <1>1 DEF Loops
  <2> HIDE DEF jb, lf
  <2> QED BY <1>0, <2>1, <2>2, <2>3 DEF Loops
<1>6. ASSUME NEW c \in Call
      PROVE  /\ aged(c) \in Call /\ aged(c).stage = c.stage /\ (c.stage # "none" => aged(c).op = c.op /\ aged(c).job = c.job)
             /\ c.stage = "replied" => aged(c).reply.ok = c.reply.ok /\ (c.reply.ok => aged(c).reply.job.id = c.reply.job.id)
  <2>1. CASE ~(c.stage = "replied" /\ c.reply.ok)
    BY <2>1 DEF aged
  <2>2. CASE c.stage = "replied" /\ c.reply.ok
    <3> DEFINE v == [c.reply.job EXCEPT !.left = Elapse(@)]
               p == [c.reply EXCEPT !.job = v]
               d == [c EXCEPT !.reply = p]
    <3>1. c \in [stage : {"replied"}, op : Operations, job : Nat, reply : Reply] /\ c.reply.job \in JobView
          /\ c.reply \in [ok : {TRUE}, job : JobView]
      <4>1. c.reply \in [ok : {TRUE}, job : JobView]
        <5>1. c.reply \in Reply
          BY <2>2, CallType
        <5>2. Refusal.ok = FALSE
          BY DEF Refusal
        <5>3. c.reply # Refusal
          BY <2>2, <5>2
        <5> QED BY <5>1, <5>3 DEF Reply
      <4>2. c \in [stage : {"replied"}, op : Operations, job : Nat, reply : Reply]
        BY <2>2 DEF Call, Quiet
      <4> QED BY <4>1, <4>2
    <3>2. aged(c) = d
      BY <2>2, <3>1 DEF aged
    <3>3. v \in JobView /\ v.id = c.reply.job.id
      BY <1>3, <3>1 DEF JobView
    <3> HIDE DEF v
    <3>4. p \in [ok : {TRUE}, job : JobView] /\ p.ok = c.reply.ok /\ p.job = v
      BY <3>1, <3>3
    <3> HIDE DEF p
    <3>5. d \in [stage : {"replied"}, op : Operations, job : Nat, reply : Reply] /\ d.stage = c.stage /\ d.op = c.op /\ d.job = c.job
          /\ d.reply = p
      BY <3>1, <3>4 DEF Reply
    <3> HIDE DEF d
    <3> QED BY <3>2, <3>3, <3>4, <3>5 DEF Call
  <2> QED BY <2>1, <2>2
<1>7. net' \in Net /\ net'.main = aged(net.main) /\ net'.poll = aged(net.poll)
  <2>1. aged(net.main) \in Call /\ aged(net.poll) \in Call
    BY <1>0, <1>6
  <2>2. net' = [net EXCEPT !.main = aged(net.main), !.poll = aged(net.poll)]
    BY <1>0, <1>1 DEF Net
  <2> QED BY <1>0, <2>1, <2>2 DEF Net
<1>8. ASSUME Alive(runner) PROVE Lively(room', runner', net', answered)
  <2>1. Current(room', runner') /\ Polled(room', net'.poll)
    BY <1>0, <1>2, <1>5, <1>6, <1>7, <1>8 DEF Lively, Current, Polled
  <2>2. Asking(runner', net'.main, answered)
    BY <1>0, <1>2, <1>5, <1>6, <1>7, <1>8 DEF Lively, Asking
  <2>3. Received(room', runner', net'.main, answered)
    BY <1>0, <1>2, <1>5, <1>6, <1>7, <1>8 DEF Lively, Received
  <2> QED BY <2>1, <2>2, <2>3 DEF Lively
<1> QED BY <1>1, <1>2, <1>5, <1>7, <1>8 DEF WatchInv, WatchTypeOK, Turns, Answering, Alive

LEMMA WatchStep == WatchInv /\ [WatchNext]_<<vars, watchVars>> => WatchInv'
<1> SUFFICES ASSUME WatchInv, [WatchNext]_<<vars, watchVars>> PROVE WatchInv'
  OBVIOUS
<1>1. CASE UNCHANGED <<vars, watchVars>>
  <2>1. Kept /\ UNCHANGED <<runner, net, stray, failures, reported>>
    BY <1>1 DEF watchVars, Kept
  <2> QED BY <2>1, KeptKeeps DEF WatchInv, WatchTypeOK, Turns, Kept
<1>2. CASE Server
  <2>1. UNCHANGED <<runner, net, stray, failures, answered, reported>>
    BY <1>2 DEF Server, watchVars
  <2>2. /\ AgentInv' /\ Answering'
        /\ \A u : \A t \in Net : Lively(room, u, t, answered) => Lively(room', u, t, answered)
    BY <1>2, <2>1, ServerKeeps DEF Server
  <2> QED BY <2>1, <2>2 DEF WatchInv, WatchTypeOK, Turns
<1> QED BY <1>1, <1>2, LoopKeeps, TimersKeep, ServeKeeps, StrayKeeps, ClockKeeps DEF WatchNext

LEMMA WatchStarts == WatchInit => WatchInv
<1> SUFFICES ASSUME WatchInit PROVE WatchInv
  OBVIOUS
<1> USE PersonalAgentAssumption, AgentWatchAssumption DEF NoTimer
<1> DEFINE g == CHOOSE g \in Guardians : TRUE
<1>1. g \in Guardians
  OBVIOUS
<1> HIDE DEF g
<1>2. room \in Room
  BY <1>1 DEF WatchInit, Room, Account, Timer, Status, g
<1>3. /\ room.open /\ room.guardian = g /\ room.assignment = 1 /\ room.guardMode = "human" /\ room.nextCheckIn = CheckInEvery
      /\ room.aiNextCheckIn = NoTimer /\ room.assistance /\ ~room.help /\ room.status = "approved" /\ room.owner = g /\ room.granted = 1
      /\ room.token = 1 /\ room.tokens = 1 /\ room.lastSeen = NoTimer /\ room.deadline = NoTimer /\ room.nextJob = NoTimer
      /\ room.job = 0 /\ room.jobs = 0 /\ room.done = {} /\ room.fresh = {}
  BY DEF WatchInit, g
<1>4. Settled(room) /\ Covered(room, silence)
  BY <1>2, <1>3 DEF Settled, Ready, JobsKept, TimesKept, Standing, Covered, personalAgentConnected
<1>5. OnTime(room, alarm) /\ alarm \in Timer
  BY <1>2, ScheduleOnTime DEF WatchInit
<1>6. /\ call = NoCall /\ held = {1} /\ given = {} /\ suspended = FALSE /\ inputs = MaxInputs - 1 /\ silence = 0
      /\ runner = [Off EXCEPT !.at = "accept", !.left = WatchFor]
      /\ net = [main |-> request("accept", 0), poll |-> Quiet, beat |-> FALSE]
      /\ stray = {} /\ failures = 0 /\ answered = <<>> /\ reported = {}
  BY DEF WatchInit
<1>7. given \subseteq 1..room.jobs /\ held \subseteq 1..room.tokens /\ inputs \in Int /\ silence \in Nat
  BY <1>3, <1>6
<1>8. Calling /\ suspended \in BOOLEAN
  BY <1>6, Zenon DEF Calling
<1>9. AgentInv
  BY <1>4, <1>5, <1>7, <1>8 DEF AgentInv
<1>10. runner \in Loops /\ runner.at = "accept" /\ runner.seen = {} /\ runner.turns = 0
  BY <1>6 DEF Off, Loops, JobView, NoJob, Timer
<1>11. net \in Net /\ net.main = request("accept", 0) /\ net.poll = Quiet
  BY <1>6 DEF Net, Call, request, Operations
<1>12. Turns
  BY <1>10, FS_EmptySet DEF Turns
<1>13. Answering /\ Range(answered) = {}
  BY <1>3, <1>6 DEF Answering, Answers, IsInjective, Range
<1>14. Lively(room, runner, net, answered)
  BY <1>3, <1>10, <1>11 DEF Lively, Current, Asking, Received, Polled, request, Quiet, Working
<1> QED BY <1>6, <1>9, <1>10, <1>11, <1>12, <1>13, <1>14 DEF WatchInv, WatchTypeOK

(* The loop, the replies on their way to it and the server agree on what   *)
(* is pending and on what is over.                                         *)
THEOREM WatchInvariant == WatchSpec => []WatchInv
  BY WatchStarts, WatchStep, PTL DEF WatchSpec

LEMMA OnceFollows == WatchInv => OncePerJob
<1> SUFFICES ASSUME WatchInv PROVE OncePerJob
  OBVIOUS
<1>1. Cardinality(runner.seen) = runner.turns /\ IsInjective(answered) /\ reported \subseteq Range(answered)
  BY DEF WatchInv, Turns, Answering, Answers
<1>2. runner.at \in {"update", "confirm", "submit"} => Received(room, runner, net.main, answered)
  BY DEF WatchInv, Alive, Lively
<1> QED BY <1>1, <1>2 DEF OncePerJob, Received

(* The runtime pays for one inference per job and meets none twice; an     *)
(* answer takes effect once; what it reports as completed took effect.     *)
THEOREM OncePerJobHolds == WatchSpec => []OncePerJob
  BY OnceFollows, WatchInvariant, PTL

(***************************************************************************)
(* One assessment on its machine.                                          *)
(***************************************************************************)
Task == [at : {"new", "running", "cleaning", "over"}, process : Nat, inMemory : BOOLEAN,
         result : {"none", "failure", "assessment"}, typed : BOOLEAN,
         terminationPending : BOOLEAN, cleanupFailed : BOOLEAN]
Child == [alive : BOOLEAN, code : {0, 1}, broken : BOOLEAN]
Watch == [settled : {"no", "resolved", "rejected"}, failed : BOOLEAN, closed : BOOLEAN, timer : BOOLEAN, closeTimer : BOOLEAN]
Collector == [started : BOOLEAN, result : BOOLEAN, completed : BOOLEAN, notice : BOOLEAN]
Machine == [directory : BOOLEAN, expired : BOOLEAN, aborted : BOOLEAN]
RunnerTypeOK == /\ task \in Task /\ child \in Child /\ run \in Watch /\ collector \in Collector /\ machine \in Machine
                /\ emitted \in Seq(Lines)

(* A process is watched from its start until it has closed, with a timer   *)
(* for as long as its caller waits.                                        *)
Watched == /\ child.alive <=> ~run.closed
           /\ run.closeTimer => run.settled = "no" /\ run.failed
           /\ run.settled = "no" => child.alive /\ (IF run.failed THEN run.closeTimer ELSE run.timer)
           /\ run.settled = "resolved" => ~child.alive /\ child.code = 0 /\ ~child.broken /\ ~run.failed
(* The result is that of the last process, and says what was left of it.   *)
Told == /\ task.at = "new" => run.settled = "resolved" /\ task.process = 0 /\ ~machine.directory
        /\ task.at \in {"new", "running"} => task.result = "none"
        /\ task.at \in {"cleaning", "over"} => /\ child.alive => task.terminationPending
                                               /\ run.settled # "no"
        /\ task.at = "over" => (machine.directory => task.cleanupFailed \/ ~task.typed)
        /\ task.result = "assessment" => /\ run.settled = "resolved" /\ task.process = Model
                                         /\ collector.completed /\ collector.result

(* What the collector has taken from the lines of the model: where the     *)
(* turn started, what it said and where it was completed, if it was.       *)
Said == {"thread", "notice", "reasoning"}
Places(c, s, a, m, z) ==
  /\ (c.started <=> a # 0) /\ (c.result <=> m # 0) /\ (c.completed <=> z # 0)
  /\ a # 0 => s[a] = "started"
  /\ m # 0 => a # 0 /\ a < m /\ s[m] = "message"
  /\ z # 0 => m # 0 /\ m < z /\ s[z] = "completed"
  /\ \A k \in DOMAIN s \ {a, m, z} : s[k] \in Said
  /\ \A i, j \in DOMAIN s : s[i] = "notice" /\ s[j] = "notice" => i = j
  /\ \A i \in DOMAIN s : s[i] = "notice" => c.notice
Heard(c, s) == \E a, m, z \in 0..Len(s) : Places(c, s, a, m, z)
Followed == /\ task.process # Model => emitted = <<>> /\ collector = NewCollector
            /\ task.process \in 0..Model
            /\ ~run.failed /\ run.settled # "rejected" => Heard(collector, emitted)
RunnerInv == RunnerTypeOK /\ Watched /\ Told /\ Followed

LEMMA HeardOn ==
  ASSUME NEW c \in Collector, NEW s \in Seq(Lines), Heard(c, s), NEW line \in Lines, NEW d \in onLine(c, line)
  PROVE  d \in Collector /\ Heard(d, Append(s, line))
<1> DEFINE t == Append(s, line)
           n == Len(s) + 1
<1>1. /\ Len(s) \in Nat /\ Len(t) = n /\ t \in Seq(Lines) /\ DOMAIN t = 1..n /\ DOMAIN s = 1..Len(s) /\ t[n] = line
      /\ \A k \in DOMAIN s : t[k] = s[k]
  <2>1. Len(s) \in Nat /\ DOMAIN s = 1..Len(s) /\ t \in Seq(Lines) /\ Len(t) = n /\ t[n] = line
    OBVIOUS
  <2>2. \A k \in 1..Len(s) : t[k] = s[k]
    OBVIOUS
  <2> HIDE DEF t
  <2> QED BY <2>1, <2>2
<1>2. PICK a \in 0..Len(s), m \in 0..Len(s), z \in 0..Len(s) : Places(c, s, a, m, z)
  BY DEF Heard
<1>3. ~c.completed /\ z = 0
  <2>1. ~c.completed
    BY DEF onLine, Collector
  <2> QED BY <1>2, <2>1 DEF Places
<1> SUFFICES d \in Collector /\ Heard(d, t)
  OBVIOUS
<1> HIDE DEF t, n
<1>8. n \in Nat /\ n > Len(s) /\ \A k \in 1..n : k \in 1..Len(s) \/ k = n
  BY <1>1 DEF n
<1>4. CASE line \in {"thread", "reasoning"}
  <2>1. d = c
    BY <1>4 DEF onLine
  <2>2. a \in 0..Len(t) /\ m \in 0..Len(t) /\ z \in 0..Len(t)
    BY <1>1, <1>8
  <2>3. \A k \in DOMAIN t \ {a, m, z} : t[k] \in Said
    BY <1>1, <1>2, <1>4, <1>8 DEF Said, Places
  <2>4. \A i \in DOMAIN t : t[i] = "notice" => i \in DOMAIN s
    BY <1>1, <1>4, <1>8
  <2>5. (a # 0 => t[a] = "started") /\ (m # 0 => t[m] = "message")
    BY <1>1, <1>2 DEF Places
  <2>9. Places(d, t, a, m, z)
    BY <1>1, <1>2, <1>3, <2>1, <2>2, <2>3, <2>4, <2>5 DEF Places
  <2> QED BY <2>1, <2>2, <2>9 DEF Heard
<1>5. CASE line = "notice"
  <2>1. ~c.started /\ ~c.notice /\ d = [c EXCEPT !.notice = TRUE]
    BY <1>3, <1>5 DEF onLine
  <2>2. d \in Collector /\ d.started = c.started /\ d.result = c.result /\ d.completed = c.completed /\ d.notice
    BY <2>1 DEF Collector
  <2>3. a = 0 /\ m = 0 /\ \A i \in DOMAIN s : s[i] # "notice"
    BY <1>2, <2>1 DEF Places
  <2>4. \A k \in DOMAIN t : t[k] \in Said
    BY <1>1, <1>2, <1>3, <1>5, <1>8, <2>3 DEF Said, Places
  <2>5. \A i \in DOMAIN t : t[i] = "notice" => i = n
    BY <1>1, <1>8, <2>3
  <2>6. 0 \in 0..Len(t) /\ ~d.started /\ ~d.result /\ ~d.completed
    BY <1>1, <1>2, <1>3, <1>8, <2>2, <2>3 DEF Places
  <2>9. Places(d, t, 0, 0, 0)
    BY <2>2, <2>4, <2>5, <2>6 DEF Places
  <2> QED BY <2>2, <2>6, <2>9 DEF Heard
<1>6. CASE line = "started"
  <2>1. ~c.started /\ d = [c EXCEPT !.started = TRUE]
    BY <1>3, <1>6 DEF onLine
  <2>2. d \in Collector /\ d.started /\ d.result = c.result /\ d.completed = c.completed /\ d.notice = c.notice
    BY <2>1 DEF Collector
  <2>3. a = 0 /\ m = 0
    BY <1>2, <2>1 DEF Places
  <2>4. \A k \in DOMAIN t \ {n} : t[k] \in Said
    BY <1>1, <1>2, <1>3, <1>8, <2>3 DEF Said, Places
  <2>5. \A i \in DOMAIN t : t[i] = "notice" => i \in DOMAIN s
    BY <1>1, <1>6, <1>8
  <2>6. n \in 0..Len(t) /\ 0 \in 0..Len(t) /\ n # 0 /\ t[n] = "started" /\ ~d.result /\ ~d.completed
    BY <1>1, <1>2, <1>3, <1>6, <1>8, <2>2, <2>3 DEF Places
  <2>7. /\ \A i, j \in DOMAIN t : t[i] = "notice" /\ t[j] = "notice" => i = j
        /\ \A i \in DOMAIN t : t[i] = "notice" => d.notice
    BY <1>1, <1>2, <2>2, <2>5 DEF Places
  <2>9. Places(d, t, n, 0, 0)
    BY <2>2, <2>4, <2>6, <2>7 DEF Places
  <2> QED BY <2>2, <2>6, <2>9 DEF Heard
<1>7. CASE line \in {"message", "completed", "odd"}
  <2>1. CASE line = "message"
    <3>1. c.started /\ ~c.result /\ d = [c EXCEPT !.result = TRUE]
      BY <1>3, <2>1 DEF onLine
    <3>2. d \in Collector /\ d.started /\ d.result /\ d.completed = c.completed /\ d.notice = c.notice
      BY <3>1 DEF Collector
    <3>3. a # 0 /\ m = 0 /\ a < n /\ n \in 0..Len(t) /\ a \in 0..Len(t) /\ 0 \in 0..Len(t) /\ n # 0 /\ t[n] = "message"
          /\ t[a] = "started"
      BY <1>1, <1>2, <1>8, <2>1, <3>1 DEF Places
    <3>4. \A k \in DOMAIN t \ {a, n, 0} : t[k] \in Said
      BY <1>1, <1>2, <1>3, <1>8, <3>3 DEF Said, Places
    <3>5. \A i \in DOMAIN t : t[i] = "notice" => i \in DOMAIN s
      BY <1>1, <1>8, <2>1
    <3>6. /\ \A i, j \in DOMAIN t : t[i] = "notice" /\ t[j] = "notice" => i = j
          /\ \A i \in DOMAIN t : t[i] = "notice" => d.notice
      BY <1>1, <1>2, <3>2, <3>5 DEF Places
    <3>9. Places(d, t, a, n, 0)
      BY <1>3, <3>2, <3>3, <3>4, <3>6 DEF Places
    <3> QED BY <3>2, <3>3, <3>9 DEF Heard
  <2>2. CASE line = "completed"
    <3>1. c.started /\ c.result /\ d = [c EXCEPT !.completed = TRUE]
      BY <1>3, <2>2 DEF onLine
    <3>2. d \in Collector /\ d.started /\ d.result /\ d.completed /\ d.notice = c.notice
      BY <3>1 DEF Collector
    <3>3. a # 0 /\ m # 0 /\ a < m /\ m < n /\ n \in 0..Len(t) /\ a \in 0..Len(t) /\ m \in 0..Len(t) /\ n # 0
          /\ t[n] = "completed" /\ t[m] = "message" /\ t[a] = "started"
      BY <1>1, <1>2, <1>8, <2>2, <3>1 DEF Places
    <3>4. \A k \in DOMAIN t \ {a, m, n} : t[k] \in Said
      BY <1>1, <1>2, <1>3, <1>8, <3>3 DEF Said, Places
    <3>5. \A i \in DOMAIN t : t[i] = "notice" => i \in DOMAIN s
      BY <1>1, <1>8, <2>2
    <3>6. /\ \A i, j \in DOMAIN t : t[i] = "notice" /\ t[j] = "notice" => i = j
          /\ \A i \in DOMAIN t : t[i] = "notice" => d.notice
      BY <1>1, <1>2, <3>2, <3>5 DEF Places
    <3>9. Places(d, t, a, m, n)
      BY <3>2, <3>3, <3>4, <3>6 DEF Places
    <3> QED BY <3>2, <3>3, <3>9 DEF Heard
  <2>3. CASE line = "odd"
    BY <2>3, <1>3 DEF onLine
  <2> QED BY <1>7, <2>1, <2>2, <2>3
<1> QED BY <1>4, <1>5, <1>6, <1>7 DEF Lines, t

LEMMA RunnerStarts == RunnerInit => RunnerInv
<1> SUFFICES ASSUME RunnerInit PROVE RunnerInv
  OBVIOUS
<1>1. RunnerTypeOK
  BY DEF RunnerInit, RunnerTypeOK, Task, Child, Watch, Collector, Machine, NoProcess, NoRun, NewCollector
<1>2. Watched /\ Told
  BY DEF RunnerInit, Watched, Told, NoProcess, NoRun
<1>3. Heard(collector, emitted)
  <2>1. emitted = <<>> /\ collector = NewCollector
    BY DEF RunnerInit
  <2>2. 0 \in 0..Len(emitted) /\ DOMAIN emitted = {}
    BY <2>1
  <2>3. Places(collector, emitted, 0, 0, 0)
    BY <2>1, <2>2 DEF Places, NewCollector
  <2> QED BY <2>2, <2>3 DEF Heard
<1>4. Followed
  BY <1>3, ModelRunnerAssumption DEF RunnerInit, Followed, Model
<1> QED BY <1>1, <1>2, <1>4 DEF RunnerInv

(* An error is the end of a process that has closed, and of any other the  *)
(* beginning of the end.                                                   *)
LEMMA Settles ==
  ASSUME NEW r \in Watch
  PROVE  LET s == settleError(r)
         IN /\ s \in Watch /\ s.closed = r.closed
            /\ r.settled # "no" \/ r.failed => s = r
            /\ r.settled = "no" /\ s.closeTimer => s.settled = "no" /\ s.failed
            /\ r.settled = "no" /\ ~r.failed => /\ s.failed
                                                /\ IF r.closed THEN s.settled = "rejected" ELSE s.settled = "no" /\ s.closeTimer
  BY DEF settleError, finishFailure, Watch

LEMMA Finishes ==
  ASSUME NEW r \in Watch
  PROVE  finishFailure(r) \in Watch /\ ~finishFailure(r).closeTimer /\ finishFailure(r).settled = "rejected" /\ finishFailure(r).closed = r.closed
  BY DEF finishFailure, Watch

(* A line is taken while the model runs and nothing has failed.            *)
LEMMA WritesStep == ASSUME RunnerInv, NEW line \in Lines, Writes(line) PROVE RunnerInv'
<1>0. RunnerTypeOK /\ Watched /\ Told /\ Followed /\ child.alive /\ consume(line) /\ UNCHANGED <<task, child, machine>>
  BY DEF RunnerInv, Writes
<1>1. CASE Deaf
  <2>1. UNCHANGED <<run, collector, emitted>>
    BY <1>0, <1>1 DEF consume
  <2> QED BY <1>0, <2>1 DEF RunnerInv, RunnerTypeOK, Watched, Told, Followed
<1>2. CASE ~Deaf /\ task.process # Model
  <2>1. UNCHANGED <<run, collector, emitted>>
    BY <1>0, <1>2 DEF consume
  <2> QED BY <1>0, <2>1 DEF RunnerInv, RunnerTypeOK, Watched, Told, Followed
<1>3. CASE ~Deaf /\ task.process = Model
  <2>0. emitted' = Append(emitted, line) /\ run.settled = "no" /\ ~run.failed /\ emitted' \in Seq(Lines)
    BY <1>0, <1>3 DEF consume, Deaf, RunnerTypeOK
  <2>1. CASE onLine(collector, line) = {}
    <3>1. run' = settleError(run) /\ collector' = collector
      BY <1>0, <1>3, <2>1 DEF consume
    <3>2. run' \in Watch /\ run'.closed = run.closed /\ run'.failed
          /\ IF run.closed THEN run'.settled = "rejected" ELSE run'.settled = "no" /\ run'.closeTimer
      BY <1>0, <2>0, <3>1, Settles DEF RunnerTypeOK
    <3>3. RunnerTypeOK' /\ Watched' /\ Told'
      BY <1>0, <2>0, <3>1, <3>2 DEF RunnerTypeOK, Watched, Told
    <3> QED BY <1>0, <1>3, <3>2, <3>3 DEF RunnerInv, Followed
  <2>2. CASE onLine(collector, line) # {}
    <3>1. run' = run /\ collector' \in onLine(collector, line)
      BY <1>0, <1>3, <2>2 DEF consume
    <3>2. Heard(collector, emitted) /\ collector \in Collector /\ emitted \in Seq(Lines)
      BY <1>0, <2>0 DEF Followed, RunnerTypeOK
    <3>3. collector' \in Collector /\ Heard(collector', emitted')
      BY <2>0, <3>1, <3>2, HeardOn
    <3>4. RunnerTypeOK' /\ Watched'
      BY <1>0, <2>0, <3>1, <3>3 DEF RunnerTypeOK, Watched
    <3>5. Told'
      BY <1>0, <2>0, <3>1 DEF Told
    <3> QED BY <1>0, <1>3, <3>3, <3>4, <3>5 DEF RunnerInv, Followed
  <2> QED BY <2>1, <2>2
<1> QED BY <1>1, <1>2, <1>3

(* An error, from whichever side it comes.                                 *)
LEMMA FailsStep ==
  ASSUME RunnerInv, run' = settleError(run), UNCHANGED <<task, child, collector, emitted>>,
         machine' \in Machine, machine'.directory = machine.directory
  PROVE  RunnerInv'
<1>0. RunnerTypeOK /\ Watched /\ Told /\ Followed
  BY DEF RunnerInv
<1>1. run' \in Watch /\ run'.closed = run.closed
      /\ (run.settled # "no" \/ run.failed => run' = run)
      /\ (run.settled = "no" /\ ~run.failed => /\ run'.failed
                                             /\ IF run.closed THEN run'.settled = "rejected" ELSE run'.settled = "no" /\ run'.closeTimer)
  BY <1>0, Settles DEF RunnerTypeOK
<1>2. RunnerTypeOK' /\ Watched'
  BY <1>0, <1>1 DEF RunnerTypeOK, Watched
<1>3. Told'
  BY <1>0, <1>1 DEF Told, Watched
<1>4. Followed'
  BY <1>0, <1>1 DEF Followed
<1> QED BY <1>2, <1>3, <1>4 DEF RunnerInv

LEMMA ClosesStep ==
  ASSUME RunnerInv, NEW code \in {0, 1}, NEW line \in Lines \cup {""}, Closes(code, line)
  PROVE  RunnerInv'
<1> DEFINE r == [run EXCEPT !.closed = TRUE]
           heard == IF line = "" \/ task.process # Model THEN {collector} ELSE onLine(collector, line)
           well == code = 0 /\ ~child.broken
<1>0. /\ RunnerTypeOK /\ Watched /\ Told /\ Followed /\ child.alive /\ child' = [child EXCEPT !.alive = FALSE, !.code = code]
      /\ UNCHANGED <<task, machine>> /\ (line # "" => task.process = Model)
      /\ emitted' = IF line = "" \/ Deaf THEN emitted ELSE Append(emitted, line)
  BY DEF RunnerInv, Closes
<1>1. /\ child' \in Child /\ ~child'.alive /\ child'.code = code /\ child'.broken = child.broken
      /\ r \in Watch /\ r.closed /\ r.settled = run.settled /\ r.failed = run.failed /\ r.closeTimer = run.closeTimer
      /\ emitted' \in Seq(Lines) /\ (task.process # Model => emitted' = emitted)
  <2>1. child' \in Child /\ ~child'.alive /\ child'.code = code /\ child'.broken = child.broken
    BY <1>0 DEF RunnerTypeOK, Child
  <2>2. r \in Watch /\ r.closed /\ r.settled = run.settled /\ r.failed = run.failed /\ r.closeTimer = run.closeTimer
    BY <1>0 DEF RunnerTypeOK, Watch
  <2>3. emitted' \in Seq(Lines) /\ (task.process # Model => emitted' = emitted)
    <3>1. emitted \in Seq(Lines) /\ (line # "" => line \in Lines)
      BY <1>0 DEF RunnerTypeOK
    <3>2. CASE line = "" \/ Deaf
      BY <1>0, <3>1, <3>2
    <3>3. CASE line # "" /\ ~Deaf
      <4>1. emitted' = Append(emitted, line) /\ line \in Lines
        BY <1>0, <3>1, <3>3
      <4>2. emitted' \in Seq(Lines)
        BY <3>1, <4>1, AppendProperties
      <4>3. task.process = Model
        BY <1>0, <3>3
      <4> QED BY <4>2, <4>3
    <3> QED BY <3>2, <3>3
  <2> QED BY <2>1, <2>2, <2>3
<1> HIDE DEF r
<1>2. CASE run.settled # "no"
  <2>1. run' = r /\ collector' = collector /\ emitted' = emitted
    BY <1>0, <1>2 DEF Closes, Deaf, r
  <2> QED BY <1>0, <1>1, <1>2, <2>1 DEF RunnerInv, RunnerTypeOK, Watched, Told, Followed
<1>3. CASE run.settled = "no" /\ run.failed
  <2>1. run' = finishFailure(r) /\ collector' = collector /\ emitted' = emitted
    BY <1>0, <1>3 DEF Closes, Deaf, r
  <2>2. run' \in Watch /\ run'.settled = "rejected" /\ run'.closed /\ ~run'.closeTimer
    BY <1>1, <2>1, Finishes
  <2> QED BY <1>0, <1>1, <1>3, <2>1, <2>2 DEF RunnerInv, RunnerTypeOK, Watched, Told, Followed
<1>4. CASE ~Deaf /\ well /\ heard # {}
  <2>1. run' = [r EXCEPT !.settled = "resolved", !.timer = FALSE] /\ collector' \in heard
    BY <1>0, <1>4 DEF Closes, Deaf, r
  <2>2. run' \in Watch /\ run'.settled = "resolved" /\ run'.closed /\ ~run'.failed /\ run.settled = "no" /\ ~run.failed
        /\ run'.closeTimer = run.closeTimer
    BY <1>1, <1>4, <2>1 DEF Watch, Deaf
  <2>3. collector' \in Collector /\ Heard(collector', emitted') /\ (task.process # Model => collector' = collector)
    <3>1. Heard(collector, emitted) /\ collector \in Collector /\ emitted \in Seq(Lines)
      BY <1>0, <2>2 DEF Followed, RunnerTypeOK
    <3>2. CASE line = "" \/ task.process # Model
      BY <1>0, <2>1, <3>1, <3>2
    <3>3. CASE line # "" /\ task.process = Model
      <4>1. line \in Lines /\ collector' \in onLine(collector, line) /\ emitted' = Append(emitted, line)
        BY <1>0, <1>4, <2>1, <3>3
      <4> QED BY <3>1, <3>3, <4>1, HeardOn
    <3> QED BY <3>2, <3>3
  <2>4. RunnerTypeOK' /\ Watched'
    BY <1>0, <1>1, <1>4, <2>2, <2>3 DEF RunnerTypeOK, Watched
  <2>5. Told'
    BY <1>0, <1>1, <2>2 DEF Told
  <2>6. Followed'
    BY <1>0, <1>1, <2>3 DEF Followed
  <2> QED BY <2>4, <2>5, <2>6 DEF RunnerInv
<1>5. CASE ~Deaf /\ ~(well /\ heard # {})
  <2>1. run' = settleError(r) /\ collector' = collector /\ run.settled = "no" /\ ~run.failed
    BY <1>0, <1>5 DEF Closes, Deaf, r
  <2>2. run' \in Watch /\ run'.settled = "rejected" /\ run'.closed /\ run'.failed /\ ~run'.closeTimer
    BY <1>1, <2>1, Settles
  <2> QED BY <1>0, <1>1, <2>1, <2>2 DEF RunnerInv, RunnerTypeOK, Watched, Told, Followed
<1> QED BY <1>2, <1>3, <1>4, <1>5 DEF Deaf

(* A process is started, the next of the task, or the task has failed.     *)
LEMMA SpawnStep ==
  ASSUME RunnerInv, NEW n \in 1..Model, task.at \in {"new", "running"}, run.settled = "resolved", Spawn(n),
         UNCHANGED <<collector, emitted>>, task.process # Model, machine' \in Machine
  PROVE  RunnerInv'
<1>0. RunnerTypeOK /\ Watched /\ Told /\ Followed /\ Model \in Nat /\ collector = NewCollector /\ emitted = <<>>
      /\ Heard(collector, emitted) /\ ~child.alive /\ run.closed /\ ~run.failed
  BY ModelRunnerAssumption DEF RunnerInv, Followed, Model, Watched, RunnerTypeOK, Watch, Child
<1>1. CASE task' = [task EXCEPT !.at = "running", !.process = n] /\
           child' = [alive |-> TRUE, code |-> 0, broken |-> FALSE] /\
           run' = [settled |-> "no", failed |-> FALSE, closed |-> FALSE, timer |-> TRUE, closeTimer |-> FALSE]
  <2>1. task' \in Task /\ task'.at = "running" /\ task'.process = n /\ task'.result = task.result
    <3>1. n \in Nat
      BY <1>0
    <3> QED BY <1>0, <1>1, <3>1 DEF RunnerTypeOK, Task
  <2>2. RunnerTypeOK' /\ Watched'
    BY <1>0, <1>1, <2>1 DEF RunnerTypeOK, Watched, Child, Watch
  <2>3. Told'
    BY <1>0, <2>1 DEF Told
  <2>4. Followed'
    BY <1>0, <2>1 DEF Followed
  <2> QED BY <2>2, <2>3, <2>4 DEF RunnerInv
<1>2. CASE Ends("failure", TRUE) /\ UNCHANGED <<child, run>>
  <2>1. task' \in Task /\ task'.at = "cleaning" /\ task'.process = task.process /\ task'.result = "failure"
    BY <1>0, <1>2 DEF RunnerTypeOK, Task, Ends, Watch
  <2> QED BY <1>0, <1>2, <2>1 DEF RunnerInv, RunnerTypeOK, Watched, Told, Followed
<1> QED BY <1>1, <1>2 DEF Spawn

(* The task ends with what came of its last process.                       *)
LEMMA EndsStep ==
  ASSUME RunnerInv, NEW result \in {"failure", "assessment"}, NEW typed \in BOOLEAN, Ends(result, typed), task.at = "running",
         run.settled # "no", UNCHANGED <<child, run, collector, emitted, machine>>,
         result = "assessment" => run.settled = "resolved" /\ task.process = Model /\ collector.completed /\ collector.result
  PROVE  RunnerInv'
<1>0. RunnerTypeOK /\ Watched /\ Told /\ Followed
  BY DEF RunnerInv
<1>1. /\ task' \in Task /\ task'.at = "cleaning" /\ task'.process = task.process /\ task'.result = result
      /\ task'.terminationPending = (run.settled = "rejected" /\ ~run.closed)
  BY <1>0 DEF RunnerTypeOK, Task, Ends, Watch
<1>2. child.alive => task'.terminationPending
  BY <1>0, <1>1 DEF RunnerTypeOK, Watched, Watch
<1> QED BY <1>0, <1>1, <1>2 DEF RunnerInv, RunnerTypeOK, Watched, Told, Followed

LEMMA CleanStep == ASSUME RunnerInv, Clean PROVE RunnerInv'
<1>0. RunnerTypeOK /\ Watched /\ Told /\ Followed /\ task.at = "cleaning" /\ UNCHANGED <<child, run, collector, emitted>>
  BY DEF RunnerInv, Clean
<1>1. /\ task' \in Task /\ task'.at = "over" /\ task'.process = task.process /\ task'.terminationPending = task.terminationPending
      /\ task'.result \in {task.result, "failure"} /\ machine' \in Machine
      /\ machine'.directory => task'.cleanupFailed \/ ~task'.typed
  <2>1. CASE machine' = [machine EXCEPT !.directory = FALSE] /\ task' = [task EXCEPT !.at = "over"]
    BY <1>0, <2>1 DEF RunnerTypeOK, Task, Machine
  <2>2. CASE UNCHANGED machine /\ task' = [task EXCEPT !.at = "over", !.result = "failure", !.cleanupFailed = @ \/ task.typed]
    BY <1>0, <2>2 DEF RunnerTypeOK, Task
  <2> QED BY <2>1, <2>2 DEF Clean
<1> QED BY <1>0, <1>1 DEF RunnerInv, RunnerTypeOK, Watched, Told, Followed

LEMMA RunnerStep == RunnerInv /\ [RunnerNext]_runnerVars => RunnerInv'
<1> SUFFICES ASSUME RunnerInv, [RunnerNext]_runnerVars PROVE RunnerInv'
  OBVIOUS
<1>0. RunnerTypeOK /\ Watched /\ Told /\ Followed /\ Checks \in Nat \ {0} /\ Model = Checks + 1
  BY ModelRunnerAssumption DEF RunnerInv, Model
<1>1. CASE UNCHANGED runnerVars
  BY <1>0, <1>1 DEF runnerVars, RunnerInv, RunnerTypeOK, Watched, Told, Followed
<1>2. CASE PipeBreaks
  <2>1. child' \in Child /\ child'.alive /\ child.alive /\ UNCHANGED <<task, run, collector, emitted, machine>>
    BY <1>0, <1>2 DEF PipeBreaks, RunnerTypeOK, Child
  <2> QED BY <1>0, <2>1 DEF RunnerInv, RunnerTypeOK, Watched, Told, Followed
<1>3. CASE ChildErrs
  BY <1>0, <1>3, FailsStep DEF ChildErrs, Fails, RunnerTypeOK
<1>4. CASE TimesOut
  BY <1>0, <1>4, FailsStep DEF TimesOut, Fails, RunnerTypeOK
<1>5. CASE CloseTimesOut
  <2>1. run' \in Watch /\ run'.settled = "rejected" /\ run'.closed = run.closed /\ ~run'.closeTimer
        /\ UNCHANGED <<task, child, collector, emitted, machine>>
    BY <1>0, <1>5, Finishes DEF CloseTimesOut, RunnerTypeOK
  <2>2. run.settled = "no"
    BY <1>0, <1>5 DEF CloseTimesOut, Watched
  <2> QED BY <1>0, <2>1, <2>2 DEF RunnerInv, RunnerTypeOK, Watched, Told, Followed
<1>6. CASE Abort
  <2>1. machine' \in Machine /\ machine'.directory = machine.directory
    BY <1>0, <1>6 DEF Abort, RunnerTypeOK, Machine
  <2> QED BY <1>0, <1>6, <2>1, FailsStep DEF Abort
<1>7. CASE Expires
  <2>1. machine' \in Machine /\ machine'.directory = machine.directory
    BY <1>0, <1>7 DEF Expires, RunnerTypeOK, Machine
  <2> QED BY <1>0, <1>7, <2>1 DEF Expires, RunnerInv, RunnerTypeOK, Watched, Told, Followed
<1>8. CASE Begin
  <2>1. machine' \in Machine
    BY <1>0, <1>8 DEF Begin, RunnerTypeOK, Machine
  <2>2. 1 \in 1..Model
    BY <1>0
  <2>3. run.settled = "resolved" /\ task.process # Model
    BY <1>0, <1>8 DEF Begin, Told
  <2> QED BY <1>8, <2>1, <2>2, <2>3, SpawnStep DEF Begin
<1>9. CASE Rejected
  BY <1>9, EndsStep DEF Rejected
<1>10. CASE Prepared
  <2>1. task.process \in 0..Model /\ task.process # Model /\ task.process + 1 \in 1..Model /\ machine \in Machine
    BY <1>0, <1>10 DEF Prepared, Followed, RunnerTypeOK
  <2>2. CASE Spawn(task.process + 1) /\ UNCHANGED <<collector, emitted, machine>>
    BY <1>10, <2>1, <2>2, SpawnStep DEF Prepared
  <2>3. CASE Ends("failure", TRUE) /\ UNCHANGED <<child, run, collector, emitted, machine>>
    BY <1>10, <2>3, EndsStep DEF Prepared
  <2>4. CASE Ends("failure", FALSE) /\ UNCHANGED <<child, run, collector, emitted, machine>>
    BY <1>10, <2>4, EndsStep DEF Prepared
  <2> QED BY <1>10, <2>2, <2>3, <2>4 DEF Prepared
<1>11. CASE Concluded
  BY <1>11, EndsStep DEF Concluded
<1>12. CASE Clean
  BY <1>12, CleanStep
<1> QED BY <1>1, <1>2, <1>3, <1>4, <1>5, <1>6, <1>7, <1>8, <1>9, <1>10, <1>11, <1>12, WritesStep, ClosesStep
        DEF RunnerNext, Process

(* The task, its process and the collector agree at every event.           *)
THEOREM RunnerInvariant == RunnerSpec => []RunnerInv
  BY RunnerStarts, RunnerStep, PTL DEF RunnerSpec

LEMMA OneTurnFollows == RunnerInv => OneTurnOnly
<1> SUFFICES ASSUME RunnerInv, task.result = "assessment" PROVE OneTurnOnly
  BY DEF OneTurnOnly
<1>1. ~child.alive /\ child.code = 0 /\ ~child.broken /\ collector.completed /\ collector.result /\ Heard(collector, emitted)
  BY DEF RunnerInv, Told, Watched, Followed
<1>2. PICK a \in 0..Len(emitted), m \in 0..Len(emitted), z \in 0..Len(emitted) : Places(collector, emitted, a, m, z)
  BY <1>1 DEF Heard
<1>3. DOMAIN emitted = 1..Len(emitted) /\ Len(emitted) \in Nat
  BY DEF RunnerInv, RunnerTypeOK
<1>4. a \in DOMAIN emitted /\ m \in DOMAIN emitted /\ z \in DOMAIN emitted /\ a < m /\ m < z
  BY <1>1, <1>2, <1>3 DEF Places
<1> QED BY <1>1, <1>2, <1>4 DEF OneTurnOnly, Places, Said

(* An assessment comes from one whole turn, in whatever order the lines of *)
(* the model, its end, the timers and the abort come.                      *)
THEOREM OneTurnOnlyHolds == RunnerSpec => []OneTurnOnly
  BY OneTurnFollows, RunnerInvariant, PTL

LEMMA UnsaidFollows == RunnerInv => NothingLeftUnsaid
BY DEF RunnerInv, Watched, Told, NothingLeftUnsaid

(* No wait is without a timer, and what is left behind is told.            *)
THEOREM NothingLeftUnsaidHolds == RunnerSpec => []NothingLeftUnsaid
  BY UnsaidFollows, RunnerInvariant, PTL

(***************************************************************************)
(* The three scenes together, as they are checked.                         *)
(***************************************************************************)
SceneInv == /\ AgentInv /\ RunnerInv
            /\ scene = "script" => WatchInv
            /\ scene # "script" => NoWatch

LEMMA IdleWatch == NoWatch => OncePerJob
<1> SUFFICES ASSUME NoWatch PROVE OncePerJob
  OBVIOUS
<1>1. runner.seen = {} /\ runner.turns = 0 /\ net.main.stage = "none" /\ answered = <<>> /\ reported = {}
  BY DEF NoWatch, Off, Quiet
<1>2. Cardinality(runner.seen) = 0
  BY <1>1, FS_EmptySet
<1>3. IsInjective(answered)
  BY <1>1 DEF IsInjective
<1> QED BY <1>1, <1>2, <1>3 DEF OncePerJob

LEMMA SceneStep == SceneInv /\ [MCNext]_<<vars, watchVars, runnerVars, scene>> => SceneInv'
<1> SUFFICES ASSUME SceneInv, [MCNext]_<<vars, watchVars, runnerVars, scene>> PROVE SceneInv'
  OBVIOUS
<1>1. scene' = scene
  BY DEF MCNext
<1>2. [RunnerNext]_runnerVars
  BY DEF MCNext
<1>3. RunnerInv'
  BY <1>2, RunnerStep DEF SceneInv
<1>4. CASE scene = "script"
  <2>1. [WatchNext]_<<vars, watchVars>>
    BY <1>4 DEF MCNext
  <2>2. WatchInv'
    BY <1>4, <2>1, WatchStep DEF SceneInv
  <2> QED BY <1>1, <1>3, <1>4, <2>2 DEF SceneInv, WatchInv
<1>5. CASE scene # "script"
  <2>1. [Next]_vars /\ UNCHANGED watchVars
    BY <1>5 DEF MCNext, SceneInv
  <2>2. AgentInv'
    BY <2>1, AgentStep DEF SceneInv
  <2>3. NoWatch'
    BY <1>5, <2>1 DEF SceneInv, NoWatch, watchVars
  <2> QED BY <1>1, <1>3, <1>5, <2>2, <2>3 DEF SceneInv
<1> QED BY <1>4, <1>5

LEMMA SceneStarts == Scenes => SceneInv
<1> SUFFICES ASSUME Scenes PROVE SceneInv
  OBVIOUS
<1>1. RunnerInv
  BY RunnerStarts DEF Scenes
<1>2. CASE scene = "script"
  BY <1>1, <1>2, WatchStarts DEF Scenes, SceneInv, WatchInv
<1>3. CASE scene # "script"
  BY <1>1, <1>3, AgentStarts DEF Scenes, SceneInv
<1> QED BY <1>2, <1>3

(* Whoever runs the delegation: coverage ends with silence, somebody is    *)
(* due, a job is paid for and answered once, an assessment is one turn of  *)
(* the model, and nothing that is left behind is left unsaid.              *)
THEOREM DelegationHolds ==
  MCSpec => [](SilenceEndsCoverage /\ SomebodyIsDue /\ OncePerJob /\ OneTurnOnly /\ NothingLeftUnsaid)
<1>1. SceneInv => SilenceEndsCoverage /\ SomebodyIsDue /\ OneTurnOnly /\ NothingLeftUnsaid /\ OncePerJob
  BY CoverageFollows, DueFollows, OneTurnFollows, UnsaidFollows, OnceFollows, IdleWatch DEF SceneInv
<1>2. MCSpec => []SceneInv
  BY SceneStarts, SceneStep, PTL DEF MCSpec
<1> QED BY <1>1, <1>2, PTL
=============================================================================
