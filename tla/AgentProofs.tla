----------------------------- MODULE AgentProofs -----------------------------
(***************************************************************************)
(* Proofs about automated assistance on a journey, for every number of     *)
(* executors and every budget: the durable runs (AgentHarness), the paid   *)
(* request of one of them (PaidRequest), and the evidence that request and *)
(* its answer are made from (AgentEvidence).                               *)
(***************************************************************************)
EXTENDS AgentHarness, PaidRequest, AgentPlan, FiniteSetTheorems, SequenceTheorems, TLAPS

(***************************************************************************)
(* The runs.  What makes the promises of AgentHarness inductive is Inv:    *)
(* who is buying for which run, and what the run has noted of it.          *)
(***************************************************************************)
Tools == {"context", "check-in", "follow-up"}
Contexts == Nat \X BOOLEAN
Run == [status : {"queued", "running", "ended"}, revision : Nat, attempts : Nat, leased : BOOLEAN,
        steps : Seq(Tools), read : {Unread} \cup Contexts,
        paid : {"none", "reserved", "completed", "failed", "discarded"}, source : {"rules", "local", "paid"}]
Demo == [status : {"none", "pending", "cancelled", "consumed"}, revision : Nat, read : {Unread} \cup Contexts]
Room == [open : BOOLEAN, monitored : BOOLEAN, consent : BOOLEAN, help : BOOLEAN, revision : Nat, evidence : Nat,
         runs : UNION {[D -> Run] : D \in SUBSET Nat}, made : Nat, requests : Nat, demo : Demo]

(* A run that was ended has nothing left of what it did.                   *)
Spent(run) == run.status = "ended" /\ run.steps = <<>> /\ run.source = "rules"
RunOK(run) == run \in Run /\ IsInjective(run.steps) /\ (pendingRun(run) \/ Spent(run))
RoomOK(r) == r \in Room /\ DOMAIN r.runs \subseteq 1..r.made /\ \A i \in DOMAIN r.runs : RunOK(r.runs[i])

(* What may become of a run under way, and of a journey's runs: they end   *)
(* for good, none comes back, and what was bought or read stays so.        *)
GoesOn(a, b) ==
  pendingRun(b) => /\ pendingRun(a)
                   /\ a.paid # "none" => b.paid # "none"
                   /\ Contains(a.steps, "context") => Contains(b.steps, "context") /\ b.read = a.read
Follows(r, s) == /\ s.made >= r.made
                 /\ \A i \in DOMAIN s.runs : i <= r.made => i \in DOMAIN r.runs /\ GoesOn(r.runs[i], s.runs[i])
(* Nothing was done in it either.                                          *)
Idles(r, s) == \A i \in DOMAIN r.runs \cap DOMAIN s.runs :
                 pendingRun(s.runs[i]) => s.runs[i].steps = r.runs[i].steps /\ s.runs[i].source = r.runs[i].source

LEMMA FollowsTrans ==
  ASSUME NEW r, NEW s, NEW t, RoomOK(r), RoomOK(s), RoomOK(t), Follows(r, s), Follows(s, t)
  PROVE  Follows(r, t) /\ (Idles(r, s) /\ Idles(s, t) => Idles(r, t))
<1>1. r.made \in Nat /\ s.made \in Nat /\ t.made \in Nat /\ DOMAIN r.runs \subseteq 1..r.made /\ DOMAIN t.runs \subseteq Nat
  BY DEF RoomOK, Room
<1>2. ASSUME NEW i \in DOMAIN t.runs, i <= r.made
      PROVE  i \in DOMAIN s.runs /\ i \in DOMAIN r.runs /\ GoesOn(r.runs[i], s.runs[i]) /\ GoesOn(s.runs[i], t.runs[i])
  BY <1>1, <1>2 DEF Follows
<1>3. Follows(r, t)
  BY <1>1, <1>2 DEF Follows, GoesOn
<1>4. ASSUME Idles(r, s), Idles(s, t), NEW i \in DOMAIN r.runs \cap DOMAIN t.runs, pendingRun(t.runs[i])
      PROVE  t.runs[i].steps = r.runs[i].steps /\ t.runs[i].source = r.runs[i].source
  <2>1. i <= r.made
    BY <1>1
  <2> QED BY <2>1, <1>2, <1>4 DEF Idles, GoesOn
<1> QED BY <1>3, <1>4 DEF Idles

LEMMA FollowsSelf == ASSUME NEW r, RoomOK(r) PROVE Follows(r, r) /\ Idles(r, r)
  BY DEF RoomOK, Room, Follows, Idles, GoesOn

LEMMA EndedOK == ASSUME NEW r, RoomOK(r) PROVE RunOK(ended(r)) /\ RunOK(NewRun(r)) /\ ~pendingRun(ended(r)) /\ pendingRun(NewRun(r))
<1>1. r.revision \in Nat
  BY DEF RoomOK, Room
<1>2. NewRun(r) \in Run
  <2>1. <<>> \in Seq(Tools)
    OBVIOUS
  <2> QED BY <1>1, <2>1 DEF NewRun, Run
<1>5. ended(r) \in Run
  BY <1>2 DEF ended, Run
<1>3. /\ NewRun(r).status = "queued" /\ NewRun(r).steps = <<>>
      /\ ended(r).status = "ended" /\ ended(r).steps = <<>> /\ ended(r).source = "rules"
  BY DEF ended, NewRun
<1>4. IsInjective(<<>>)
  BY DEF IsInjective
<1> QED BY <1>2, <1>3, <1>4, <1>5 DEF RunOK, Spent, pendingRun

(* One run is put in place of another.                                     *)
LEMMA Replace ==
  ASSUME NEW r, RoomOK(r), NEW i \in DOMAIN r.runs, NEW b, RunOK(b), GoesOn(r.runs[i], b)
  PROVE  LET s == [r EXCEPT !.runs[i] = b]
         IN /\ RoomOK(s) /\ Follows(r, s) /\ s.requests = r.requests /\ DOMAIN s.runs = DOMAIN r.runs
            /\ s.runs[i] = b /\ s.made = r.made
            /\ \A f \in {"open", "monitored", "consent", "help", "revision", "evidence", "demo"} : s[f] = r[f]
            /\ (pendingRun(b) => b.steps = r.runs[i].steps /\ b.source = r.runs[i].source) => Idles(r, s)
<1> DEFINE s == [r EXCEPT !.runs[i] = b]
<1>0. PICK D \in SUBSET Nat : r.runs \in [D -> Run]
  BY DEF RoomOK, Room
<1>1. s.runs \in [D -> Run] /\ DOMAIN r.runs = D
  BY <1>0 DEF RoomOK, Room, RunOK
<1>2. s \in Room
  BY <1>0, <1>1 DEF RoomOK, Room
<1>3. /\ s.runs = [r.runs EXCEPT ![i] = b] /\ s.made = r.made /\ s.requests = r.requests
      /\ \A f \in {"open", "monitored", "consent", "help", "revision", "evidence", "demo"} : s[f] = r[f]
  BY DEF RoomOK, Room
<1>4. RoomOK(s)
  BY <1>0, <1>1, <1>2, <1>3 DEF RoomOK
<1>5. Follows(r, s)
  BY <1>0, <1>3 DEF Follows, GoesOn, RoomOK, Room
<1> QED BY <1>0, <1>3, <1>4, <1>5 DEF Idles

LEMMA SaveOK ==
  ASSUME NEW r, RoomOK(r)
  PROVE  /\ RoomOK(save(r)) /\ Follows(r, save(r)) /\ Idles(r, save(r)) /\ save(r).requests = r.requests
         /\ \A f \in {"open", "monitored", "consent", "help", "revision", "evidence", "made"} : save(r)[f] = r[f]
         /\ DOMAIN save(r).runs = {i \in DOMAIN r.runs : i + MaxRetained > r.made}
         /\ \A i \in DOMAIN save(r).runs :
              pendingRun(save(r).runs[i]) =>
                save(r).runs[i] = r.runs[i] /\ r.open /\ r.monitored /\ r.runs[i].revision = r.revision
<1> DEFINE s == syncCodexDemo(r)
           stays == {i \in DOMAIN s.runs : i + MaxRetained > s.made}
           runs == [i \in stays |-> IF pendingRun(s.runs[i]) /\ superseded(s, s.runs[i]) THEN ended(s) ELSE s.runs[i]]
<1>1. /\ s.runs = r.runs /\ s \in Room
      /\ \A f \in {"open", "monitored", "consent", "help", "revision", "evidence", "made", "requests"} : s[f] = r[f]
  BY DEF syncCodexDemo, RoomOK, Room, Demo
<1>2. RoomOK(s)
  BY <1>1 DEF RoomOK
<1>3. save(r) = [s EXCEPT !.runs = runs]
  BY DEF save
<1>4. /\ save(r).runs = runs
      /\ \A f \in {"open", "monitored", "consent", "help", "revision", "evidence", "made", "requests", "demo"} : save(r)[f] = s[f]
  BY <1>1, <1>3 DEF Room
<1>5. DOMAIN runs = stays /\ stays = {i \in DOMAIN r.runs : i + MaxRetained > r.made} /\ stays \subseteq Nat
  BY <1>1, <1>2 DEF RoomOK, Room
<1>6. \A i \in stays : RunOK(runs[i]) /\ runs[i] \in Run
  BY <1>1, <1>2, EndedOK DEF RoomOK, RunOK
<1>7. runs \in UNION {[D -> Run] : D \in SUBSET Nat}
  <2>1. runs \in [stays -> Run]
    BY <1>6
  <2> QED BY <2>1, <1>5
<1>8. save(r) \in Room
  BY <1>1, <1>3, <1>7 DEF Room
<1>9. RoomOK(save(r))
  BY <1>1, <1>2, <1>4, <1>5, <1>6, <1>8 DEF RoomOK
<1>10. \A i \in stays : pendingRun(runs[i]) => /\ runs[i] = r.runs[i] /\ r.open /\ r.monitored
                                              /\ r.runs[i].revision = r.revision
  BY <1>1, <1>2, EndedOK DEF superseded
<1>11. Follows(r, save(r))
  BY <1>1, <1>4, <1>5, <1>10 DEF Follows, GoesOn, RoomOK, Room
<1>12. Idles(r, save(r))
  BY <1>4, <1>5, <1>10 DEF Idles
<1> QED BY <1>1, <1>4, <1>5, <1>9, <1>10, <1>11, <1>12

(* What happens to a journey besides its runs.                             *)
LEMMA SameRuns ==
  ASSUME NEW r, RoomOK(r), NEW s \in Room, s.runs = r.runs, s.made = r.made
  PROVE  RoomOK(s) /\ Follows(r, s) /\ Idles(r, s)
  BY DEF RoomOK, Room, Follows, Idles, GoesOn

LEMMA AddRunOK ==
  ASSUME NEW r, RoomOK(r), NEW run, RunOK(run)
  PROVE  LET s == addRun(r, run)
         IN /\ RoomOK(s) /\ Follows(r, s) /\ Idles(r, s) /\ s.requests = r.requests /\ s.made = r.made + 1
            /\ \A f \in {"open", "monitored", "consent", "help", "revision", "evidence", "demo"} : s[f] = r[f]
<1> DEFINE s == addRun(r, run)
           runs == [i \in DOMAIN r.runs \cup {r.made + 1} |-> IF i \in DOMAIN r.runs THEN r.runs[i] ELSE run]
<1>0. /\ DOMAIN r.runs \subseteq 1..r.made /\ r.made \in Nat /\ r \in Room
      /\ \A i \in DOMAIN r.runs : RunOK(r.runs[i])
  BY DEF RoomOK, Room
<1>1. /\ s = [r EXCEPT !.made = @ + 1, !.runs = runs] /\ s.runs = runs /\ s.made = r.made + 1 /\ s.requests = r.requests
      /\ \A f \in {"open", "monitored", "consent", "help", "revision", "evidence", "demo"} : s[f] = r[f]
  BY <1>0 DEF addRun, Room
<1>2. DOMAIN runs \subseteq 1..(r.made + 1) /\ DOMAIN runs \subseteq Nat /\ \A i \in DOMAIN runs : RunOK(runs[i])
  BY <1>0
<1>3. runs \in UNION {[D -> Run] : D \in SUBSET Nat}
  <2>1. runs \in [DOMAIN runs -> Run]
    BY <1>2 DEF RunOK
  <2> HIDE DEF runs
  <2> QED BY <2>1, <1>2
<1>4. s \in Room
  <2>1. r.made + 1 \in Nat /\ s = [r EXCEPT !.made = r.made + 1, !.runs = runs]
    BY <1>0, <1>1
  <2> HIDE DEF runs, s
  <2> QED BY <1>0, <1>3, <2>1 DEF Room
<1>5. RoomOK(s)
  BY <1>1, <1>2, <1>4 DEF RoomOK
<1>6. \A i \in DOMAIN r.runs : runs[i] = r.runs[i]
  BY <1>0
<1>7. \A i \in DOMAIN runs : i <= r.made => i \in DOMAIN r.runs
  BY <1>0
<1>8. Follows(r, s) /\ Idles(r, s)
  <2> HIDE DEF runs
  <2> QED BY <1>0, <1>1, <1>6, <1>7 DEF Follows, Idles, GoesOn
<1> QED BY <1>1, <1>5, <1>8

LEMMA QueueOK ==
  ASSUME NEW r, RoomOK(r)
  PROVE  RoomOK(queueAgent(r)) /\ Follows(r, queueAgent(r)) /\ Idles(r, queueAgent(r)) /\ queueAgent(r).requests = r.requests
  BY EndedOK, AddRunOK, FollowsSelf DEF queueAgent

(* A run is ended, for which another one may be queued.                    *)
LEMMA EndOK ==
  ASSUME NEW r, RoomOK(r), NEW i \in DOMAIN r.runs
  PROVE  LET s == [r EXCEPT !.runs[i] = ended(r)]
         IN RoomOK(s) /\ Follows(r, s) /\ Idles(r, s) /\ s.requests = r.requests
<1>1. RunOK(ended(r)) /\ ~pendingRun(ended(r))
  BY EndedOK
<1>2. GoesOn(r.runs[i], ended(r))
  BY <1>1 DEF GoesOn
<1> QED BY <1>1, <1>2, Replace

Becomes(r, s) == RoomOK(s) /\ Follows(r, s) /\ s.requests = r.requests
LEMMA SavedOK ==
  ASSUME NEW r, RoomOK(r), NEW s, Becomes(r, s)
  PROVE  Becomes(r, save(s)) /\ (Idles(r, s) => Idles(r, save(s)))
  BY SaveOK, FollowsTrans DEF Becomes

LEMMA RefreshOK ==
  ASSUME NEW r, RoomOK(r), NEW i \in DOMAIN r.runs
  PROVE  Becomes(r, refresh(r, i)) /\ Idles(r, refresh(r, i))
<1> DEFINE c == [r EXCEPT !.runs[i] = ended(r)]
<1>1. Becomes(r, c) /\ Idles(r, c)
  BY EndOK DEF Becomes
<1>2. Becomes(r, queueAgent(c)) /\ Idles(r, queueAgent(c))
  <2> HIDE DEF c
  <2> QED BY <1>1, QueueOK, FollowsTrans DEF Becomes
<1> QED BY <1>1, <1>2, SavedOK DEF refresh

LEMMA ReleasedOK ==
  ASSUME NEW r, RoomOK(r), NEW i \in DOMAIN r.runs, pendingRun(r.runs[i])
  PROVE  Becomes(r, released(r, i)) /\ Idles(r, released(r, i))
<1> DEFINE b == IF r.runs[i].attempts >= MaxAttempts THEN ended(r) ELSE [r.runs[i] EXCEPT !.status = "queued", !.leased = FALSE]
<1>0. RunOK(r.runs[i])
  BY DEF RoomOK
<1>1. released(r, i) = [r EXCEPT !.runs[i] = b]
  BY DEF released, RoomOK, Room
<1>2. CASE r.runs[i].attempts >= MaxAttempts
  BY <1>1, <1>2, EndOK DEF Becomes
<1>3. CASE ~(r.runs[i].attempts >= MaxAttempts)
  <2> DEFINE q == [r.runs[i] EXCEPT !.status = "queued", !.leased = FALSE]
  <2>1. /\ q \in Run /\ q.steps = r.runs[i].steps /\ q.source = r.runs[i].source /\ q.paid = r.runs[i].paid
        /\ q.read = r.runs[i].read /\ q.status = "queued"
    BY <1>0 DEF RunOK, Run
  <2>2. RunOK(q) /\ GoesOn(r.runs[i], q)
    BY <2>1, <1>0 DEF RunOK, GoesOn, pendingRun
  <2>3. released(r, i) = [r EXCEPT !.runs[i] = q]
    BY <1>1, <1>3
  <2> HIDE DEF q
  <2> QED BY <2>1, <2>2, <2>3, Replace DEF Becomes
<1> QED BY <1>2, <1>3

LEMMA EffectOK ==
  ASSUME NEW r, RoomOK(r), NEW i \in DOMAIN r.runs, pendingRun(r.runs[i]), NEW tool \in Tools, ~Contains(r.runs[i].steps, tool)
  PROVE  Becomes(r, effect(r, i, tool))
<1> DEFINE run == r.runs[i]
           b == [run EXCEPT !.steps = Append(@, tool), !.read = IF tool = "context" THEN context(r) ELSE @]
<1>0. RunOK(run) /\ run.steps \in Seq(Tools) /\ r.help \in BOOLEAN /\ r.evidence \in Nat
  BY DEF RoomOK, RunOK, Run, Room
<1>1. effect(r, i, tool) = [r EXCEPT !.runs[i] = b]
  BY DEF effect, RoomOK, Room
<1>2. context(r) \in Contexts
  BY <1>0 DEF context, Contexts
<1>3. Append(run.steps, tool) \in Seq(Tools) /\ IsInjective(Append(run.steps, tool))
      /\ (Contains(run.steps, "context") => Contains(Append(run.steps, tool), "context"))
  BY <1>0 DEF RunOK, IsInjective, Contains
<1>4. /\ b \in Run /\ b.steps = Append(run.steps, tool) /\ b.status = run.status /\ b.paid = run.paid
      /\ b.read = IF tool = "context" THEN context(r) ELSE run.read
  <2>1. run \in Run
    BY <1>0 DEF RunOK
  <2> HIDE DEF run
  <2> QED BY <2>1, <1>2, <1>3 DEF Run
<1>5. RunOK(b)
  BY <1>0, <1>3, <1>4 DEF RunOK, pendingRun
<1>6. GoesOn(run, b)
  BY <1>3, <1>4 DEF GoesOn, pendingRun
<1> HIDE DEF b
<1> QED BY <1>1, <1>5, <1>6, Replace DEF Becomes

LEMMA ClaimOK ==
  ASSUME NEW r, RoomOK(r), NEW i \in DOMAIN r.runs, pendingRun(r.runs[i])
  PROVE  LET s == [r EXCEPT !.runs[i] = claim(@)]
         IN Becomes(r, s) /\ Idles(r, s) /\ s.made = r.made /\ i \in DOMAIN s.runs
<1> DEFINE run == r.runs[i]
           b == claim(run)
<1>0. RunOK(run) /\ run \in Run
  BY DEF RoomOK, RunOK
<1>1. [r EXCEPT !.runs[i] = claim(@)] = [r EXCEPT !.runs[i] = b]
  BY DEF RoomOK, Room
<1>2. /\ b \in Run /\ b.steps = run.steps /\ b.status = "running" /\ b.source = run.source
      /\ b.read = run.read /\ (run.paid # "none" => b.paid # "none")
  <2> DEFINE p == IF run.paid = "reserved" THEN "failed" ELSE run.paid
  <2>1. p \in {"none", "completed", "failed", "discarded"} /\ (run.paid # "none" => p # "none") /\ run.attempts + 1 \in Nat
    BY <1>0 DEF Run
  <2>2. b = [run EXCEPT !.status = "running", !.attempts = run.attempts + 1, !.leased = TRUE, !.paid = p]
    BY DEF claim
  <2> HIDE DEF run, p, b
  <2> QED BY <1>0, <2>1, <2>2 DEF Run
<1>3. RunOK(b) /\ GoesOn(run, b)
  BY <1>0, <1>2 DEF RunOK, GoesOn, pendingRun
<1> HIDE DEF b
<1> QED BY <1>1, <1>2, <1>3, Replace DEF Becomes

Marked(r, i, p) == [r EXCEPT !.runs[i].paid = p]
LEMMA PaidOK ==
  ASSUME NEW r, RoomOK(r), NEW i \in DOMAIN r.runs, pendingRun(r.runs[i]),
         NEW p \in {"reserved", "completed", "failed", "discarded"}
  PROVE  LET s == Marked(r, i, p)
         IN /\ Becomes(r, s) /\ Idles(r, s) /\ s.made = r.made /\ i \in DOMAIN s.runs
            /\ s.runs[i].paid = p /\ s.runs[i].read = r.runs[i].read /\ s.runs[i].steps = r.runs[i].steps
<1> DEFINE run == r.runs[i]
           b == [run EXCEPT !.paid = p]
<1>0. RunOK(run) /\ run \in Run
  BY DEF RoomOK, RunOK
<1>1. Marked(r, i, p) = [r EXCEPT !.runs[i] = b]
  BY DEF Marked, RoomOK, Room
<1>2. /\ b \in Run /\ b.steps = run.steps /\ b.status = run.status /\ b.source = run.source
      /\ b.read = run.read /\ b.paid = p
  <2> HIDE DEF run
  <2> QED BY <1>0 DEF Run
<1>3. RunOK(b) /\ GoesOn(run, b)
  BY <1>0, <1>2 DEF RunOK, GoesOn, pendingRun
<1> HIDE DEF b
<1> QED BY <1>1, <1>2, <1>3, Replace DEF Becomes

LEMMA ReserveOK ==
  ASSUME NEW r, RoomOK(r), NEW i \in DOMAIN r.runs, pendingRun(r.runs[i])
  PROVE  LET s == [r EXCEPT !.runs[i].paid = "reserved", !.requests = @ + 1]
         IN /\ RoomOK(s) /\ Follows(r, s) /\ Idles(r, s) /\ s.requests = r.requests + 1
            /\ s.runs[i].paid = "reserved" /\ s.runs[i].read = r.runs[i].read /\ s.runs[i].steps = r.runs[i].steps
<1> DEFINE q == Marked(r, i, "reserved")
           s == [r EXCEPT !.runs[i].paid = "reserved", !.requests = @ + 1]
<1>1. /\ Becomes(r, q) /\ Idles(r, q) /\ q.made = r.made
      /\ q.runs[i].paid = "reserved" /\ q.runs[i].read = r.runs[i].read /\ q.runs[i].steps = r.runs[i].steps
  BY PaidOK
<1>2. s = [q EXCEPT !.requests = r.requests + 1]
  BY DEF Marked, RoomOK, Room
<1>3. s \in Room /\ s.runs = q.runs /\ s.made = q.made /\ s.requests = r.requests + 1
  <2>1. q \in Room /\ r.requests + 1 \in Nat
    BY <1>1 DEF Becomes, RoomOK, Room
  <2> HIDE DEF q, s
  <2> QED BY <1>2, <2>1 DEF Room
<1> HIDE DEF q, s
<1>4. RoomOK(s) /\ Follows(q, s) /\ Idles(q, s)
  BY <1>1, <1>3, SameRuns DEF Becomes
<1>5. Follows(r, s) /\ Idles(r, s)
  BY <1>1, <1>4, FollowsTrans DEF Becomes
<1> QED BY <1>1, <1>3, <1>4, <1>5 DEF s

LEMMA AdoptOK ==
  ASSUME NEW r, RoomOK(r), NEW w, NEW ok \in BOOLEAN
  PROVE  /\ Becomes(r, adopt(r, w, ok))
         /\ (ok /\ current(r, w)) \/ Idles(r, adopt(r, w, ok))
<1> DEFINE i == w.run
           run == r.runs[i]
           p == IF ~current(r, w) THEN "discarded" ELSE IF ok THEN "completed" ELSE "failed"
           b == [run EXCEPT !.paid = p, !.source = IF ok /\ current(r, w) THEN "paid" ELSE @]
<1>1. CASE i \notin DOMAIN r.runs \/ ~pendingRun(run)
  <2>1. adopt(r, w, ok) = r
    BY <1>1 DEF adopt
  <2> QED BY <2>1, FollowsSelf DEF Becomes
<1>2. CASE i \in DOMAIN r.runs /\ pendingRun(run)
  <2>0. RunOK(run) /\ run \in Run
    BY <1>2 DEF RoomOK, RunOK
  <2>1. adopt(r, w, ok) = [r EXCEPT !.runs[i] = b]
    <3>1. adopt(r, w, ok) = [r EXCEPT !.runs[i].paid = p, !.runs[i].source = IF ok /\ current(r, w) THEN "paid" ELSE @]
      BY <1>2 DEF adopt
    <3> HIDE DEF p
    <3> QED BY <3>1, <1>2, <2>0 DEF RoomOK, Room, Run
  <2>2. p \in {"completed", "failed", "discarded"}
    OBVIOUS
  <2>3. /\ b \in Run /\ b.steps = run.steps /\ b.status = run.status /\ b.read = run.read /\ b.paid = p
        /\ b.source = IF ok /\ current(r, w) THEN "paid" ELSE run.source
    <3> HIDE DEF run, p
    <3> QED BY <2>0, <2>2 DEF Run
  <2>4. RunOK(b) /\ GoesOn(run, b)
    <3> HIDE DEF p, b
    <3> QED BY <2>0, <2>2, <2>3, <1>2 DEF RunOK, GoesOn, pendingRun
  <2> HIDE DEF b, p
  <2> QED BY <1>2, <2>1, <2>3, <2>4, Replace DEF Becomes
<1> QED BY <1>1, <1>2

-----------------------------------------------------------------------------
(***************************************************************************)
(* What an executor waits for, and who is buying for which run.            *)
(***************************************************************************)
Buys == {"reserving", "calling", "unpaid"}
Work == {Idle} \cup [at : {"turn"}, run : Nat, attempt : Nat]
               \cup [at : {"turn", "deciding"}, run : Nat, attempt : Nat, decision : Tools \cup {"complete"}]
               \cup [at : Buys, run : Nat, attempt : Nat, seen : Contexts]
Under(r, i) == i \in DOMAIN r.runs /\ pendingRun(r.runs[i])
Reserving == {e \in Executors : exec[e].at = "reserving"}

TypeOK == /\ RoomOK(room) /\ room.requests <= MaxRequests
          /\ exec \in [Executors -> Work] /\ \A e \in Executors : exec[e] # Idle => exec[e].run \in 1..room.made
          /\ calls \in Seq(Nat) /\ \A k \in DOMAIN calls : calls[k] \in 1..room.made
          /\ ledger \in Nat /\ Len(calls) <= ledger /\ ledger <= MaxCalls
(* What is bought for a run is noted on it, and rests on the context it    *)
(* has read.                                                               *)
Bought == \A e \in Executors : exec[e].at \in Buys /\ Under(room, exec[e].run) =>
            LET run == room.runs[exec[e].run]
            IN run.paid # "none" /\ Contains(run.steps, "context") /\ run.read \in {Unread, exec[e].seen}
Alone == \A e, f \in Executors :
           e # f /\ exec[e].at \in Buys /\ exec[f].at \in Buys /\ exec[e].run = exec[f].run => ~Under(room, exec[e].run)
Unsold == \A k \in DOMAIN calls : Under(room, calls[k]) => room.runs[calls[k]].paid # "none"
NotYet == \A e \in Reserving : Under(room, exec[e].run) => \A k \in DOMAIN calls : calls[k] # exec[e].run
Counted == Len(calls) + Cardinality(Reserving) <= room.requests
Inv == TypeOK /\ Bought /\ Alone /\ Unsold /\ NotYet /\ IsInjective(calls) /\ Counted

LEMMA NextDecisionOK == ASSUME NEW run PROVE nextDecision(run) \in Tools \cup {"complete"}
<1> DEFINE left == {k \in DOMAIN plan : ~Contains(run.steps, plan[k])}
<1>1. left \subseteq {1, 2, 3}
  BY DEF plan
<1>2. ASSUME left # {}
      PROVE  Min(left) \in {1, 2, 3}
  <2>1. \E x \in left : \A y \in left : x <= y
    <3> HIDE DEF left
    <3>1. CASE 1 \in left
      BY <1>1, <3>1
    <3>2. CASE 1 \notin left /\ 2 \in left
      BY <1>1, <3>2
    <3>3. CASE 1 \notin left /\ 2 \notin left
      <4>1. left = {3}
        BY <1>1, <1>2, <3>3
      <4> QED BY <4>1
    <3> QED BY <3>1, <3>2, <3>3
  <2> HIDE DEF left
  <2> QED BY <1>1, <2>1 DEF Min
<1>3. \A k \in {1, 2, 3} : plan[k] \in Tools
  BY DEF plan, Tools
<1> HIDE DEF left
<1>4. nextDecision(run) = IF left = {} THEN "complete" ELSE plan[Min(left)]
  BY DEF nextDecision, left
<1> QED BY <1>2, <1>3, <1>4

(* A turn of the loop does nothing in the run; it may reserve a request.   *)
Orders(e, r, w) ==
  /\ Under(r, w.run) /\ r.runs[w.run].paid = "none"
  /\ r.requests < MaxRequests /\ room'.requests = r.requests + 1
  /\ exec' = [exec EXCEPT ![e] = [at |-> "reserving", run |-> w.run, attempt |-> w.attempt, seen |-> context(r)]]
  /\ Under(room', w.run) => LET run == room'.runs[w.run]
                            IN run.paid # "none" /\ Contains(run.steps, "context") /\ run.read \in {Unread, context(r)}
Moves(e, w) == \E v \in Work : /\ v.at \notin Buys /\ (v = Idle \/ v.run = w.run)
                               /\ exec' = [exec EXCEPT ![e] = v]

LEMMA TurnOK ==
  ASSUME NEW r, RoomOK(r), NEW e \in Executors, NEW w \in Work, w.at \in {"turn", "deciding"}, TurnFrom(e, w, r)
  PROVE  /\ RoomOK(room') /\ Follows(r, room') /\ Idles(r, room')
         /\ Orders(e, r, w) \/ (room'.requests = r.requests /\ Moves(e, w))
<1> DEFINE i == w.run
<1>0. /\ r.requests \in Nat /\ w.run \in Nat /\ w.attempt \in Nat /\ Idle \in Work /\ Idle.at \notin Buys
      /\ context(r) \in Contexts
  BY DEF RoomOK, Room, Work, Idle, Buys, context, Contexts
<1>1. CASE ~Owns(r, w)
  <2>1. room' = r /\ exec' = [exec EXCEPT ![e] = Idle]
    BY <1>1 DEF TurnFrom, Waits
  <2> QED BY <2>1, <1>0, FollowsSelf DEF Moves
<1>2. CASE Owns(r, w) /\ stale(r, r.runs[i])
  <2>1. room' = refresh(r, i) /\ exec' = [exec EXCEPT ![e] = Idle] /\ i \in DOMAIN r.runs
    BY <1>2 DEF TurnFrom, Waits, Owns
  <2> QED BY <2>1, <1>0, RefreshOK DEF Moves, Becomes
<1> DEFINE run == r.runs[i]
<1>3. CASE Owns(r, w) /\ ~stale(r, run) /\ mayPay(r, run) /\ r.requests < MaxRequests
  <2> DEFINE s == [r EXCEPT !.runs[i].paid = "reserved", !.requests = @ + 1]
  <2>1. i \in DOMAIN r.runs /\ pendingRun(run) /\ run.paid = "none" /\ Contains(run.steps, "context")
    <3>1. i \in DOMAIN r.runs /\ pendingRun(run) /\ run.paid = "none" /\ run.steps = <<"context">>
      BY <1>3 DEF Owns, mayPay, pendingRun
    <3> QED BY <3>1 DEF Contains
  <2>2. /\ room' = save([r EXCEPT !.runs[i].paid = "reserved", !.requests = @ + 1])
        /\ exec' = [exec EXCEPT ![e] = [at |-> "reserving", run |-> w.run, attempt |-> w.attempt, seen |-> context(r)]]
    BY <1>3 DEF TurnFrom, Waits
  <2>7. /\ RoomOK(s) /\ Follows(r, s) /\ Idles(r, s) /\ s.requests = r.requests + 1
        /\ s.runs[i].paid = "reserved" /\ s.runs[i].read = run.read /\ s.runs[i].steps = run.steps
    BY <2>1, ReserveOK
  <2>8. room' = save(s)
    BY <2>2
  <2>9. RoomOK(room') /\ Follows(r, room') /\ Idles(r, room') /\ room'.requests = s.requests
    <3> HIDE DEF s
    <3> QED BY <2>7, <2>8, SaveOK, FollowsTrans
  <2>10. Under(room', i) => room'.runs[i] = s.runs[i]
    <3> HIDE DEF s
    <3> QED BY <2>7, <2>8, SaveOK DEF Under
  <2>11. run.read \in {Unread, context(r)}
    BY <1>3 DEF stale
  <2> HIDE DEF s
  <2> QED BY <1>3, <2>1, <2>2, <2>7, <2>9, <2>10, <2>11 DEF Orders, Under
<1>4. CASE Owns(r, w) /\ ~stale(r, run) /\ mayPay(r, run) /\ ~(r.requests < MaxRequests)
  <2>1. i \in DOMAIN r.runs /\ pendingRun(run)
    BY <1>4 DEF Owns, pendingRun
  <2>2. room' = save([r EXCEPT !.runs[i].paid = "failed"]) /\ exec' = [exec EXCEPT ![e] = [w EXCEPT !.at = "turn"]]
    BY <1>4 DEF TurnFrom, Waits
  <2>3. Becomes(r, room') /\ Idles(r, room')
    <3>1. room' = save(Marked(r, i, "failed"))
      BY <2>2 DEF Marked
    <3> QED BY <2>1, <3>1, PaidOK, SavedOK
  <2>4. [w EXCEPT !.at = "turn"] \in Work /\ [w EXCEPT !.at = "turn"].at = "turn" /\ [w EXCEPT !.at = "turn"].run = w.run
    BY DEF Work, Idle, Buys
  <2> QED BY <2>2, <2>3, <2>4 DEF Moves, Becomes, Buys
<1>5. CASE Owns(r, w) /\ ~stale(r, run) /\ ~mayPay(r, run)
  <2> DEFINE v == [at |-> "deciding", run |-> w.run, attempt |-> w.attempt, decision |-> nextDecision(run)]
  <2>1. room' = r /\ exec' = [exec EXCEPT ![e] = v]
    BY <1>5 DEF TurnFrom, Waits
  <2>2. v \in Work
    BY <1>0, NextDecisionOK DEF Work
  <2> QED BY <2>1, <2>2, FollowsSelf DEF Moves, Buys
<1> QED BY <1>1, <1>2, <1>3, <1>4, <1>5

-----------------------------------------------------------------------------
(***************************************************************************)
(* The invariant, by what a step does to the executors and the budgets.    *)
(***************************************************************************)
LEMMA Onward ==
  ASSUME NEW r, NEW s, Follows(r, s), NEW i, i <= r.made, Under(s, i)
  PROVE  Under(r, i) /\ GoesOn(r.runs[i], s.runs[i])
  BY DEF Follows, Under, GoesOn

(* Nothing is ordered or called: what was being bought still is, or less.  *)
Buyer(v, w) == v.run = w.run /\ w.at \in Buys /\ v.seen = w.seen /\ (v.at = "reserving" => w.at = "reserving")
LEMMA NothingBought ==
  ASSUME Inv, RoomOK(room'), Follows(room, room'), room'.requests = room.requests, calls' = calls,
         ledger' \in Nat, ledger <= ledger', ledger' <= MaxCalls, exec' \in [Executors -> Work],
         \A e \in Executors : \/ exec'[e].at \notin Buys /\ (exec'[e] = Idle \/ exec'[e].run \in 1..room'.made)
                              \/ exec'[e] # Idle /\ exec[e] # Idle /\ Buyer(exec'[e], exec[e])
                              \/ exec'[e] = exec[e]
  PROVE  Inv'
<1>0. /\ room.made \in Nat /\ room'.made \in Nat /\ room.made <= room'.made /\ MaxCalls \in Nat /\ IsFiniteSet(Executors)
      /\ Idle.at \notin Buys /\ calls \in Seq(Nat) /\ room.requests \in Nat /\ MaxRequests \in Nat
  BY AgentAssumption DEF Inv, TypeOK, RoomOK, Room, Follows, Idle, Buys
<1>1. \A e \in Executors : exec'[e].at \in Buys => exec[e] # Idle /\ Buyer(exec'[e], exec[e]) /\ exec[e].run \in 1..room.made
  BY <1>0 DEF Inv, TypeOK, Buyer
<1>2. \A i \in 1..room.made : Under(room', i) => Under(room, i) /\ GoesOn(room.runs[i], room'.runs[i])
  BY <1>0, Onward
<1>3. TypeOK'
  <2>1. \A e \in Executors : exec'[e] # Idle => exec'[e].run \in 1..room'.made
    BY <1>0, <1>1 DEF Inv, TypeOK, Buyer
  <2>2. \A k \in DOMAIN calls : calls[k] \in 1..room'.made
    BY <1>0 DEF Inv, TypeOK
  <2> QED BY <1>0, <2>1, <2>2 DEF Inv, TypeOK
<1>4. Bought'
  <2> SUFFICES ASSUME NEW e \in Executors, exec'[e].at \in Buys, Under(room', exec'[e].run)
               PROVE  LET run == room'.runs[exec'[e].run]
                      IN run.paid # "none" /\ Contains(run.steps, "context") /\ run.read \in {Unread, exec'[e].seen}
    BY DEF Bought
  <2>1. exec[e].at \in Buys /\ exec'[e].run = exec[e].run /\ exec'[e].seen = exec[e].seen /\ exec[e].run \in 1..room.made
    BY <1>1 DEF Buyer
  <2>2. Under(room, exec[e].run) /\ GoesOn(room.runs[exec[e].run], room'.runs[exec[e].run])
    BY <1>2, <2>1
  <2> QED BY <2>1, <2>2 DEF Inv, Bought, GoesOn, Under
<1>5. Alone'
  BY <1>1, <1>2 DEF Inv, Alone, Buyer
<1>6. Unsold'
  BY <1>0, <1>2 DEF Inv, TypeOK, Unsold, GoesOn, Under
<1>7. Reserving' \subseteq Reserving
  BY <1>0, <1>1 DEF Reserving, Buyer, Buys
<1>8. NotYet'
  BY <1>1, <1>2, <1>7 DEF Inv, NotYet, Reserving, Buyer, Buys
<1>9. Counted'
  <2>1. IsFiniteSet(Reserving) /\ IsFiniteSet(Reserving')
    BY <1>0, FS_Subset DEF Reserving
  <2>2. Cardinality(Reserving') <= Cardinality(Reserving) /\ Cardinality(Reserving) \in Nat /\ Cardinality(Reserving') \in Nat
    BY <1>7, <2>1, FS_Subset, FS_CardinalityType
  <2>3. Len(calls) \in Nat
    BY <1>0
  <2> QED BY <1>0, <2>2, <2>3 DEF Inv, Counted
<1> QED BY <1>3, <1>4, <1>5, <1>6, <1>8, <1>9 DEF Inv

(* A request is reserved for a run for which none ever was.                *)
LEMMA OneOrdered ==
  ASSUME Inv, NEW e \in Executors, NEW r, RoomOK(r), Follows(room, r), r.requests = room.requests,
         exec[e] # Idle, exec[e].at \notin Buys, NEW w \in Work, w # Idle, w.run = exec[e].run, Orders(e, r, w),
         RoomOK(room'), Follows(r, room'), calls' = calls, ledger' = ledger
  PROVE  Inv'
<1> DEFINE i == w.run
           v == [at |-> "reserving", run |-> i, attempt |-> w.attempt, seen |-> context(r)]
<1>0. /\ room.made \in Nat /\ r.made \in Nat /\ room'.made \in Nat /\ MaxRequests \in Nat /\ IsFiniteSet(Executors)
      /\ calls \in Seq(Nat) /\ room.requests \in Nat /\ RoomOK(room)
  BY AgentAssumption DEF Inv, TypeOK, RoomOK, Room
<1>1. Follows(room, room') /\ room.made <= room'.made /\ i \in 1..room.made
  BY <1>0, FollowsTrans DEF Inv, TypeOK, Follows
<1>2. exec' = [exec EXCEPT ![e] = v] /\ v \in Work /\ exec'[e] = v /\ \A f \in Executors \ {e} : exec'[f] = exec[f]
  <2>1. w.run \in Nat /\ w.attempt \in Nat
    BY DEF Work
  <2>2. context(r) \in Contexts
    BY DEF context, Contexts, RoomOK, Room
  <2>3. v \in Work
    BY <2>1, <2>2 DEF Work, Buys
  <2> QED BY <2>3 DEF Orders, Inv, TypeOK
<1>3. \A j \in 1..room.made : Under(room', j) => Under(room, j) /\ GoesOn(room.runs[j], room'.runs[j])
  BY <1>0, <1>1, Onward
<1>4. Under(room, i) /\ room.runs[i].paid = "none"
  <2>1. Under(r, i) /\ r.runs[i].paid = "none"
    BY DEF Orders
  <2> QED BY <2>1, <1>0, <1>1, Onward DEF GoesOn, Under
<1>5. /\ \A f \in Executors \ {e} : exec[f].at \in Buys => exec[f].run # i
      /\ \A k \in DOMAIN calls : calls[k] # i
  BY <1>4 DEF Inv, Bought, Unsold
<1>6. TypeOK'
  <2>1. \A f \in Executors : exec'[f] # Idle => exec'[f].run \in 1..room'.made
    BY <1>0, <1>1, <1>2 DEF Inv, TypeOK
  <2>2. \A k \in DOMAIN calls : calls[k] \in 1..room'.made
    BY <1>0, <1>1 DEF Inv, TypeOK
  <2>3. room'.requests <= MaxRequests
    BY <1>0 DEF Orders
  <2> QED BY <1>0, <1>2, <2>1, <2>2, <2>3 DEF Inv, TypeOK
<1>7. Bought'
  <2> SUFFICES ASSUME NEW f \in Executors, exec'[f].at \in Buys, Under(room', exec'[f].run)
               PROVE  LET run == room'.runs[exec'[f].run]
                      IN run.paid # "none" /\ Contains(run.steps, "context") /\ run.read \in {Unread, exec'[f].seen}
    BY DEF Bought
  <2>1. CASE f = e
    BY <2>1, <1>2 DEF Orders
  <2>2. CASE f # e
    <3>1. exec'[f] = exec[f] /\ exec[f] # Idle /\ exec[f].run \in 1..room.made
      BY <2>2, <1>2 DEF Inv, TypeOK, Idle, Buys
    <3>2. Under(room, exec[f].run) /\ GoesOn(room.runs[exec[f].run], room'.runs[exec[f].run])
      BY <1>3, <3>1
    <3> QED BY <3>1, <3>2 DEF Inv, Bought, GoesOn, Under
  <2> QED BY <2>1, <2>2
<1>8. Alone'
  <2> SUFFICES ASSUME NEW f \in Executors, NEW g \in Executors, f # g, exec'[f].at \in Buys, exec'[g].at \in Buys,
                      exec'[f].run = exec'[g].run, Under(room', exec'[f].run)
               PROVE  FALSE
    BY DEF Alone
  <2>1. f # e /\ g # e
    BY <1>2, <1>5
  <2>2. exec'[f] = exec[f] /\ exec'[g] = exec[g] /\ exec[f] # Idle /\ exec[f].run \in 1..room.made
    BY <1>2, <2>1 DEF Inv, TypeOK, Idle, Buys
  <2> QED BY <1>3, <2>2 DEF Inv, Alone
<1>9. Unsold'
  BY <1>0, <1>3 DEF Inv, TypeOK, Unsold, GoesOn, Under
<1>10. NotYet'
  <2> SUFFICES ASSUME NEW f \in Reserving', Under(room', exec'[f].run), NEW k \in DOMAIN calls
               PROVE  calls[k] # exec'[f].run
    BY DEF NotYet
  <2>1. CASE f = e
    BY <2>1, <1>2, <1>5
  <2>2. CASE f # e
    <3>1. f \in Reserving /\ exec'[f] = exec[f] /\ exec[f] # Idle /\ exec[f].run \in 1..room.made
      BY <2>2, <1>2 DEF Inv, TypeOK, Idle, Reserving
    <3> QED BY <1>3, <3>1 DEF Inv, NotYet
  <2> QED BY <2>1, <2>2
<1>11. Counted'
  <2>1. Reserving' = Reserving \cup {e} /\ e \notin Reserving
    BY <1>2 DEF Reserving, Buys
  <2>2. IsFiniteSet(Reserving) /\ Cardinality(Reserving) \in Nat
    BY <1>0, FS_Subset, FS_CardinalityType DEF Reserving
  <2>3. Cardinality(Reserving') = Cardinality(Reserving) + 1
    BY <2>1, <2>2, FS_AddElement
  <2> QED BY <1>0, <2>2, <2>3 DEF Inv, Counted, Orders
<1> QED BY <1>6, <1>7, <1>8, <1>9, <1>10, <1>11 DEF Inv

(* A reserved request leaves, for a run that is still under way.           *)
LEMMA OneCalled ==
  ASSUME Inv, NEW e \in Executors, exec[e].at = "reserving", exec' = [exec EXCEPT ![e] = [exec[e] EXCEPT !.at = "calling"]],
         Under(room, exec[e].run), RoomOK(room'), Follows(room, room'), room'.requests = room.requests,
         calls' = Append(calls, exec[e].run), ledger < MaxCalls, ledger' = ledger + 1
  PROVE  Inv'
<1> DEFINE w == exec[e]
           i == w.run
           v == [w EXCEPT !.at = "calling"]
<1>0. /\ room.made \in Nat /\ room'.made \in Nat /\ room.made <= room'.made /\ MaxCalls \in Nat /\ IsFiniteSet(Executors)
      /\ calls \in Seq(Nat) /\ room.requests \in Nat /\ RoomOK(room) /\ i \in 1..room.made /\ ledger \in Nat
  BY AgentAssumption DEF Inv, TypeOK, RoomOK, Room, Follows, Idle
<1>1. \A j \in 1..room.made : Under(room', j) => Under(room, j) /\ GoesOn(room.runs[j], room'.runs[j])
  BY <1>0, Onward
<1>2. /\ v \in Work /\ v.run = i /\ v.seen = w.seen /\ v.at = "calling" /\ exec'[e] = v
      /\ \A f \in Executors \ {e} : exec'[f] = exec[f]
  <2>1. w \in Work /\ w.at = "reserving"
    BY DEF Inv, TypeOK
  <2>2. v \in Work /\ v.run = i /\ v.seen = w.seen /\ v.at = "calling"
    <3> HIDE DEF w
    <3> QED BY <2>1 DEF Work, Buys, Idle
  <2> QED BY <2>2 DEF Inv, TypeOK
<1>3. \A f \in Executors : /\ (exec'[f].at \in Buys <=> exec[f].at \in Buys) /\ exec'[f].run = exec[f].run
                           /\ (exec'[f].at \in Buys => exec'[f].seen = exec[f].seen /\ exec[f] # Idle /\ exec[f].run \in 1..room.made)
  BY <1>0, <1>2 DEF Buys, Inv, TypeOK, Idle
<1>4. \A k \in DOMAIN calls : calls[k] # i
  BY DEF Inv, NotYet, Reserving
<1>5. /\ calls' \in Seq(Nat) /\ Len(calls') = Len(calls) + 1 /\ IsInjective(calls') /\ Len(calls) \in Nat
      /\ \A k \in DOMAIN calls' : (k \in DOMAIN calls /\ calls'[k] = calls[k]) \/ calls'[k] = i
  BY <1>0, <1>4 DEF Inv, IsInjective
<1>6. TypeOK'
  <2>1. \A f \in Executors : exec'[f] # Idle => exec'[f].run \in 1..room'.made
    BY <1>0, <1>2 DEF Inv, TypeOK
  <2>2. \A k \in DOMAIN calls' : calls'[k] \in 1..room'.made
    BY <1>0, <1>5 DEF Inv, TypeOK
  <2>3. exec' \in [Executors -> Work]
    BY <1>2 DEF Inv, TypeOK
  <2> QED BY <1>0, <1>5, <2>1, <2>2, <2>3 DEF Inv, TypeOK
<1>7. Bought'
  BY <1>1, <1>3 DEF Inv, Bought, GoesOn, Under
<1>8. Alone'
  BY <1>1, <1>3 DEF Inv, Alone
<1>9. Unsold'
  <2> SUFFICES ASSUME NEW k \in DOMAIN calls', Under(room', calls'[k])
               PROVE  room'.runs[calls'[k]].paid # "none"
    BY DEF Unsold
  <2>1. calls'[k] \in 1..room.made
    BY <1>0, <1>5 DEF Inv, TypeOK
  <2>2. room.runs[calls'[k]].paid # "none"
    <3>1. Under(room, calls'[k])
      BY <1>1, <2>1
    <3>2. w.at \in Buys
      BY DEF Buys
    <3>3. room.runs[i].paid # "none"
      BY <3>2 DEF Inv, Bought
    <3> QED BY <1>5, <3>1, <3>3 DEF Inv, Unsold
  <2> QED BY <1>1, <2>1, <2>2 DEF GoesOn, Under
<1>10. Reserving' = Reserving \ {e} /\ e \in Reserving
  BY <1>2 DEF Reserving
<1>11. NotYet'
  <2> SUFFICES ASSUME NEW f \in Reserving', Under(room', exec'[f].run), NEW k \in DOMAIN calls'
               PROVE  calls'[k] # exec'[f].run
    BY DEF NotYet
  <2>1. f \in Reserving /\ f # e /\ exec'[f] = exec[f] /\ exec[f].at \in Buys /\ w.at \in Buys /\ f \in Executors
    BY <1>2, <1>10 DEF Reserving, Buys
  <2>2. Under(room, exec[f].run)
    BY <1>1, <1>3, <2>1
  <2> QED BY <1>5, <2>1, <2>2 DEF Inv, NotYet, Alone
<1>12. Counted'
  <2>1. IsFiniteSet(Reserving) /\ Cardinality(Reserving) \in Nat
    BY <1>0, FS_Subset, FS_CardinalityType DEF Reserving
  <2>2. Cardinality(Reserving') = Cardinality(Reserving) - 1
    BY <1>10, <2>1, FS_RemoveElement
  <2> QED BY <1>0, <1>5, <2>1, <2>2 DEF Inv, Counted
<1> QED BY <1>5, <1>6, <1>7, <1>8, <1>9, <1>11, <1>12 DEF Inv

-----------------------------------------------------------------------------
(***************************************************************************)
(* The actions, one by one.                                                *)
(***************************************************************************)
LEMMA InitInv == Init => Inv
<1> SUFFICES ASSUME Init PROVE Inv
  OBVIOUS
<1> DEFINE r == [open |-> TRUE, monitored |-> TRUE, consent |-> TRUE, help |-> FALSE, revision |-> 0,
                 evidence |-> 0, runs |-> <<>>, made |-> 0, requests |-> 0,
                 demo |-> [status |-> "none", revision |-> 0, read |-> Unread]]
<1>1. r \in Room
  <2>1. <<>> \in UNION {[D -> Run] : D \in SUBSET Nat}
    <3>1. <<>> \in [{} -> Run]
      OBVIOUS
    <3> QED BY <3>1
  <2>2. [status |-> "none", revision |-> 0, read |-> Unread] \in Demo
    BY DEF Demo
  <2> QED BY <2>1, <2>2 DEF Room
<1>2. RoomOK(r)
  BY <1>1 DEF RoomOK
<1>3. room = queueAgent(r)
  BY DEF Init
<1>4. RoomOK(room) /\ room.requests = 0
  <2>1. r.requests = 0
    OBVIOUS
  <2> HIDE DEF r
  <2> QED BY <1>2, <1>3, <2>1, QueueOK
<1>5. /\ exec = [e \in Executors |-> Idle] /\ calls = <<>> /\ ledger = 0 /\ Idle.at = "idle" /\ Idle \in Work
      /\ MaxRequests \in Nat /\ MaxCalls \in Nat /\ MaxRequests >= 0 /\ MaxCalls >= 0
  BY AgentAssumption DEF Init, Idle, Work
<1>6. TypeOK
  BY <1>4, <1>5 DEF TypeOK
<1>7. Reserving = {} /\ \A e \in Executors : exec[e].at \notin Buys
  BY <1>5 DEF Reserving, Buys
<1>8. Counted
  BY <1>4, <1>5, <1>7, FS_EmptySet DEF Counted
<1>9. IsInjective(calls)
  BY <1>5 DEF IsInjective
<1> QED BY <1>5, <1>6, <1>7, <1>8, <1>9 DEF Inv, Bought, Alone, Unsold, NotYet

LEMMA Unmoved == ASSUME Inv, UNCHANGED <<exec, calls>>, Becomes(room, room'), ledger' = ledger PROVE Inv'
<1>1. exec' \in [Executors -> Work] /\ ledger' \in Nat /\ ledger <= ledger' /\ ledger' <= MaxCalls
  BY AgentAssumption DEF Inv, TypeOK
<1> QED BY <1>1, NothingBought DEF Becomes

LEMMA ChangeOK == ASSUME Inv, NEW r, Becomes(room, r), Change(r) PROVE Inv'
<1>1. RoomOK(room)
  BY DEF Inv, TypeOK
<1>2. Becomes(room, room')
  BY <1>1, SavedOK DEF Change
<1> QED BY <1>2, Unmoved DEF Change

LEMMA ActedOK ==
  ASSUME Inv, NEW r \in Room, r.runs = room.runs, r.made = room.made, r.requests = room.requests
  PROVE  Becomes(room, r) /\ Becomes(room, queueAgent(r))
<1>1. RoomOK(room)
  BY DEF Inv, TypeOK
<1>2. Becomes(room, r)
  BY <1>1, SameRuns DEF Becomes
<1> QED BY <1>1, <1>2, QueueOK, FollowsTrans DEF Becomes

LEMMA PeopleOK == ASSUME Inv, People PROVE Inv'
<1>0. RoomOK(room) /\ room \in Room /\ acted \in Room /\ Becomes(room, room)
      /\ acted.runs = room.runs /\ acted.made = room.made /\ acted.requests = room.requests
      /\ acted.demo = room.demo /\ acted.open = room.open /\ acted.evidence = room.evidence /\ acted.help = room.help
  <2>1. RoomOK(room) /\ room \in Room
    BY DEF Inv, TypeOK, RoomOK
  <2> QED BY <2>1, FollowsSelf DEF acted, Room, Becomes
<1>1. ASSUME NEW b \in BOOLEAN, PostMessage(b)
      PROVE  Inv'
  <2> DEFINE q == [acted EXCEPT !.evidence = IF b THEN @ + 1 ELSE @]
  <2>1. q \in Room /\ q.runs = room.runs /\ q.made = room.made /\ q.requests = room.requests
    BY <1>0 DEF Room
  <2>2. Change(queueAgent(q))
    BY <1>1 DEF PostMessage
  <2> HIDE DEF q
  <2> QED BY <2>1, <2>2, ActedOK, ChangeOK
<1>2. CASE CheckIn
  BY <1>0, <1>2, ActedOK, ChangeOK DEF CheckIn
<1>3. CASE Help
  <2> DEFINE q == [acted EXCEPT !.help = TRUE]
  <2>1. q \in Room /\ q.runs = room.runs /\ q.made = room.made /\ q.requests = room.requests
    BY <1>0 DEF Room
  <2>2. Change(q)
    BY <1>3 DEF Help
  <2> HIDE DEF q
  <2> QED BY <2>1, <2>2, ActedOK, ChangeOK
<1>4. CASE Resume
  <2> DEFINE q == [acted EXCEPT !.monitored = FALSE]
  <2>1. q \in Room /\ q.runs = room.runs /\ q.made = room.made /\ q.requests = room.requests
    BY <1>0 DEF Room
  <2>2. Change(q)
    BY <1>4 DEF Resume
  <2> HIDE DEF q
  <2> QED BY <2>1, <2>2, ActedOK, ChangeOK
<1>5. CASE Takeover
  <2> DEFINE q == [acted EXCEPT !.monitored = TRUE]
  <2>1. q \in Room /\ q.runs = room.runs /\ q.made = room.made /\ q.requests = room.requests
    BY <1>0 DEF Room
  <2>2. Change(queueAgent(q))
    BY <1>5 DEF Takeover
  <2> HIDE DEF q
  <2> QED BY <2>1, <2>2, ActedOK, ChangeOK
<1>6. CASE SetAssistance
  <2> DEFINE q == [acted EXCEPT !.consent = ~@]
  <2>1. q \in Room /\ q.runs = room.runs /\ q.made = room.made /\ q.requests = room.requests
    BY <1>0 DEF Room
  <2>2. Change(q)
    BY <1>6 DEF SetAssistance
  <2> HIDE DEF q
  <2> QED BY <2>1, <2>2, ActedOK, ChangeOK
<1>7. CASE Close
  <2> DEFINE q == [acted EXCEPT !.open = FALSE]
  <2>1. q \in Room /\ q.runs = room.runs /\ q.made = room.made /\ q.requests = room.requests
    BY <1>0 DEF Room
  <2>2. Change(q)
    BY <1>7 DEF Close
  <2> HIDE DEF q
  <2> QED BY <2>1, <2>2, ActedOK, ChangeOK
<1>8. CASE FollowUp
  BY <1>0, <1>8, ActedOK, ChangeOK DEF FollowUp
<1>9. CASE EvidenceChanges
  <2> DEFINE q == [room EXCEPT !.evidence = @ + 1]
  <2>1. q \in Room /\ q.runs = room.runs /\ q.made = room.made /\ q.requests = room.requests
    BY <1>0 DEF Room
  <2>2. room' = q /\ UNCHANGED <<ledger, exec, calls>>
    BY <1>9 DEF EvidenceChanges
  <2> HIDE DEF q
  <2> QED BY <2>1, <2>2, ActedOK, Unmoved
<1>10. CASE exportCodexDemo
  <2> DEFINE d == [status |-> "pending", revision |-> acted.revision, read |-> context(acted)]
             q == [acted EXCEPT !.demo = d]
  <2>1. d \in Demo
    BY <1>0 DEF Demo, context, Contexts, Room
  <2>2. q \in Room /\ q.runs = room.runs /\ q.made = room.made /\ q.requests = room.requests
    <3> HIDE DEF d
    <3> QED BY <1>0, <2>1 DEF Room
  <2>3. Change(q)
    BY <1>10 DEF exportCodexDemo
  <2> HIDE DEF q
  <2> QED BY <2>2, <2>3, ActedOK, ChangeOK
<1>11. CASE cancelCodexDemo
  <2> DEFINE q == [acted EXCEPT !.demo.status = "cancelled"]
  <2>1. q \in Room /\ q.runs = room.runs /\ q.made = room.made /\ q.requests = room.requests
    BY <1>0 DEF Room, Demo
  <2>2. Change(q)
    BY <1>11 DEF cancelCodexDemo
  <2> HIDE DEF q
  <2> QED BY <2>1, <2>2, ActedOK, ChangeOK
<1>12. CASE importCodexDemo
  <2> DEFINE run == [NewRun(acted) EXCEPT !.source = "local", !.steps = <<"context">>, !.read = context(acted)]
             s == addRun(acted, run)
             q == [s EXCEPT !.demo.status = "consumed", !.demo.revision = acted.revision]
  <2>1. Becomes(room, acted)
    BY <1>0, ActedOK
  <2>2. RunOK(run)
    <3>1. NewRun(acted) \in Run /\ NewRun(acted).status = "queued"
      BY <2>1, EndedOK DEF RunOK, Becomes, NewRun
    <3>2. <<"context">> \in Seq(Tools) /\ context(acted) \in Contexts /\ IsInjective(<<"context">>)
      BY <1>0 DEF Tools, context, Contexts, Room, IsInjective
    <3>3. run \in Run /\ run.status = "queued" /\ run.steps = <<"context">>
      BY <3>1, <3>2 DEF Run
    <3> QED BY <3>2, <3>3 DEF RunOK, pendingRun
  <2>3. Becomes(acted, s)
    <3> HIDE DEF run
    <3> QED BY <2>1, <2>2, AddRunOK DEF Becomes
  <2>4. Becomes(room, s)
    <3> HIDE DEF s
    <3> QED BY <1>0, <2>1, <2>3, FollowsTrans DEF Becomes
  <2>5. q \in Room /\ q.runs = s.runs /\ q.made = s.made /\ q.requests = s.requests
    <3>1. s \in Room /\ acted.revision \in Nat
      BY <1>0, <2>3 DEF Becomes, RoomOK, Room
    <3> HIDE DEF s
    <3> QED BY <3>1 DEF Room, Demo
  <2>6. Becomes(room, q)
    <3> HIDE DEF q, s
    <3>1. RoomOK(q) /\ Follows(s, q)
      BY <2>4, <2>5, SameRuns DEF Becomes
    <3> QED BY <1>0, <2>4, <2>5, <3>1, FollowsTrans DEF Becomes
  <2>7. Change(q)
    BY <1>12 DEF importCodexDemo
  <2> HIDE DEF q
  <2> QED BY <2>6, <2>7, ChangeOK
<1> QED BY <1>1, <1>2, <1>3, <1>4, <1>5, <1>6, <1>7, <1>8, <1>9, <1>10, <1>11, <1>12 DEF People

(* What an executor may do to its run: nothing, or what it may on a        *)
(* journey like the one it decided for.                                    *)
Allowed(i) == /\ room.open /\ room.monitored /\ room.runs[i].revision = room.revision
              /\ room.runs[i].read \in {Unread, context(room)}
Lawful(e) == /\ Idles(room, room') \/ Allowed(exec[e].run)
             /\ \A f \in Executors \ {e} : exec'[f] = exec[f]

LEMMA SavedFacts ==
  ASSUME Inv
  PROVE  LET r == save(room)
         IN /\ RoomOK(room) /\ RoomOK(r) /\ Becomes(room, r) /\ Idles(room, r) /\ r.made = room.made /\ context(r) = context(room)
            /\ \A i \in DOMAIN r.runs : pendingRun(r.runs[i]) => /\ r.runs[i] = room.runs[i] /\ room.open /\ room.monitored
                                                                 /\ room.runs[i].revision = room.revision
<1>1. RoomOK(room)
  BY DEF Inv, TypeOK
<1> QED BY <1>1, SaveOK DEF Becomes, context

(* The step ends in an executor that buys nothing.                         *)
LEMMA StepEnds ==
  ASSUME Inv, NEW e \in Executors, Becomes(room, room'), UNCHANGED <<ledger, calls>>,
         NEW v \in Work, v.at \notin Buys, v = Idle \/ v.run \in 1..room'.made, exec' = [exec EXCEPT ![e] = v]
  PROVE  Inv' /\ \A f \in Executors \ {e} : exec'[f] = exec[f]
<1>1. ledger' \in Nat /\ ledger <= ledger' /\ ledger' <= MaxCalls
  BY AgentAssumption DEF Inv, TypeOK
<1>2. exec' \in [Executors -> Work] /\ \A f \in Executors : exec'[f] = exec[f] \/ exec'[f] = v
  BY DEF Inv, TypeOK
<1>3. \A f \in Executors \ {e} : exec'[f] = exec[f]
  BY DEF Inv, TypeOK
<1> QED BY <1>1, <1>2, <1>3, NothingBought DEF Becomes

LEMMA ExecutorAt ==
  ASSUME Inv, NEW e \in Executors, exec[e].at \in Buys \cup {"turn", "deciding"}
  PROVE  /\ exec[e] \in Work /\ exec[e] # Idle /\ exec[e].run \in 1..room.made /\ exec[e].run \in Nat /\ exec[e].attempt \in Nat
         /\ Idle \in Work /\ Idle.at \notin Buys
         /\ exec[e].at = "deciding" => exec[e].decision \in Tools \cup {"complete"}
<1>1. exec[e] # Idle /\ exec[e] \in Work /\ exec[e].run \in 1..room.made /\ Idle.at = "idle"
  BY DEF Inv, TypeOK, Buys, Idle
<1> QED BY <1>1 DEF Work, Buys, Idle

LEMMA TurnStep ==
  ASSUME Inv, NEW e \in Executors, exec[e].at \in {"turn", "deciding"}, NEW r, Becomes(room, r),
         TurnFrom(e, exec[e], r), UNCHANGED <<ledger, calls>>
  PROVE  /\ Inv' /\ \A f \in Executors \ {e} : exec'[f] = exec[f]
         /\ Idles(room, r) => Idles(room, room')
<1> DEFINE w == exec[e]
<1>0. /\ w \in Work /\ w # Idle /\ w.run \in 1..room.made /\ RoomOK(room) /\ RoomOK(r) /\ w.at \notin Buys
      /\ r.made >= room.made /\ r.made \in Nat /\ room.made \in Nat
  BY ExecutorAt DEF Buys, Inv, TypeOK, Becomes, Follows, RoomOK, Room
<1>1. /\ RoomOK(room') /\ Follows(r, room') /\ Idles(r, room')
      /\ Orders(e, r, w) \/ (room'.requests = r.requests /\ Moves(e, w))
  BY <1>0, TurnOK
<1>2. Idles(room, r) => Idles(room, room')
  BY <1>0, <1>1, FollowsTrans DEF Becomes
<1>3. CASE Orders(e, r, w)
  <2>1. Inv'
    BY <1>0, <1>1, <1>3, OneOrdered DEF Becomes
  <2> QED BY <1>2, <1>3, <2>1 DEF Orders, Inv, TypeOK
<1>4. CASE room'.requests = r.requests /\ Moves(e, w)
  <2>1. PICK v \in Work : v.at \notin Buys /\ (v = Idle \/ v.run = w.run) /\ exec' = [exec EXCEPT ![e] = v]
    BY <1>4 DEF Moves
  <2>2. Becomes(room, room')
    BY <1>0, <1>1, <1>4, FollowsTrans DEF Becomes
  <2>3. room'.made >= room.made /\ room'.made \in Nat
    BY <1>0, <2>2 DEF Becomes, Follows, RoomOK, Room
  <2>4. v = Idle \/ v.run \in 1..room'.made
    BY <1>0, <2>1, <2>3
  <2> QED BY <1>2, <2>1, <2>2, <2>4, StepEnds
<1> QED BY <1>1, <1>3, <1>4

LEMMA ClaimStep ==
  ASSUME Inv, NEW e \in Executors, NEW i \in DOMAIN room.runs, NEW tooOld \in BOOLEAN, Claim(e, i, tooOld)
  PROVE  Inv' /\ Lawful(e)
<1> DEFINE r == save(room)
<1>0. /\ RoomOK(room) /\ RoomOK(r) /\ Becomes(room, r) /\ Idles(room, r) /\ r.made = room.made /\ room.made \in Nat
      /\ i \in DOMAIN r.runs /\ pendingRun(r.runs[i]) /\ UNCHANGED <<ledger, calls>> /\ i \in 1..room.made /\ i \in Nat
  BY SavedFacts DEF Claim, Others, RoomOK, Room
<1>1. CASE tooOld \/ r.runs[i].attempts >= MaxAttempts
  <2> DEFINE c == [r EXCEPT !.runs[i] = ended(r)]
  <2>1. room' = save(c) /\ exec' = exec
    BY <1>1 DEF Claim
  <2>2. Becomes(r, c) /\ Idles(r, c)
    BY <1>0, EndOK DEF Becomes
  <2>3. Becomes(r, save(c)) /\ Idles(r, save(c))
    <3> HIDE DEF c, r
    <3> QED BY <1>0, <2>2, SavedOK
  <2>4. Becomes(room, room') /\ Idles(room, room')
    <3> HIDE DEF c, r
    <3> QED BY <1>0, <2>1, <2>3, FollowsTrans DEF Becomes
  <2> QED BY <1>0, <2>1, <2>4, Unmoved DEF Lawful
<1>2. CASE ~(tooOld \/ r.runs[i].attempts >= MaxAttempts)
  <2> DEFINE c == [r EXCEPT !.runs[i] = claim(@)]
             v == [at |-> "turn", run |-> i, attempt |-> room'.runs[i].attempts]
  <2>1. room' = save(c) /\ exec' = [exec EXCEPT ![e] = v]
    BY <1>2 DEF Claim, Waits
  <2>2. Becomes(r, c) /\ Idles(r, c) /\ c.made = r.made /\ i \in DOMAIN c.runs
    <3> HIDE DEF r
    <3> QED BY <1>0, ClaimOK
  <2>3. Becomes(r, save(c)) /\ Idles(r, save(c))
    <3> HIDE DEF c, r
    <3> QED BY <1>0, <2>2, SavedOK
  <2>4. Becomes(room, room') /\ Idles(room, room')
    <3> HIDE DEF c, r
    <3> QED BY <1>0, <2>1, <2>3, FollowsTrans DEF Becomes
  <2>5. i \in DOMAIN room'.runs
    <3>1. i + MaxRetained > room.made
      BY <1>0, SaveOK
    <3>2. RoomOK(c)
      BY <2>2 DEF Becomes
    <3> HIDE DEF c, r
    <3> QED BY <1>0, <2>1, <2>2, <3>1, <3>2, SaveOK
  <2>6. room'.runs[i].attempts \in Nat /\ room'.made \in Nat /\ room.made <= room'.made
    BY <1>0, <2>4, <2>5 DEF Becomes, RoomOK, RunOK, Run, Room, Follows
  <2>7. v \in Work /\ v.at \notin Buys /\ v.run \in 1..room'.made
    BY <1>0, <2>6 DEF Work, Buys
  <2> HIDE DEF v, c, r
  <2> QED BY <1>0, <2>1, <2>4, <2>7, StepEnds DEF Lawful
<1> QED BY <1>1, <1>2

LEMMA ReservedStep == ASSUME Inv, NEW e \in Executors, Reserved(e) PROVE Inv' /\ Lawful(e)
<1> DEFINE r == save(room)
           w == exec[e]
<1>0. /\ RoomOK(room) /\ Becomes(room, r) /\ Idles(room, r) /\ room' = r /\ w.at = "reserving" /\ w.at \in Buys
      /\ ledger' = (IF ledger < MaxCalls THEN ledger + 1 ELSE ledger) /\ ledger \in Nat /\ MaxCalls \in Nat /\ ledger <= MaxCalls
  BY SavedFacts, AgentAssumption DEF Reserved, Buys, Inv, TypeOK
<1>1. w \in Work /\ w # Idle
  BY <1>0, ExecutorAt
<1>2. CASE ledger < MaxCalls /\ current(r, w)
  <2>1. calls' = Append(calls, w.run) /\ exec' = [exec EXCEPT ![e] = [w EXCEPT !.at = "calling"]]
    BY <1>2 DEF Reserved, Waits
  <2>2. Under(r, w.run)
    BY <1>2 DEF current, Owns, Under, pendingRun
  <2>3. Under(room, w.run)
    BY <1>0, <2>2, SavedFacts, Onward, ExecutorAt DEF Becomes, RoomOK, Room
  <2>4. Inv'
    BY <1>0, <1>2, <2>1, <2>3, OneCalled DEF Becomes
  <2> QED BY <1>0, <2>1, <2>4 DEF Lawful, Inv, TypeOK
<1>3. CASE ~(ledger < MaxCalls /\ current(r, w))
  <2> DEFINE v == [w EXCEPT !.at = "unpaid"]
  <2>1. calls' = calls /\ exec' = [exec EXCEPT ![e] = v]
    BY <1>3 DEF Reserved, Waits
  <2>2. v \in Work /\ v.at = "unpaid" /\ v.run = w.run /\ v.seen = w.seen /\ v # Idle
    <3> HIDE DEF w
    <3> QED BY <1>0, <1>1 DEF Work, Buys, Idle
  <2>3. exec' \in [Executors -> Work] /\ exec'[e] = v /\ \A f \in Executors \ {e} : exec'[f] = exec[f]
    <3> HIDE DEF v
    <3> QED BY <2>1, <2>2 DEF Inv, TypeOK
  <2>4. Buyer(v, w)
    <3> HIDE DEF v, w
    <3> QED BY <1>0, <2>2 DEF Buyer
  <2>5. ledger' \in Nat /\ ledger <= ledger' /\ ledger' <= MaxCalls
    BY <1>0
  <2>6. \A f \in Executors : \/ exec'[f] # Idle /\ exec[f] # Idle /\ Buyer(exec'[f], exec[f])
                             \/ exec'[f] = exec[f]
    <3> HIDE DEF v
    <3> QED BY <1>1, <2>2, <2>3, <2>4
  <2>7. Inv'
    <3> HIDE DEF v, r
    <3> QED BY <1>0, <2>1, <2>3, <2>5, <2>6, NothingBought DEF Becomes
  <2> QED BY <1>0, <2>3, <2>7 DEF Lawful
<1> QED BY <1>2, <1>3

LEMMA AssessedStep == ASSUME Inv, NEW e \in Executors, NEW ok \in BOOLEAN, Assessed(e, ok) PROVE Inv' /\ Lawful(e)
<1> DEFINE r == save(room)
           w == exec[e]
           s == adopt(r, w, ok)
           v == [at |-> "turn", run |-> w.run, attempt |-> w.attempt]
<1>0. /\ RoomOK(room) /\ RoomOK(r) /\ Becomes(room, r) /\ Idles(room, r) /\ room' = save(s) /\ UNCHANGED <<ledger, calls>>
      /\ exec' = [exec EXCEPT ![e] = v] /\ w.at \in {"calling", "unpaid"} /\ (w.at = "unpaid" => ~ok) /\ w.at \in Buys
  BY SavedFacts DEF Assessed, Waits, Buys
<1>1. w.run \in 1..room.made /\ w.run \in Nat /\ w.attempt \in Nat
  BY <1>0, ExecutorAt
<1>2. Becomes(r, s) /\ ((ok /\ current(r, w)) \/ Idles(r, s))
  <2> HIDE DEF r, w
  <2> QED BY <1>0, AdoptOK
<1>3. Becomes(r, room') /\ (Idles(r, s) => Idles(r, room'))
  <2> HIDE DEF r, s
  <2> QED BY <1>0, <1>2, SavedOK
<1>4. Becomes(room, room') /\ (Idles(r, s) => Idles(room, room'))
  <2> HIDE DEF r, s
  <2> QED BY <1>0, <1>3, FollowsTrans DEF Becomes
<1>5. v \in Work /\ v.at \notin Buys /\ v.run \in 1..room'.made
  <2>1. room.made <= room'.made /\ room'.made \in Nat /\ room.made \in Nat
    BY <1>0, <1>4 DEF Becomes, RoomOK, Room, Follows
  <2> QED BY <1>1, <2>1 DEF Work, Buys
<1>6. Inv' /\ \A f \in Executors \ {e} : exec'[f] = exec[f]
  <2> HIDE DEF v
  <2> QED BY <1>0, <1>4, <1>5, StepEnds
<1>7. ASSUME ok, current(r, w)
      PROVE  Allowed(w.run)
  <2>1. Owns(r, w) /\ w.seen = context(r) /\ w.run \in DOMAIN r.runs /\ pendingRun(r.runs[w.run])
    BY <1>7 DEF current, Owns, pendingRun
  <2>2. /\ r.runs[w.run] = room.runs[w.run] /\ room.open /\ room.monitored /\ room.runs[w.run].revision = room.revision
        /\ context(r) = context(room)
    BY <2>1, SavedFacts
  <2>3. w.run \in DOMAIN room.runs
    BY <1>0, <1>1, <2>1 DEF Becomes, Follows, RoomOK, Room
  <2>4. Under(room, w.run)
    BY <2>1, <2>2, <2>3 DEF Under
  <2> QED BY <1>0, <2>1, <2>2, <2>4 DEF Allowed, Inv, Bought
<1> QED BY <1>2, <1>4, <1>6, <1>7 DEF Lawful

LEMMA DecidedStep == ASSUME Inv, NEW e \in Executors, Decided(e) PROVE Inv' /\ Lawful(e)
<1> DEFINE r == save(room)
           w == exec[e]
           i == w.run
<1>0. /\ RoomOK(room) /\ RoomOK(r) /\ Becomes(room, r) /\ Idles(room, r) /\ UNCHANGED <<ledger, calls>>
      /\ w.at = "deciding"
  BY SavedFacts DEF Decided
<1>1. i \in 1..room.made /\ Idle \in Work /\ Idle.at \notin Buys /\ w.decision \in Tools \cup {"complete"}
  BY <1>0, ExecutorAt
<1>2. ASSUME NEW s, Becomes(r, s)
      PROVE  Becomes(room, s) /\ (Idles(r, s) => Idles(room, s))
  <2> HIDE DEF r
  <2> QED BY <1>0, <1>2, FollowsTrans DEF Becomes
<1>3. CASE ~Owns(r, w)
  <2>1. room' = r /\ exec' = [exec EXCEPT ![e] = Idle]
    BY <1>3 DEF Decided, Waits
  <2> QED BY <1>0, <1>1, <2>1, StepEnds DEF Lawful
<1>4. CASE Owns(r, w) /\ stale(r, r.runs[i])
  <2>1. room' = refresh(r, i) /\ exec' = [exec EXCEPT ![e] = Idle] /\ i \in DOMAIN r.runs
    BY <1>4 DEF Decided, Waits, Owns
  <2>2. Becomes(room, room') /\ Idles(room, room')
    BY <1>0, <1>2, <2>1, RefreshOK
  <2> QED BY <1>0, <1>1, <2>1, <2>2, StepEnds DEF Lawful
<1>5. CASE Owns(r, w) /\ ~stale(r, r.runs[i]) /\ w.decision = "complete"
  <2> DEFINE s == [r EXCEPT !.runs[i] = ended(r)]
  <2>1. room' = save(s) /\ exec' = [exec EXCEPT ![e] = Idle] /\ i \in DOMAIN r.runs
    BY <1>5 DEF Decided, Waits, Owns
  <2>2. Becomes(r, s) /\ Idles(r, s)
    BY <1>0, <2>1, EndOK DEF Becomes
  <2>3. Becomes(r, room') /\ Idles(r, room')
    <3> HIDE DEF r, s
    <3> QED BY <1>0, <2>1, <2>2, SavedOK
  <2> QED BY <1>0, <1>1, <1>2, <2>1, <2>3, StepEnds DEF Lawful
<1>6. CASE Owns(r, w) /\ ~stale(r, r.runs[i]) /\ w.decision # "complete"
  <2> DEFINE s == execute(r, i, w.decision)
  <2>1. TurnFrom(e, w, save(s)) /\ w.decision \in Tools
    BY <1>1, <1>6 DEF Decided
  <2>2. i \in DOMAIN r.runs /\ pendingRun(r.runs[i])
    BY <1>6 DEF Owns, pendingRun
  <2>3. Becomes(r, s)
    <3> HIDE DEF r, i, w
    <3> QED BY <1>0, <2>1, <2>2, ReleasedOK, EffectOK DEF execute
  <2>4. Becomes(room, save(s))
    <3> HIDE DEF r, s
    <3> QED BY <1>0, <1>2, <2>3, SavedOK
  <2>5. Inv' /\ \A f \in Executors \ {e} : exec'[f] = exec[f]
    BY <1>0, <2>1, <2>4, TurnStep
  <2>6. Allowed(i)
    BY <1>6, <2>2, SavedFacts DEF Allowed, stale
  <2> QED BY <2>5, <2>6 DEF Lawful
<1> QED BY <1>3, <1>4, <1>5, <1>6

LEMMA UndecidedStep == ASSUME Inv, NEW e \in Executors, Undecided(e) PROVE Inv' /\ Lawful(e)
<1> DEFINE w == exec[e]
<1>0. /\ RoomOK(room) /\ UNCHANGED <<ledger, calls>> /\ w.at = "deciding" /\ exec' = [exec EXCEPT ![e] = Idle]
  BY DEF Undecided, Inv, TypeOK, Waits
<1>1. Idle \in Work /\ Idle.at \notin Buys
  BY <1>0, ExecutorAt
<1>2. Becomes(room, room') /\ Idles(room, room')
  <2>1. CASE w.run \in DOMAIN room.runs /\ room.runs[w.run].status = "running" /\ room.runs[w.run].attempts = w.attempt
    <3>1. room' = save(released(room, w.run)) /\ pendingRun(room.runs[w.run])
      BY <2>1 DEF Undecided, pendingRun
    <3> QED BY <1>0, <2>1, <3>1, ReleasedOK, SavedOK
  <2>2. CASE ~(w.run \in DOMAIN room.runs /\ room.runs[w.run].status = "running" /\ room.runs[w.run].attempts = w.attempt)
    <3>1. room' = room
      BY <2>2 DEF Undecided
    <3> QED BY <1>0, <3>1, FollowsSelf DEF Becomes
  <2> QED BY <2>1, <2>2
<1> QED BY <1>0, <1>1, <1>2, StepEnds DEF Lawful

LEMMA ExecutorStep == ASSUME Inv, NEW e \in Executors, Works(e) \/ Starts(e) PROVE Inv' /\ Lawful(e)
<1>1. CASE Turn(e)
  <2>1. exec[e].at \in {"turn", "deciding"} /\ TurnFrom(e, exec[e], save(room)) /\ UNCHANGED <<ledger, calls>>
    BY <1>1 DEF Turn
  <2> QED BY <2>1, TurnStep, SavedFacts DEF Lawful
<1> QED BY <1>1, ReservedStep, DecidedStep, UndecidedStep, AssessedStep, ClaimStep DEF Works, Starts

LEMMA LeaseStep == ASSUME Inv, NEW i \in DOMAIN room.runs, LeaseEnds(i) PROVE Inv'
<1> DEFINE run == room.runs[i]
           b == [run EXCEPT !.leased = FALSE]
<1>0. RoomOK(room) /\ RunOK(run) /\ run \in Run
  BY DEF Inv, TypeOK, RoomOK, RunOK
<1>1. room' = [room EXCEPT !.runs[i] = b]
  BY <1>0 DEF LeaseEnds, RoomOK, Room
<1>2. /\ b \in Run /\ b.steps = run.steps /\ b.status = run.status /\ b.source = run.source
      /\ b.read = run.read /\ b.paid = run.paid
  <2> HIDE DEF run
  <2> QED BY <1>0 DEF Run
<1>3. RunOK(b) /\ GoesOn(run, b)
  BY <1>0, <1>2 DEF RunOK, GoesOn, pendingRun, Spent
<1>4. Becomes(room, room')
  <2> HIDE DEF b
  <2> QED BY <1>0, <1>1, <1>3, Replace DEF Becomes
<1> QED BY <1>4, Unmoved DEF LeaseEnds

LEMMA NextInv == Inv /\ [Next]_vars => Inv'
<1> SUFFICES ASSUME Inv, [Next]_vars PROVE Inv'
  OBVIOUS
<1>0. RoomOK(room)
  BY DEF Inv, TypeOK
<1>1. CASE UNCHANGED vars
  <2>1. Becomes(room, room')
    BY <1>0, <1>1, FollowsSelf DEF vars, Becomes
  <2> QED BY <1>1, <2>1, Unmoved DEF vars
<1>2. CASE Restart
  <2>1. Becomes(room, room') /\ calls' = calls /\ ledger' = ledger
    BY <1>0, <1>2, FollowsSelf DEF Restart, Becomes
  <2>2. exec' = [e \in Executors |-> Idle] /\ Idle \in Work /\ Idle.at \notin Buys
    BY <1>2 DEF Restart, Work, Idle, Buys
  <2>3. exec' \in [Executors -> Work] /\ ledger' \in Nat /\ ledger <= ledger' /\ ledger' <= MaxCalls
    BY <2>1, <2>2, AgentAssumption DEF Inv, TypeOK
  <2> QED BY <2>1, <2>2, <2>3, NothingBought DEF Becomes
<1> QED BY <1>1, <1>2, PeopleOK, ExecutorStep, LeaseStep DEF Next

(* Whatever the executors, the participants and restarts do, the budgets   *)
(* and what is bought for each run stay accounted for.                     *)
THEOREM AgentInvariant == Spec => []Inv
  BY InitInv, NextInv, PTL DEF Spec

(* No effect of a run is repeated, however often it is recovered, retried  *)
(* or executed by two at a time.                                           *)
THEOREM EffectsOnceHolds == Spec => []EffectsOnce
<1>1. Inv => EffectsOnce
  BY DEF Inv, TypeOK, RoomOK, RunOK, EffectsOnce
<1> QED BY <1>1, AgentInvariant, PTL

(* A run buys one assessment at most, within the journey's budget and the  *)
(* day's, wherever a restart falls between the two reservations.           *)
THEOREM PaidOnceHolds == Spec => []PaidOnce
<1>1. Inv => PaidOnce
  <2> SUFFICES ASSUME Inv PROVE PaidOnce
    OBVIOUS
  <2>1. Cardinality(Reserving) \in Nat /\ Len(calls) \in Nat /\ room.requests \in Nat
    BY AgentAssumption, FS_Subset, FS_CardinalityType DEF Inv, TypeOK, RoomOK, Room, Reserving
  <2> QED BY <2>1 DEF Inv, TypeOK, Counted, PaidOnce
<1> QED BY <1>1, AgentInvariant, PTL

LEMMA NothingFromThePastStep ==
  ASSUME Inv, Inv', [Next]_vars, NEW e \in Executors, NEW i \in DOMAIN room.runs \cap DOMAIN room'.runs,
         exec'[e] # exec[e], exec[e] # Idle, exec[e].run = i,
         \/ Len(room'.runs[i].steps) > Len(room.runs[i].steps)
         \/ room'.runs[i].source = "paid" /\ room.runs[i].source = "rules"
  PROVE  Allowed(i)
<1>0. RoomOK(room) /\ RoomOK(room')
  BY DEF Inv, TypeOK
<1>1. ~Idles(room, room')
  <2>1. RunOK(room.runs[i]) /\ RunOK(room'.runs[i])
    BY <1>0 DEF RoomOK
  <2>2. CASE pendingRun(room'.runs[i])
    BY <2>1, <2>2 DEF Idles, RunOK, Run
  <2>3. CASE ~pendingRun(room'.runs[i])
    <3>1. room'.runs[i].steps = <<>> /\ room'.runs[i].source = "rules" /\ Len(room.runs[i].steps) \in Nat
      BY <2>1, <2>3 DEF RunOK, Spent, Run
    <3> QED BY <3>1
  <2> QED BY <2>2, <2>3
<1>2. room' # room
  BY <1>0, <1>1, FollowsSelf
<1>3. ~People /\ ~(\E j \in DOMAIN room.runs : LeaseEnds(j))
  BY DEF People, PostMessage, CheckIn, Help, Resume, Takeover, SetAssistance, Close, FollowUp, EvidenceChanges,
         exportCodexDemo, cancelCodexDemo, importCodexDemo, Change, LeaseEnds
<1>4. ~Restart /\ ~UNCHANGED vars
  BY <1>2 DEF Restart, vars
<1>5. PICK f \in Executors : Works(f) \/ Starts(f)
  BY <1>3, <1>4 DEF Next
<1>6. Lawful(f)
  BY <1>5, ExecutorStep
<1>7. f = e
  BY <1>6 DEF Lawful
<1> QED BY <1>1, <1>6, <1>7 DEF Lawful

(* An executor does and adopts nothing on a journey other than the one it  *)
(* decided for, although the journey moves while it waits.                 *)
THEOREM NothingFromThePastHolds == Spec => NothingFromThePast
<1>1. Inv /\ Inv' /\ [Next]_vars =>
        [\A e \in Executors, i \in DOMAIN room.runs \cap DOMAIN room'.runs :
           /\ exec'[e] # exec[e] /\ exec[e] # Idle /\ exec[e].run = i
           /\ \/ Len(room'.runs[i].steps) > Len(room.runs[i].steps)
              \/ room'.runs[i].source = "paid" /\ room.runs[i].source = "rules"
           => /\ room.open /\ room.monitored /\ room.runs[i].revision = room.revision
              /\ room.runs[i].read \in {Unread, context(room)}]_vars
  BY NothingFromThePastStep DEF Allowed
<1> QED BY <1>1, AgentInvariant, PTL DEF Spec, NothingFromThePast

-----------------------------------------------------------------------------
(***************************************************************************)
(* The paid request, for every size of response: the caller is answered in *)
(* the event that ends its patience, an answered request lets go of        *)
(* everything, and what a response cost is told.                           *)
(***************************************************************************)
Bodies == /\ body = "open" => at = "replied"
          /\ at = "replied" /\ reply.kind = "ok" => (body = "open" <=> reply.streams)
          /\ body = "locked" => at \in {"reading", "chunk", "done"}
(* A timer and a listener exactly as long as there is no answer.           *)
Caller == /\ at = "uncalled" => ~answered /\ timer = "off" /\ listener = "off"
          /\ at # "uncalled" => IF answered THEN timer # "set" /\ listener = "off"
                                ELSE timer = "set" /\ listener = "on" /\ owner = "live"
          /\ at \in Suspended => ~answered
          /\ at = "over" => answered
          /\ at = "ended" => result.code # "none"
(* A request waits for fetch at most once.                                 *)
Fetched == /\ at \in {"uncalled", "deferred", "prepared"} => fetch = "unsent"
           /\ at \in {"replied", "reading", "chunk", "done", "read"} => fetch = "replied"
           /\ at = "ended" => fetch # "pending"
cost(r) == r.usage = "known" <=> r.code \in {"assessment", "rejected"} /\ reply.flaws \cap BeforeUsage = {}
Costs == /\ at = "ended" => /\ cost(result)
                            /\ result.code \in {"assessment", "rejected"} => fetch = "replied"
         /\ answered => /\ cost(answer)
                        /\ answer.code \in {"assessment", "rejected"} => fetch = "replied" /\ at = "over"
Owner == owner \in {"live", "aborted"} /\ listener \in {"on", "off"}
Control == Owner /\ Bodies /\ Caller /\ Fetched
RequestInv == Control /\ Costs

(* The first flaw there is decides whether the usage was found; there is   *)
(* a flaw before the usage exactly if the first one is.                    *)
LEMMA Parsed == ASSUME NEW flaws
                PROVE  /\ parseResponse(flaws).code \in {"assessment", "rejected"}
                       /\ parseResponse(flaws).usage = "known" <=> flaws \cap BeforeUsage = {}
<1> DEFINE first == {i \in DOMAIN Checks : Checks[i] \in flaws /\ \A j \in 1..i - 1 : Checks[j] \notin flaws}
<1>1. DOMAIN Checks = 1..9 /\ Checks[1] = "json" /\ Checks[2] = "usage"
  BY DEF Checks
<1>2. \A i \in 3..9 : Checks[i] \notin BeforeUsage
  BY DEF Checks, BeforeUsage
<1>3. ASSUME \A i \in first : Checks[i] \notin BeforeUsage PROVE flaws \cap BeforeUsage = {}
  <2>1. 1 \notin first
    BY <1>1, <1>3 DEF BeforeUsage
  <2>2. "json" \notin flaws
    BY <2>1, <1>1
  <2>3. 2 \notin first
    BY <1>1, <1>3 DEF BeforeUsage
  <2>4. "usage" \notin flaws
    BY <2>2, <2>3, <1>1
  <2> QED BY <2>2, <2>4 DEF BeforeUsage
<1> QED BY <1>3 DEF parseResponse

LEMMA RequestTyped == RequestInit => RequestInv
  BY DEF RequestInit, RequestInv, Control, Owner, Bodies, Caller, Fetched, Costs, answered, told, Suspended, cost

LEMMA ControlStep == Control /\ [RequestNext]_requestVars => Control'
<1> SUFFICES ASSUME Control, [RequestNext]_requestVars PROVE Control'
  OBVIOUS
<1> USE DEF Control, Owner, Bodies, Caller, Fetched, answered, told, Suspended, caller, network
<1>1. CASE Call
  BY <1>1 DEF Call
<1>2. CASE Abort
  BY <1>2 DEF Abort, aborts, letGo
<1>3. CASE Deadline
  BY <1>3 DEF Deadline, aborts, letGo, Waiting
<1>4. CASE Deliver
  BY <1>4 DEF Deliver
<1>5. ASSUME NEW flaw \in InputFlaws, Prepare(flaw) PROVE Control'
  BY <1>5 DEF Prepare, Ends, Goes, InputFlaws
<1>6. CASE Ask
  BY <1>6 DEF Ask, Goes
<1>7. CASE FetchFails
  BY <1>7 DEF FetchFails, Ends
<1>8. CASE Open
  BY <1>8 DEF Open, Ends, Goes, cancelBody, signalled
<1>9. CASE Streams
  BY <1>9 DEF Streams, Ends, Goes
<1>10. CASE Read
  BY <1>10 DEF Read, Ends, Goes, signalled
<1>11. CASE Parse
  BY <1>11, Parsed DEF Parse, Ends, signalled
<1>12. ASSUME NEW r \in Replies, Respond(r) PROVE Control'
  BY <1>12 DEF Respond, Goes, disposeLate
<1>13. CASE UNCHANGED requestVars
  BY <1>13 DEF requestVars
<1> QED
  BY <1>1, <1>2, <1>3, <1>4, <1>5, <1>6, <1>7, <1>8, <1>9, <1>10, <1>11, <1>12, <1>13 DEF RequestNext

LEMMA CostsStep == RequestInv /\ [RequestNext]_requestVars => Costs'
<1> SUFFICES ASSUME RequestInv, [RequestNext]_requestVars PROVE Costs'
  OBVIOUS
<1> USE DEF RequestInv, Control, Caller, Fetched, Costs, cost, answered, told, Suspended, caller, network
<1>1. CASE Call
  BY <1>1 DEF Call
<1>2. CASE Abort
  BY <1>2 DEF Abort, aborts, letGo
<1>3. CASE Deadline
  BY <1>3 DEF Deadline, aborts, letGo, Waiting
<1>4. CASE Deliver
  BY <1>4 DEF Deliver
<1>5. ASSUME NEW flaw \in InputFlaws, Prepare(flaw) PROVE Costs'
  BY <1>5 DEF Prepare, Ends, Goes, InputFlaws
<1>6. CASE Ask
  BY <1>6 DEF Ask, Goes
<1>7. CASE FetchFails
  BY <1>7 DEF FetchFails, Ends
<1>8. CASE Open
  BY <1>8 DEF Open, Ends, Goes, cancelBody, signalled
<1>9. CASE Streams
  BY <1>9 DEF Streams, Ends, Goes
<1>10. CASE Read
  BY <1>10 DEF Read, Ends, Goes, signalled
<1>11. CASE Parse
  BY <1>11, Parsed DEF Parse, Ends, signalled
<1>12. ASSUME NEW r \in Replies, Respond(r) PROVE Costs'
  BY <1>12 DEF Respond, Goes, disposeLate
<1>13. CASE UNCHANGED requestVars
  BY <1>13 DEF requestVars
<1> QED
  BY <1>1, <1>2, <1>3, <1>4, <1>5, <1>6, <1>7, <1>8, <1>9, <1>10, <1>11, <1>12, <1>13 DEF RequestNext

(* Timer, listener, stream and cost of one request are accounted for at     *)
(* every point where the network or the caller can interrupt it.           *)
THEOREM RequestInvariant == RequestSpec => []RequestInv
<1>1. RequestInit => RequestInv
  BY RequestTyped
<1>2. RequestInv /\ [RequestNext]_requestVars => RequestInv'
  BY ControlStep, CostsStep DEF RequestInv
<1> QED BY <1>1, <1>2, PTL DEF RequestSpec

(* PaidRequest!NeverOutlivesItsCaller: no network keeps a caller waiting   *)
(* past its deadline or its own abort, and an answered request holds no    *)
(* timer, listener or stream.                                              *)
THEOREM LetsGo == RequestSpec => []NeverOutlivesItsCaller
<1>1. RequestInv => NeverOutlivesItsCaller
  BY DEF RequestInv, Control, Owner, Bodies, Caller, NeverOutlivesItsCaller, answered, Waiting, Suspended
<1> QED BY <1>1, RequestInvariant, PTL

(* PaidRequest!UsageReported: a caller that is told of an assessment, or   *)
(* of its rejection, is told what it cost whenever the response said so.   *)
THEOREM UsageIsReported == RequestSpec => []UsageReported
<1>1. RequestInv => UsageReported
  BY DEF RequestInv, Costs, cost, UsageReported
<1> QED BY <1>1, RequestInvariant, PTL

-----------------------------------------------------------------------------
(***************************************************************************)
(* The evidence, for any records of a journey.                             *)
(***************************************************************************)
(* Few places of a short list are few.                                     *)
LEMMA PlacesAreFew ==
  ASSUME NEW S, NEW s \in Seq(S), NEW n \in Nat, Len(s) <= n, NEW K \in SUBSET DOMAIN s, NEW kind
  PROVE  /\ IsFiniteSet(K) /\ Cardinality(K) \in Nat /\ Cardinality(K) <= n
         /\ IsFiniteSet({kind} \X K) /\ Cardinality({kind} \X K) \in Nat /\ Cardinality({kind} \X K) <= n
<1>0. Len(s) \in Nat /\ DOMAIN s = 1..Len(s)
  OBVIOUS
<1>1. IsFiniteSet(1..Len(s)) /\ Cardinality(1..Len(s)) = Len(s)
  <2>1. 1 \in Int /\ Len(s) \in Int
    BY <1>0
  <2>2. /\ IsFiniteSet(1..Len(s))
        /\ Cardinality(1..Len(s)) = IF 1 > Len(s) THEN 0 ELSE Len(s) - 1 + 1
    BY <2>1, FS_Interval
  <2> QED BY <1>0, <2>2
<1>2. IsFiniteSet(K) /\ Cardinality(K) <= Len(s)
  BY <1>0, <1>1, FS_Subset
<1>3. Cardinality(K) \in Nat
  BY <1>2, FS_CardinalityType
<1>4. IsFiniteSet({kind}) /\ Cardinality({kind}) = 1
  BY FS_Singleton
<1>5. IsFiniteSet({kind} \X K) /\ Cardinality({kind} \X K) = Cardinality({kind}) * Cardinality(K)
  BY <1>2, <1>4, FS_Product
<1> QED BY <1>2, <1>3, <1>4, <1>5

LEMMA UnionIsSmall ==
  ASSUME NEW S, NEW T, IsFiniteSet(S), IsFiniteSet(T)
  PROVE  /\ IsFiniteSet(S \cup T) /\ Cardinality(S \cup T) \in Nat
         /\ Cardinality(S) \in Nat /\ Cardinality(T) \in Nat
         /\ Cardinality(S \cup T) <= Cardinality(S) + Cardinality(T)
<1>1. IsFiniteSet(S \cap T) /\ IsFiniteSet(S \cup T)
  BY FS_Subset, FS_Union
<1>2. /\ Cardinality(S \cap T) \in Nat /\ Cardinality(S) \in Nat /\ Cardinality(T) \in Nat
      /\ Cardinality(S \cup T) \in Nat
  BY <1>1, FS_CardinalityType
<1>3. Cardinality(S \cup T) = Cardinality(S) + Cardinality(T) - Cardinality(S \cap T)
  BY FS_Union
<1> QED BY <1>1, <1>2, <1>3

LEMMA ListsAreShort ==
  ASSUME NEW c \in Context, NEW steps \in Steps
  PROVE  /\ c.messages \in Seq(Message) /\ Len(c.messages) <= 12
         /\ c.unresolvedConcerns \in Seq(Concern) /\ Len(c.unresolvedConcerns) <= 8
         /\ c.notifications \in Seq(Notification) /\ Len(c.notifications) <= 20
         /\ steps \in Seq(Step) /\ Len(steps) <= 8
         /\ c.now \in Nat
BY DEF Context, Steps, ListOf, MaxLength

LEMMA SourcesFit ==
  ASSUME NEW c \in Context, NEW steps \in Steps
  PROVE  /\ Cardinality(Places(steps, c)) <= 49
         /\ Cardinality(kept(c.unresolvedConcerns)) <= 8
         /\ Cardinality(effectSteps(steps)) <= 8
         /\ Cardinality(kept(c.notifications)) <= 20
<1> DEFINE Snapshot == {"snapshot"} \X {0}
           Said == {"message"} \X kept(c.messages)
           Retained == {"concern"} \X kept(c.unresolvedConcerns)
           Receipts == {"tool"} \X effectSteps(steps)
           Notices == {"notification"} \X kept(c.notifications)
<1>0. /\ kept(c.messages) \in SUBSET DOMAIN c.messages
      /\ kept(c.unresolvedConcerns) \in SUBSET DOMAIN c.unresolvedConcerns
      /\ kept(c.notifications) \in SUBSET DOMAIN c.notifications
      /\ effectSteps(steps) \in SUBSET DOMAIN steps
  BY DEF kept, effectSteps, effects
<1>1. IsFiniteSet(Snapshot) /\ Cardinality(Snapshot) <= 1
  <2>1. IsFiniteSet({"snapshot"}) /\ Cardinality({"snapshot"}) = 1 /\ IsFiniteSet({0}) /\ Cardinality({0}) = 1
    BY FS_Singleton
  <2> QED BY <2>1, FS_Product
<1>2. IsFiniteSet(Said) /\ Cardinality(Said) <= 12
  BY <1>0, ListsAreShort, PlacesAreFew
<1>3. IsFiniteSet(Retained) /\ Cardinality(Retained) <= 8 /\ Cardinality(kept(c.unresolvedConcerns)) <= 8
  BY <1>0, ListsAreShort, PlacesAreFew
<1>4. IsFiniteSet(Receipts) /\ Cardinality(Receipts) <= 8 /\ Cardinality(effectSteps(steps)) <= 8
  BY <1>0, ListsAreShort, PlacesAreFew
<1>5. IsFiniteSet(Notices) /\ Cardinality(Notices) <= 20 /\ Cardinality(kept(c.notifications)) <= 20
  BY <1>0, ListsAreShort, PlacesAreFew
<1>6. Places(steps, c) = (((Snapshot \cup Said) \cup Retained) \cup Receipts) \cup Notices
  BY DEF Places
<1> HIDE DEF Snapshot, Said, Retained, Receipts, Notices
<1>7. IsFiniteSet(Snapshot \cup Said) /\ Cardinality(Snapshot \cup Said) <= 13
  BY <1>1, <1>2, UnionIsSmall
<1>8. IsFiniteSet((Snapshot \cup Said) \cup Retained) /\ Cardinality((Snapshot \cup Said) \cup Retained) <= 21
  <2>1. IsFiniteSet(Snapshot \cup Said) /\ IsFiniteSet(Retained)
    BY <1>7, <1>3
  <2>2. /\ Cardinality((Snapshot \cup Said) \cup Retained) <= Cardinality(Snapshot \cup Said) + Cardinality(Retained)
        /\ IsFiniteSet((Snapshot \cup Said) \cup Retained)
        /\ Cardinality((Snapshot \cup Said) \cup Retained) \in Nat
        /\ Cardinality(Snapshot \cup Said) \in Nat /\ Cardinality(Retained) \in Nat
    BY <2>1, UnionIsSmall
  <2> QED BY <1>7, <1>3, <2>2
<1>9. /\ IsFiniteSet(((Snapshot \cup Said) \cup Retained) \cup Receipts)
      /\ Cardinality(((Snapshot \cup Said) \cup Retained) \cup Receipts) <= 29
  BY <1>8, <1>4, UnionIsSmall
<1>10. Cardinality((((Snapshot \cup Said) \cup Retained) \cup Receipts) \cup Notices) <= 49
  BY <1>9, <1>5, UnionIsSmall
<1>11. Cardinality(Places(steps, c)) <= 49
  BY <1>6, <1>10, Zenon
<1> QED BY <1>3, <1>4, <1>5, <1>11

(* What stands at each place.                                              *)
LEMMA SnapshotPlace ==
  ASSUME NEW c, NEW steps, NEW i
  PROVE  /\ sourceAt(steps, c, <<"snapshot", i>>) = snapshotEvidence(steps, c)
         /\ sourceAt(steps, c, <<"snapshot", i>>).id = snapshotSourceId(steps, c)
         /\ sourceAt(steps, c, <<"snapshot", i>>).id[1] = "snapshot"
<1>1. <<"snapshot", i>>[1] = "snapshot"
  OBVIOUS
<1>2. sourceAt(steps, c, <<"snapshot", i>>) = snapshotEvidence(steps, c)
  BY <1>1 DEF sourceAt
<1>3. snapshotEvidence(steps, c).id = snapshotSourceId(steps, c)
  BY DEF snapshotEvidence
<1>4. snapshotSourceId(steps, c)[1] = "snapshot"
  BY DEF snapshotSourceId
<1> QED BY <1>2, <1>3, <1>4

LEMMA MessagePlace ==
  ASSUME NEW c, NEW steps, NEW i
  PROVE  /\ sourceAt(steps, c, <<"message", i>>) = messageEvidence(c.messages[i], c.now)
         /\ sourceAt(steps, c, <<"message", i>>).id = <<"message", c.messages[i].id>>
         /\ sourceAt(steps, c, <<"message", i>>).id[1] = "message"
<1>1. <<"message", i>>[1] = "message" /\ <<"message", i>>[2] = i
  OBVIOUS
<1>2. sourceAt(steps, c, <<"message", i>>) = messageEvidence(c.messages[i], c.now)
  BY <1>1 DEF sourceAt
<1>3. messageEvidence(c.messages[i], c.now).id = <<"message", c.messages[i].id>>
  BY DEF messageEvidence
<1>4. <<"message", c.messages[i].id>>[1] = "message"
  OBVIOUS
<1> QED BY <1>2, <1>3, <1>4

LEMMA ConcernPlace ==
  ASSUME NEW c, NEW steps, NEW i
  PROVE  /\ sourceAt(steps, c, <<"concern", i>>) = concernEvidence(c.unresolvedConcerns[i], c.now)
         /\ sourceAt(steps, c, <<"concern", i>>).id = <<"concern", c.unresolvedConcerns[i].id>>
         /\ sourceAt(steps, c, <<"concern", i>>).id[1] = "concern"
<1>1. <<"concern", i>>[1] = "concern" /\ <<"concern", i>>[2] = i
  OBVIOUS
<1>2. sourceAt(steps, c, <<"concern", i>>) = concernEvidence(c.unresolvedConcerns[i], c.now)
  BY <1>1 DEF sourceAt
<1>3. concernEvidence(c.unresolvedConcerns[i], c.now).id = <<"concern", c.unresolvedConcerns[i].id>>
  BY DEF concernEvidence
<1>4. <<"concern", c.unresolvedConcerns[i].id>>[1] = "concern"
  OBVIOUS
<1> QED BY <1>2, <1>3, <1>4

LEMMA ToolPlace ==
  ASSUME NEW c, NEW steps, NEW i
  PROVE  /\ sourceAt(steps, c, <<"tool", i>>) = receiptEvidence(steps[i], c.now)
         /\ sourceAt(steps, c, <<"tool", i>>).id = <<"tool", steps[i].id>>
         /\ sourceAt(steps, c, <<"tool", i>>).id[1] = "tool"
<1>1. <<"tool", i>>[1] = "tool" /\ <<"tool", i>>[2] = i
  OBVIOUS
<1>2. sourceAt(steps, c, <<"tool", i>>) = receiptEvidence(steps[i], c.now)
  BY <1>1 DEF sourceAt
<1>3. receiptEvidence(steps[i], c.now).id = <<"tool", steps[i].id>>
  BY DEF receiptEvidence
<1>4. <<"tool", steps[i].id>>[1] = "tool"
  OBVIOUS
<1> QED BY <1>2, <1>3, <1>4

LEMMA NoticePlace ==
  ASSUME NEW c, NEW steps, NEW i
  PROVE  /\ sourceAt(steps, c, <<"notification", i>>) = noticeEvidence(c.notifications[i])
         /\ sourceAt(steps, c, <<"notification", i>>).id = <<"notification", c.notifications[i].id>>
         /\ sourceAt(steps, c, <<"notification", i>>).id[1] = "notification"
<1>1. <<"notification", i>>[1] = "notification" /\ <<"notification", i>>[2] = i
  OBVIOUS
<1>2. sourceAt(steps, c, <<"notification", i>>) = noticeEvidence(c.notifications[i])
  BY <1>1 DEF sourceAt
<1>3. noticeEvidence(c.notifications[i]).id = <<"notification", c.notifications[i].id>>
  BY DEF noticeEvidence
<1>4. <<"notification", c.notifications[i].id>>[1] = "notification"
  OBVIOUS
<1> QED BY <1>2, <1>3, <1>4

LEMMA PlaceKinds ==
  ASSUME NEW c, NEW steps, NEW p \in Places(steps, c)
  PROVE  \E k, i : /\ p = <<k, i>> /\ sourceAt(steps, c, p).id[1] = k
                   /\ \/ k = "snapshot" /\ i = 0
                      \/ k = "message" /\ i \in kept(c.messages)
                      \/ k = "concern" /\ i \in kept(c.unresolvedConcerns)
                      \/ k = "tool" /\ i \in effectSteps(steps)
                      \/ k = "notification" /\ i \in kept(c.notifications)
<1>1. CASE p \in {"snapshot"} \X {0}
  BY <1>1, SnapshotPlace
<1>2. CASE p \in {"message"} \X kept(c.messages)
  BY <1>2, MessagePlace
<1>3. CASE p \in {"concern"} \X kept(c.unresolvedConcerns)
  BY <1>3, ConcernPlace
<1>4. CASE p \in {"tool"} \X effectSteps(steps)
  BY <1>4, ToolPlace
<1>5. CASE p \in {"notification"} \X kept(c.notifications)
  BY <1>5, NoticePlace
<1> QED BY <1>1, <1>2, <1>3, <1>4, <1>5 DEF Places

LEMMA KeptOncePerId ==
  ASSUME NEW S, NEW s \in Seq(S), NEW i \in kept(s), NEW j \in kept(s), s[i].id = s[j].id
  PROVE  i = j
<1>1. i \in Int /\ j \in Int
  BY DEF kept
<1>2. i <= j /\ j <= i
  BY DEF kept
<1> QED BY <1>1, <1>2

LEMMA EffectOncePerId ==
  ASSUME NEW s \in Steps, NEW i \in effectSteps(s), NEW j \in effectSteps(s), s[i].id = s[j].id
  PROVE  i = j
<1>1. i \in Int /\ j \in Int
  BY DEF effectSteps, effects, Steps, ListOf
<1>2. i <= j /\ j <= i
  BY DEF effectSteps, effects
<1> QED BY <1>1, <1>2

(* No two places bear the same identifier.                                 *)
LEMMA OneSourcePerId ==
  ASSUME NEW c \in Context, NEW steps \in Steps, NEW p \in Places(steps, c), NEW q \in Places(steps, c),
         sourceAt(steps, c, p).id = sourceAt(steps, c, q).id
  PROVE  p = q
<1> DEFINE Stands(k, i) == \/ k = "snapshot" /\ i = 0
                           \/ k = "message" /\ i \in kept(c.messages)
                           \/ k = "concern" /\ i \in kept(c.unresolvedConcerns)
                           \/ k = "tool" /\ i \in effectSteps(steps)
                           \/ k = "notification" /\ i \in kept(c.notifications)
<1>1. PICK k, i : p = <<k, i>> /\ sourceAt(steps, c, p).id[1] = k /\ Stands(k, i)
  BY PlaceKinds
<1>2. PICK l, j : q = <<l, j>> /\ sourceAt(steps, c, q).id[1] = l /\ Stands(l, j)
  BY PlaceKinds
<1>3. sourceAt(steps, c, <<k, i>>).id = sourceAt(steps, c, <<l, j>>).id
  BY <1>1, <1>2
<1>4. k = l
  BY <1>1, <1>2
<1>5. SUFFICES i = j
  BY <1>1, <1>2, <1>4
<1>6. CASE k = "snapshot"
  BY <1>1, <1>2, <1>4, <1>6
<1>7. CASE k = "message"
  <2>1. <<"message", c.messages[i].id>> = <<"message", c.messages[j].id>>
    <3>1. sourceAt(steps, c, <<"message", i>>).id = <<"message", c.messages[i].id>>
      BY MessagePlace
    <3>2. sourceAt(steps, c, <<"message", j>>).id = <<"message", c.messages[j].id>>
      BY MessagePlace
    <3>3. sourceAt(steps, c, <<"message", i>>).id = sourceAt(steps, c, <<"message", j>>).id
      BY <1>3, <1>4, <1>7
    <3> QED BY <3>1, <3>2, <3>3
  <2>2. c.messages[i].id = c.messages[j].id
    BY <2>1
  <2> QED BY <1>1, <1>2, <1>4, <1>7, <2>2, KeptOncePerId, ListsAreShort
<1>8. CASE k = "concern"
  <2>1. <<"concern", c.unresolvedConcerns[i].id>> = <<"concern", c.unresolvedConcerns[j].id>>
    <3>1. sourceAt(steps, c, <<"concern", i>>).id = <<"concern", c.unresolvedConcerns[i].id>>
      BY ConcernPlace
    <3>2. sourceAt(steps, c, <<"concern", j>>).id = <<"concern", c.unresolvedConcerns[j].id>>
      BY ConcernPlace
    <3>3. sourceAt(steps, c, <<"concern", i>>).id = sourceAt(steps, c, <<"concern", j>>).id
      BY <1>3, <1>4, <1>8
    <3> QED BY <3>1, <3>2, <3>3
  <2>2. c.unresolvedConcerns[i].id = c.unresolvedConcerns[j].id
    BY <2>1
  <2> QED BY <1>1, <1>2, <1>4, <1>8, <2>2, KeptOncePerId, ListsAreShort
<1>9. CASE k = "notification"
  <2>1. <<"notification", c.notifications[i].id>> = <<"notification", c.notifications[j].id>>
    <3>1. sourceAt(steps, c, <<"notification", i>>).id = <<"notification", c.notifications[i].id>>
      BY NoticePlace
    <3>2. sourceAt(steps, c, <<"notification", j>>).id = <<"notification", c.notifications[j].id>>
      BY NoticePlace
    <3>3. sourceAt(steps, c, <<"notification", i>>).id = sourceAt(steps, c, <<"notification", j>>).id
      BY <1>3, <1>4, <1>9
    <3> QED BY <3>1, <3>2, <3>3
  <2>2. c.notifications[i].id = c.notifications[j].id
    BY <2>1
  <2> QED BY <1>1, <1>2, <1>4, <1>9, <2>2, KeptOncePerId, ListsAreShort
<1>10. CASE k = "tool"
  <2>1. <<"tool", steps[i].id>> = <<"tool", steps[j].id>>
    <3>1. sourceAt(steps, c, <<"tool", i>>).id = <<"tool", steps[i].id>>
      BY ToolPlace
    <3>2. sourceAt(steps, c, <<"tool", j>>).id = <<"tool", steps[j].id>>
      BY ToolPlace
    <3>3. sourceAt(steps, c, <<"tool", i>>).id = sourceAt(steps, c, <<"tool", j>>).id
      BY <1>3, <1>4, <1>10
    <3> QED BY <3>1, <3>2, <3>3
  <2>2. steps[i].id = steps[j].id
    BY <2>1
  <2> QED BY <1>1, <1>2, <1>4, <1>10, <2>2, EffectOncePerId
<1> QED BY <1>1, <1>6, <1>7, <1>8, <1>9, <1>10

(* Every handoff the server builds passes the schema by which an archive   *)
(* that holds it is read back (snapshots.ts): each of its claims refers to *)
(* exactly one listed source, of the right kind and with the same content, *)
(* whatever identifiers the records repeat.                                *)
THEOREM HandoffIsAccepted ==
  ASSUME NEW c \in Context, NEW steps \in Steps
  PROVE  agentHandoffSchema(buildAgentHandoff(steps, c))
<1> DEFINE h == buildAgentHandoff(steps, c)
           listed(id, kind) == {e \in {h.sources[p] : p \in DOMAIN h.sources} : e.id = id /\ e.source = kind}
<1>1. /\ DOMAIN h.sources = Places(steps, c)
      /\ \A p \in Places(steps, c) : h.sources[p] = sourceAt(steps, c, p)
      /\ h.snapshotAt = c.now /\ h.snapshotSourceId = snapshotSourceId(steps, c)
      /\ DOMAIN h.unresolvedConcerns = kept(c.unresolvedConcerns)
      /\ DOMAIN h.actions = effectSteps(steps)
      /\ DOMAIN h.notifications = kept(c.notifications)
  BY DEF buildAgentHandoff
<1>2. /\ \A i \in kept(c.unresolvedConcerns) :
            /\ h.unresolvedConcerns[i].sourceId = <<"concern", c.unresolvedConcerns[i].id>>
            /\ h.unresolvedConcerns[i].observedAt = c.unresolvedConcerns[i].observedAt
            /\ h.unresolvedConcerns[i].receivedAt = c.unresolvedConcerns[i].receivedAt
            /\ h.unresolvedConcerns[i].text = redacted[c.unresolvedConcerns[i].text]
      /\ \A i \in effectSteps(steps) :
            /\ h.actions[i].sourceId = <<"tool", steps[i].id>>
            /\ h.actions[i].at = steps[i].at /\ h.actions[i].summary = receiptSummary(steps[i])
      /\ \A i \in kept(c.notifications) :
            h.notifications[i].sourceId = <<"notification", c.notifications[i].id>>
  BY DEF buildAgentHandoff
<1> HIDE DEF h
<1>3. ASSUME NEW p \in Places(steps, c)
      PROVE  sourceAt(steps, c, p) \in listed(sourceAt(steps, c, p).id, sourceAt(steps, c, p).source)
  BY <1>1
<1>4. /\ <<"snapshot", 0>> \in Places(steps, c)
      /\ \A i \in kept(c.unresolvedConcerns) : <<"concern", i>> \in Places(steps, c)
      /\ \A i \in effectSteps(steps) : <<"tool", i>> \in Places(steps, c)
      /\ \A i \in kept(c.notifications) : <<"notification", i>> \in Places(steps, c)
  BY DEF Places
<1>5. /\ Cardinality(DOMAIN h.sources) <= 49
      /\ Cardinality(DOMAIN h.unresolvedConcerns) <= 8
      /\ Cardinality(DOMAIN h.actions) <= 8
      /\ Cardinality(DOMAIN h.notifications) <= 20
  BY <1>1, SourcesFit
<1>6. \A p, q \in DOMAIN h.sources : h.sources[p].id = h.sources[q].id => p = q
  BY <1>1, OneSourcePerId
<1>7. \E e \in listed(h.snapshotSourceId, "journey_snapshot") : e.observedAt = h.snapshotAt
  <2>1. snapshotEvidence(steps, c) \in listed(snapshotSourceId(steps, c), "journey_snapshot")
    BY <1>3, <1>4, SnapshotPlace DEF snapshotEvidence
  <2> QED BY <1>1, <2>1 DEF snapshotEvidence
<1>8. ASSUME NEW i \in DOMAIN h.unresolvedConcerns
      PROVE  \E e \in listed(h.unresolvedConcerns[i].sourceId, "retained_concern") :
               /\ e.actor = "rider" /\ e.observedAt = h.unresolvedConcerns[i].observedAt
               /\ e.receivedAt = h.unresolvedConcerns[i].receivedAt /\ e.text = h.unresolvedConcerns[i].text
  <2> DEFINE e == concernEvidence(c.unresolvedConcerns[i], c.now)
  <2>1. e \in listed(<<"concern", c.unresolvedConcerns[i].id>>, "retained_concern")
    <3>1. e = sourceAt(steps, c, <<"concern", i>>)
      BY ConcernPlace
    <3>2. e.id = <<"concern", c.unresolvedConcerns[i].id>> /\ e.source = "retained_concern"
      BY DEF concernEvidence
    <3> QED BY <1>1, <1>3, <1>4, <3>1, <3>2
  <2>2. /\ e.actor = "rider" /\ e.observedAt = c.unresolvedConcerns[i].observedAt
        /\ e.receivedAt = c.unresolvedConcerns[i].receivedAt /\ e.text = redacted[c.unresolvedConcerns[i].text]
    BY DEF concernEvidence
  <2> QED BY <1>1, <1>2, <2>1, <2>2
<1>9. ASSUME NEW i \in DOMAIN h.actions
      PROVE  \E e \in listed(h.actions[i].sourceId, "tool_receipt") :
               e.observedAt = h.actions[i].at /\ e.text = h.actions[i].summary
  <2> DEFINE e == receiptEvidence(steps[i], c.now)
  <2>1. e \in listed(<<"tool", steps[i].id>>, "tool_receipt")
    <3>1. e = sourceAt(steps, c, <<"tool", i>>)
      BY ToolPlace
    <3>2. e.id = <<"tool", steps[i].id>> /\ e.source = "tool_receipt"
      BY DEF receiptEvidence
    <3> QED BY <1>1, <1>3, <1>4, <3>1, <3>2
  <2>2. e.observedAt = steps[i].at /\ e.text = receiptSummary(steps[i])
    BY DEF receiptEvidence
  <2> QED BY <1>1, <1>2, <2>1, <2>2
<1>10. ASSUME NEW i \in DOMAIN h.notifications
       PROVE  listed(h.notifications[i].sourceId, "notification") # {}
  <2> DEFINE e == noticeEvidence(c.notifications[i])
  <2>1. e \in listed(<<"notification", c.notifications[i].id>>, "notification")
    <3>1. e = sourceAt(steps, c, <<"notification", i>>)
      BY NoticePlace
    <3>2. e.id = <<"notification", c.notifications[i].id>> /\ e.source = "notification"
      BY DEF noticeEvidence
    <3> QED BY <1>1, <1>3, <1>4, <3>1, <3>2
  <2> QED BY <1>1, <1>2, <2>1
<1> QED BY <1>5, <1>6, <1>7, <1>8, <1>9, <1>10 DEF agentHandoffSchema, h

LEMMA SaidTimes ==
  ASSUME NEW c \in Context, NEW s \in said(c)
  PROVE  s.observedAt \in Nat /\ s.receivedAt \in Nat
<1>1. ElementsOf(c.messages) \subseteq Message /\ ElementsOf(c.unresolvedConcerns) \subseteq Concern
  BY DEF Context, ListOf, ElementsOf
<1>2. CASE \E m \in ElementsOf(c.messages) : s.observedAt = m.at /\ s.receivedAt = m.at
  BY <1>1, <1>2 DEF Message
<1>3. CASE \E k \in ElementsOf(c.unresolvedConcerns) : s.observedAt = k.observedAt /\ s.receivedAt = k.receivedAt
  BY <1>1, <1>3 DEF Concern
<1> QED BY <1>2, <1>3 DEF said

LEMMA OfferedGrows ==
  ASSUME NEW c \in Context, NEW m \in Nat, NEW n \in Nat, m <= n
  PROVE  offered(c, m) \subseteq offered(c, n)
BY SaidTimes DEF offered

(* A source that may be cited at two times is the same at both, and may be *)
(* cited in between.                                                       *)
LEMMA SourceStays ==
  ASSUME NEW c \in Context, NEW first \in Nat, NEW n \in Nat, NEW last \in Nat, first <= n, n <= last,
         NEW s \in sourceMap(c, first), NEW t \in sourceMap(c, last), s.id = t.id
  PROVE  s = t /\ s \in sourceMap(c, n)
<1>1. offered(c, first) \subseteq offered(c, n) /\ offered(c, n) \subseteq offered(c, last)
  BY OfferedGrows
<1>2. s \in offered(c, last) /\ t \in offered(c, last) /\ s \in offered(c, n)
  BY <1>1 DEF sourceMap
<1>3. s = t
  BY <1>2 DEF sourceMap
<1>4. \A u \in offered(c, n) : u.id = s.id => u = s
  BY <1>1, <1>3 DEF sourceMap
<1> QED BY <1>2, <1>3, <1>4 DEF sourceMap

(* So are the sources of a citation that is accepted at both times.        *)
LEMMA CitedStays ==
  ASSUME NEW c \in Context, NEW first \in Nat, NEW n \in Nat, NEW last \in Nat, first <= n, n <= last, NEW ids,
         \A id \in ids : \E s \in sourceMap(c, first) : s.id = id,
         \A id \in ids : \E s \in sourceMap(c, last) : s.id = id
  PROVE  /\ \A id \in ids : \E s \in sourceMap(c, n) : s.id = id
         /\ {s \in sourceMap(c, n) : s.id \in ids} = {s \in sourceMap(c, last) : s.id \in ids}
<1>1. ASSUME NEW id \in ids
      PROVE  \E s \in sourceMap(c, n) \cap sourceMap(c, last) : s.id = id
  <2>1. PICK s \in sourceMap(c, first) : s.id = id
    OBVIOUS
  <2>2. PICK t \in sourceMap(c, last) : t.id = id
    OBVIOUS
  <2>3. s = t /\ s \in sourceMap(c, n)
    BY <2>1, <2>2, SourceStays
  <2> QED BY <2>2, <2>3
<1>2. \A m \in {n, last} : \A s, t \in sourceMap(c, m) : s.id = t.id => s = t
  BY DEF sourceMap
<1> QED BY <1>1, <1>2

LEMMA RiderEvidenceEarlier ==
  ASSUME NEW c \in Context, NEW n \in Nat, NEW last \in Nat, n <= last, Window \in Nat,
         NEW s \in sourceMap(c, last), riderEvidence(s, last)
  PROVE  riderEvidence(s, n)
BY SaidTimes DEF riderEvidence, recent, sourceMap, offered

(* An assessment that is accepted at two times is accepted at every time   *)
(* in between.  A result for a snapshot is judged at the time of the       *)
(* snapshot and when it arrives (validateCodexDemoResult, submissions of   *)
(* personal agents): nothing that was in the future can slip in, and the   *)
(* wait in between cannot hide a moment at which it would have been        *)
(* refused.                                                                *)
THEOREM ValidInBetween ==
  ASSUME Window \in Nat, NEW c \in Context, NEW a, NEW first \in Nat, NEW n \in Nat, NEW last \in Nat,
         first <= n, n <= last,
         validateSemanticAssessment(a, c, first), validateSemanticAssessment(a, c, last)
  PROVE  validateSemanticAssessment(a, c, n)
<1> DEFINE cited(ids, m) == {s \in sourceMap(c, m) : s.id \in ids}
           known(ids, m) == \A id \in ids : \E s \in sourceMap(c, m) : s.id = id
<1>1. semanticAssessmentSchema(a)
  BY DEF validateSemanticAssessment
<1>2. ASSUME NEW ids, known(ids, first), known(ids, last)
      PROVE  known(ids, n) /\ cited(ids, n) = cited(ids, last)
  BY <1>2, CitedStays
<1>3. ASSUME NEW f \in a.findings
      PROVE  /\ known(f.sourceIds, n)
             /\ f.kind = "concern" => \A s \in cited(f.sourceIds, n) : riderEvidence(s, n)
             /\ f.kind = "conflict" => \E s, t \in cited(f.sourceIds, n) : s.id # t.id /\ s.kind = "message" /\ t.kind = "message"
  <2>1. known(f.sourceIds, first) /\ known(f.sourceIds, last)
    BY DEF validateSemanticAssessment
  <2>2. known(f.sourceIds, n) /\ cited(f.sourceIds, n) = cited(f.sourceIds, last)
    BY <1>2, <2>1
  <2>3. f.kind = "concern" => \A s \in cited(f.sourceIds, last) : riderEvidence(s, last)
    BY DEF validateSemanticAssessment
  <2>4. f.kind = "conflict" => \E s, t \in cited(f.sourceIds, last) : s.id # t.id /\ s.kind = "message" /\ t.kind = "message"
    BY DEF validateSemanticAssessment
  <2>5. \A s \in cited(f.sourceIds, last) : riderEvidence(s, last) => riderEvidence(s, n)
    BY RiderEvidenceEarlier
  <2> QED BY <2>2, <2>3, <2>4, <2>5
<1>4. known(a.question.sourceIds, n) /\ \A s \in cited(a.question.sourceIds, n) : riderEvidence(s, n)
  <2>1. /\ known(a.question.sourceIds, first) /\ known(a.question.sourceIds, last)
        /\ \A s \in cited(a.question.sourceIds, last) : riderEvidence(s, last)
    BY DEF validateSemanticAssessment
  <2>2. known(a.question.sourceIds, n) /\ cited(a.question.sourceIds, n) = cited(a.question.sourceIds, last)
    BY <1>2, <2>1
  <2>3. \A s \in cited(a.question.sourceIds, last) : riderEvidence(s, last) => riderEvidence(s, n)
    BY RiderEvidenceEarlier
  <2> QED BY <2>1, <2>2, <2>3
<1>5. staleLocation(c, last) => staleLocation(c, n)
  BY DEF staleLocation, Context
<1> QED BY <1>1, <1>3, <1>4, <1>5 DEF validateSemanticAssessment

(* Hence an imported result is usable until it ceases to be, and never     *)
(* again: a run that has gone over to the rules does not come back to it.  *)
THEOREM UsableUntilItIsNot ==
  ASSUME Window \in Nat, NEW claimed, NEW job, job.context \in Context, job.expiresAt \in Nat,
         NEW imported \in Nat, NEW n \in Nat, NEW last \in Nat, imported <= n, n <= last,
         validateCodexDemoResult(claimed, job, imported), canUseSemanticRun(claimed, job, last)
  PROVE  canUseSemanticRun(claimed, job, n)
<1>1. validateSemanticAssessment(claimed.assessment, job.context, imported)
  BY DEF validateCodexDemoResult
<1>2. validateSemanticAssessment(claimed.assessment, job.context, last) /\ last < job.expiresAt
  BY DEF canUseSemanticRun
<1>3. validateSemanticAssessment(claimed.assessment, job.context, n)
  BY <1>1, <1>2, ValidInBetween
<1> QED BY <1>2, <1>3 DEF canUseSemanticRun

(***************************************************************************)
(* What planners propose.                                                  *)
(***************************************************************************)
ToolNames == {"get_journey_context", "send_check_in", "request_human_relay", "notify_trusted_contact", "schedule_follow_up"}

LEMMA NextOfOK ==
  ASSUME NEW proposed, NEW steps, NEW tool, tool = nextOf(proposed, steps), tool # "complete"
  PROVE  tool \in proposed /\ tool \in ToolNames /\ tool \notin attempted(steps)
<1> DEFINE left == {i \in DOMAIN ToolOrder : ToolOrder[i] \in proposed \ attempted(steps)}
           least(i) == \A k \in left : i <= k
           i == CHOOSE l \in left : least(l)
<1>1. left # {} /\ tool = ToolOrder[i]
  BY DEF nextOf
<1>2. DOMAIN ToolOrder = 1..4
  BY DEF ToolOrder
<1>3. \E l \in left : least(l)
  <2>1. left \subseteq 1..4
    BY <1>2
  <2>2. CASE 1 \in left
    BY <2>1, <2>2
  <2>3. CASE 1 \notin left /\ 2 \in left
    BY <2>1, <2>3
  <2>4. CASE 1 \notin left /\ 2 \notin left /\ 3 \in left
    BY <2>1, <2>4
  <2>5. CASE 1 \notin left /\ 2 \notin left /\ 3 \notin left
    BY <1>1, <2>1, <2>5
  <2> QED BY <2>2, <2>3, <2>4, <2>5
<1>4. i \in left
  <2> HIDE DEF least, left
  <2> QED BY <1>3
<1>5. i \in 1..4 /\ ToolOrder[i] \in proposed \ attempted(steps)
  BY <1>2, <1>4
<1>6. ToolOrder[i] \in ToolNames
  <2> HIDE DEF i
  <2> QED BY <1>5 DEF ToolOrder, ToolNames
<1> QED BY <1>1, <1>5, <1>6

LEMMA MockOK ==
  ASSUME NEW trigger, NEW steps, NEW tool, tool = nextMockDecision(trigger, steps), tool \notin {"complete", "throws"}
  PROVE  /\ tool \in ToolNames /\ tool \notin attempted(steps)
         /\ \/ tool = "get_journey_context"
            \/ /\ contextSteps(steps) # {} /\ succeeded(lastRead(steps)) /\ lastRead(steps).context # NoContext
               /\ lastRead(steps).context.monitored
               /\ tool \in buildPlan(trigger, lastRead(steps).context)
<1>1. CASE contextSteps(steps) = {}
  <2>1. tool = "get_journey_context"
    BY <1>1 DEF nextMockDecision
  <2>2. tool \notin attempted(steps)
    BY <1>1, <2>1 DEF attempted, contextSteps
  <2> QED BY <2>1, <2>2 DEF ToolNames
<1>2. CASE contextSteps(steps) # {}
  <2> DEFINE read == lastRead(steps)
  <2>1. /\ succeeded(read) /\ read.context # NoContext /\ read.context.monitored
        /\ tool = nextOf(buildPlan(trigger, read.context), steps)
    BY <1>2 DEF nextMockDecision
  <2> QED BY <1>2, <2>1, NextOfOK
<1> QED BY <1>1, <1>2

LEMMA SemanticOK ==
  ASSUME NEW trigger, NEW steps, NEW a, NEW c, NEW tool, tool = nextSemanticDecision(trigger, steps, a, c), tool # "complete"
  PROVE  /\ tool \in ToolNames /\ tool \notin attempted(steps)
         /\ tool \in {"send_check_in", "schedule_follow_up", "request_human_relay"}
BY NextOfOK DEF nextSemanticDecision

(* A run attempts each tool once at most, so it ends within the five tools *)
(* there are, short of the eight steps an archive may hold: whichever      *)
(* planner decided on each step, on whatever it knew of the journey, and   *)
(* whatever came of the steps before.                                      *)
THEOREM EachToolOnce ==
  ASSUME NEW S, NEW steps \in Seq(S), NEW trigger, NEW Judgements, NEW Seen,
         \A i \in DOMAIN steps : LET before == SubSeq(steps, 1, i - 1) IN
           steps[i].tool \in ({nextMockDecision(trigger, before)} \cup {nextSemanticDecision(trigger, before, a, c) : a \in Judgements, c \in Seen})
                             \ {"complete", "throws"}
  PROVE  /\ \A i, k \in DOMAIN steps : steps[i].tool = steps[k].tool => i = k
         /\ Len(steps) <= 5 /\ Len(steps) < MaxLength("steps")
<1>0. Len(steps) \in Nat /\ DOMAIN steps = 1..Len(steps)
  OBVIOUS
<1>1. ASSUME NEW i \in DOMAIN steps
      PROVE  steps[i].tool \in ToolNames /\ steps[i].tool \notin attempted(SubSeq(steps, 1, i - 1))
  <2> DEFINE before == SubSeq(steps, 1, i - 1)
  <2>1. CASE steps[i].tool = nextMockDecision(trigger, before)
    BY <2>1, MockOK
  <2>2. ASSUME NEW a \in Judgements, NEW c \in Seen, steps[i].tool = nextSemanticDecision(trigger, before, a, c)
        PROVE  steps[i].tool \in ToolNames /\ steps[i].tool \notin attempted(before)
    BY <2>2, SemanticOK
  <2> QED BY <2>1, <2>2
<1>2. ASSUME NEW i \in DOMAIN steps, NEW k \in DOMAIN steps, k < i
      PROVE  steps[i].tool # steps[k].tool
  <2> DEFINE before == SubSeq(steps, 1, i - 1)
  <2>1. i \in 1..Len(steps) /\ k \in 1..(i - 1) /\ i - 1 \in Nat
    BY <1>0, <1>2
  <2>2. DOMAIN before = 1..(i - 1) /\ before[k] = steps[k]
    BY <1>0, <2>1
  <2>3. steps[k].tool \in attempted(before)
    <3> HIDE DEF before
    <3> QED BY <2>1, <2>2 DEF attempted
  <2> QED BY <1>1, <2>3
<1>3. \A i, k \in DOMAIN steps : steps[i].tool = steps[k].tool => i = k
  <2> SUFFICES ASSUME NEW i \in DOMAIN steps, NEW k \in DOMAIN steps, i # k PROVE steps[i].tool # steps[k].tool
    OBVIOUS
  <2>1. i < k \/ k < i
    BY <1>0
  <2> QED BY <1>2, <2>1
<1> DEFINE tools == [i \in 1..Len(steps) |-> steps[i].tool]
<1>4. IsFiniteSet(ToolNames) /\ Cardinality(ToolNames) = 5
  <2> DEFINE A == {"get_journey_context"}
             B == A \cup {"send_check_in"}
             C == B \cup {"request_human_relay"}
             D == C \cup {"notify_trusted_contact"}
  <2>1. IsFiniteSet(A) /\ Cardinality(A) = 1
    BY FS_Singleton
  <2>6. ToolNames = D \cup {"schedule_follow_up"}
    BY DEF ToolNames
  <2>7. "send_check_in" \notin A /\ "request_human_relay" \notin B /\ "notify_trusted_contact" \notin C /\ "schedule_follow_up" \notin D
    OBVIOUS
  <2>2. IsFiniteSet(B) /\ Cardinality(B) = 2
    <3>1. IsFiniteSet(A \cup {"send_check_in"}) /\ Cardinality(A \cup {"send_check_in"}) = Cardinality(A) + 1
      <4> HIDE DEF A, B, C, D
      <4> QED BY <2>1, <2>7, FS_AddElement
    <3> QED BY <2>1, <3>1
  <2>3. IsFiniteSet(C) /\ Cardinality(C) = 3
    <3>1. IsFiniteSet(B \cup {"request_human_relay"}) /\ Cardinality(B \cup {"request_human_relay"}) = Cardinality(B) + 1
      <4> HIDE DEF A, B, C, D
      <4> QED BY <2>2, <2>7, FS_AddElement
    <3> QED BY <2>2, <3>1
  <2>4. IsFiniteSet(D) /\ Cardinality(D) = 4
    <3>1. IsFiniteSet(C \cup {"notify_trusted_contact"}) /\ Cardinality(C \cup {"notify_trusted_contact"}) = Cardinality(C) + 1
      <4> HIDE DEF A, B, C, D
      <4> QED BY <2>3, <2>7, FS_AddElement
    <3> QED BY <2>3, <3>1
  <2>5. IsFiniteSet(D \cup {"schedule_follow_up"}) /\ Cardinality(D \cup {"schedule_follow_up"}) = 5
    <3>1. IsFiniteSet(D \cup {"schedule_follow_up"}) /\ Cardinality(D \cup {"schedule_follow_up"}) = Cardinality(D) + 1
      <4> HIDE DEF A, B, C, D
      <4> QED BY <2>4, <2>7, FS_AddElement
    <3> QED BY <2>4, <3>1
  <2> QED BY <2>5, <2>6
<1>5. Len(steps) <= 5
  <2>1. tools \in Injection(1..Len(steps), ToolNames)
    BY <1>0, <1>1, <1>3 DEF Injection, IsInjective
  <2>2. Cardinality(1..Len(steps)) = Len(steps)
    <3>1. 1 \in Int /\ Len(steps) \in Int
      BY <1>0
    <3>2. Cardinality(1..Len(steps)) = IF 1 > Len(steps) THEN 0 ELSE Len(steps) - 1 + 1
      BY <3>1, FS_Interval
    <3> QED BY <1>0, <3>2
  <2>3. Cardinality(1..Len(steps)) <= Cardinality(ToolNames)
    BY <1>4, <2>1, FS_Injection
  <2> QED BY <1>4, <2>2, <2>3
<1> QED BY <1>0, <1>3, <1>5 DEF MaxLength

LEMMA NothingIn == ASSUME NEW S, NEW s \in Seq(S), DOMAIN s = {} PROVE s = <<>>
<1>1. Len(s) \in Nat /\ DOMAIN s = 1..Len(s)
  OBVIOUS
<1>2. 1 \notin 1..Len(s)
  BY <1>1
<1>3. Len(s) = 0
  BY <1>1, <1>2
<1> QED BY <1>3

(* A plan and its executor agree: what either planner proposes on what the *)
(* run read is not refused, nor a second notice, on the journey as it is   *)
(* when the executor gets to it, if nothing changed that agentContext-     *)
(* Changed looks at and the journey is still under automated guarding.     *)
(* Had that comparison missed what a tool depends on, a plan would fail    *)
(* halfway.                                                                *)
LEMMA NoneYet ==
  ASSUME NEW j, j.notifications \in Seq(Notification), latest(j.notifications, 5) = <<>>
  PROVE  j.notifications = <<>>
<1> DEFINE s == j.notifications
           from == IF Len(s) > 5 THEN Len(s) - 5 + 1 ELSE 1
<1>1. Len(s) \in Nat /\ from \in Nat /\ from >= 1
  OBVIOUS
<1>2. SubSeq(s, from, Len(s)) = <<>>
  BY DEF latest
<1>3. DOMAIN SubSeq(s, from, Len(s)) = 1..(Len(s) - from + 1)
  <2> HIDE DEF from
  <2> QED BY <1>1
<1>4. Len(s) - from + 1 <= 0
  <2> HIDE DEF from
  <2>1. DOMAIN <<>> = {}
    OBVIOUS
  <2>2. 1 \notin 1..(Len(s) - from + 1)
    BY <1>2, <1>3, <2>1
  <2> QED BY <1>1, <2>2
<1>5. Len(s) = 0
  BY <1>1, <1>4
<1> QED BY <1>5

THEOREM NothingProposedIsRefused ==
  ASSUME NEW j \in Trip, NEW now \in Nat, NEW read \in Trip, NEW readAt \in Nat, NEW trigger, NEW a, NEW c, NEW steps,
         NEW run, run.local \in BOOLEAN, run.usable, NEW tool, tool \notin {"complete", "throws"},
         j.status = "active", j.guardMode = "ai", ~agentContextChanged(agentContext(read, readAt), agentContext(j, now)),
         \/ /\ ~run.local /\ tool = nextMockDecision(trigger, steps)
            /\ contextSteps(steps) # {} =>
                 /\ \E i \in contextSteps(steps) : steps[i] = lastRead(steps)
                 /\ lastRead(steps).context \in {NoContext, agentContext(read, readAt)}
         \/ contextRead(steps) /\ tool = nextSemanticDecision(trigger, steps, a, c)
  PROVE  executeAgentTool(j, tool, steps, run, now).code \notin Refusals \cup {"notification_already_exists"}
<1> DEFINE before == agentContext(read, readAt)
           after == agentContext(j, now)
<1>1. requestRelay(j, now).code \notin Refusals \cup {"notification_already_exists"}
  BY DEF requestRelay, outcome, Refusals
<1>0. /\ sendCheckIn(j, run, now).code = "check_in_posted"
      /\ \A due : scheduleFollowUp(j, due).code = "follow_up_scheduled"
  BY DEF sendCheckIn, scheduleFollowUp, outcome
<1>2. CASE contextRead(steps) /\ tool = nextSemanticDecision(trigger, steps, a, c)
  <2>1. tool \in {"send_check_in", "schedule_follow_up", "request_human_relay"}
    BY <1>2, SemanticOK
  <2> QED BY <1>0, <1>1, <1>2, <2>1 DEF executeAgentTool, Refusals
<1>3. CASE /\ ~run.local /\ tool = nextMockDecision(trigger, steps)
           /\ contextSteps(steps) # {} =>
                /\ \E i \in contextSteps(steps) : steps[i] = lastRead(steps)
                /\ lastRead(steps).context \in {NoContext, before}
  <2> HIDE DEF before
  <2>1. \/ tool = "get_journey_context"
        \/ /\ contextSteps(steps) # {} /\ succeeded(lastRead(steps)) /\ lastRead(steps).context # NoContext
           /\ tool \in buildPlan(trigger, lastRead(steps).context)
    BY <1>3, MockOK
  <2>2. CASE tool = "get_journey_context"
    BY <1>3, <2>2 DEF executeAgentTool, outcome, Refusals
  <2>3. CASE /\ contextSteps(steps) # {} /\ succeeded(lastRead(steps)) /\ lastRead(steps).context # NoContext
             /\ tool \in buildPlan(trigger, lastRead(steps).context)
    <3>1. contextRead(steps) /\ tool \in buildPlan(trigger, before)
      BY <1>3, <2>3 DEF contextRead, succeeded
    <3>2. CASE tool \in {"send_check_in", "schedule_follow_up", "request_human_relay"}
      BY <1>0, <1>1, <1>3, <3>1, <3>2 DEF executeAgentTool, Refusals
    <3>3. CASE tool = "notify_trusted_contact"
      <4>1. before.notificationAuthorized /\ before.contactAvailable /\ before.notifications = <<>>
        BY <3>1, <3>3 DEF buildPlan
      <4>2. /\ before.notificationAuthorized = after.notificationAuthorized /\ before.contactAvailable = after.contactAvailable
            /\ noticed(before) = noticed(after)
        BY DEF agentContextChanged, before
      <4>3. notificationAuthorized(j) /\ j.contact
        BY <4>1, <4>2 DEF agentContext, Trip
      <4>4. after.notifications = latest(j.notifications, 5) /\ j.notifications \in Seq(Notification)
        BY DEF agentContext, Trip
      <4>5. DOMAIN noticed(before) = {} /\ DOMAIN noticed(after) = DOMAIN after.notifications
        BY <4>1 DEF noticed
      <4>6. after.notifications = <<>>
        <5>1. after.notifications \in Seq(Notification)
          BY <4>4 DEF latest
        <5>2. DOMAIN after.notifications = {}
          BY <4>2, <4>5
        <5> QED BY <5>1, <5>2, NothingIn
      <4>7. j.notifications = <<>>
        BY <4>4, <4>6, NoneYet
      <4>8. notifyContact(j, run.messageId, now).code \in {"notification_queued", "notification_rate_limited"}
        BY <4>3, <4>7 DEF notifyContact, outcome
      <4> QED BY <1>3, <3>1, <3>3, <4>8 DEF executeAgentTool, Refusals
    <3> QED BY <3>1, <3>2, <3>3 DEF buildPlan
  <2> QED BY <2>1, <2>2, <2>3
<1> QED BY <1>2, <1>3

(* What a tool may do to a journey: of what decides about it or about      *)
(* consent nothing.                                                        *)
Deciding(j) == <<j.status, j.guardMode, j.guardian, j.risk, j.cause, j.contact, j.concerns, j.aiConsent,
                 j.automatedCheckIns, j.timeoutContact>>
Permitted(j, run, done) ==
  /\ done.code \in Refusals => done.trip = j
  /\ Deciding(done.trip) = Deciding(j)
  /\ done.trip.followUpAt # j.followUpAt =>
       /\ j.followUpAt = Unset \/ done.trip.followUpAt < j.followUpAt
       /\ j.aiNextCheckInAt = Unset \/ done.trip.followUpAt <= j.aiNextCheckInAt
  /\ done.trip.relayUntil # j.relayUntil => j.relayUntil = 0 /\ j.status = "active" /\ ~j.demo
  /\ done.trip.notifications # j.notifications =>
       j.notifications = <<>> /\ j.contact /\ notificationAuthorized(j) /\ ~run.local

(* What a tool does, whoever chose it and whatever the journey has become  *)
(* (executeAgentTool): a refusal changes nothing; neither risk nor         *)
(* guardian nor what the rider allowed is changed; a follow-up is never    *)
(* put off, nor behind the next automated check-in; an open relay stays as *)
(* it is; and a notice is queued only as the first, if the rider named a   *)
(* contact and a cause that authorizes it stands, and never by an imported *)
(* result.                                                                 *)
THEOREM ToolsKeepAuthority ==
  ASSUME NEW j \in Trip, NEW tool \in ToolNames, NEW steps, NEW run, run.delay \in Nat, NEW now \in Nat
  PROVE  Permitted(j, run, executeAgentTool(j, tool, steps, run, now))
<1> DEFINE done == executeAgentTool(j, tool, steps, run, now)
<1>1. CASE done.trip = j
  BY <1>1 DEF Permitted
<1>2. CASE done = sendCheckIn(j, run, now)
  <2> DEFINE messages == Append(j.messages, [id |-> run.messageId, at |-> now, role |-> "agent", sender |-> Nobody, text |-> run.text])
             by == IF j.risk = "urgent" THEN j.assessedBy ELSE mode(run)
  <2>1. done.trip = [j EXCEPT !.messages = messages, !.assessedBy = by]
    BY <1>2 DEF sendCheckIn, outcome
  <2>2. done.code \notin Refusals
    BY <1>2 DEF sendCheckIn, outcome, Refusals
  <2> HIDE DEF done, messages, by
  <2>3. /\ done.trip.followUpAt = j.followUpAt /\ done.trip.relayUntil = j.relayUntil /\ done.trip.notifications = j.notifications
        /\ Deciding(done.trip) = Deciding(j)
    BY <2>1 DEF Trip, Deciding
  <2> QED BY <2>2, <2>3 DEF Permitted, done
<1>3. CASE done = scheduleFollowUp(j, now + run.delay)
  <2>1. PICK due : due = sooner(j.aiNextCheckInAt, sooner(j.followUpAt, now + run.delay)) /\ done.trip = [j EXCEPT !.followUpAt = due]
    BY <1>3 DEF scheduleFollowUp, outcome
  <2>2. done.code \notin Refusals
    BY <1>3 DEF scheduleFollowUp, outcome, Refusals
  <2>3. j.followUpAt \in Nat \cup {Unset} /\ j.aiNextCheckInAt \in Nat \cup {Unset} /\ now + run.delay \in Nat
    BY DEF Trip
  <2> HIDE DEF done
  <2>4. /\ done.trip.followUpAt = due /\ done.trip.relayUntil = j.relayUntil /\ done.trip.notifications = j.notifications
        /\ Deciding(done.trip) = Deciding(j)
    BY <2>1 DEF Trip, Deciding
  <2>5. due # j.followUpAt =>
          /\ j.followUpAt = Unset \/ due < j.followUpAt
          /\ j.aiNextCheckInAt = Unset \/ due <= j.aiNextCheckInAt
    BY <2>1, <2>3 DEF sooner, Unset
  <2> QED BY <2>2, <2>4, <2>5 DEF Permitted, done
<1>4. CASE done = requestRelay(j, now) /\ done.trip # j
  <2>1. done = outcome("relay_requested", openRelay(j, now))
    BY <1>4 DEF requestRelay, outcome
  <2>2. done.trip = openRelay(j, now) /\ done.code = "relay_requested"
    BY <2>1 DEF outcome
  <2>3. /\ ~j.demo /\ j.status = "active" /\ j.relayUntil = 0
        /\ done.trip = [j EXCEPT !.guardianRequests = {}, !.relayUntil = now + RelayLasts]
    BY <1>4, <2>2 DEF openRelay
  <2> HIDE DEF done
  <2>4. /\ done.trip.followUpAt = j.followUpAt /\ done.trip.notifications = j.notifications
        /\ Deciding(done.trip) = Deciding(j)
    BY <2>3 DEF Trip, Deciding
  <2> QED BY <2>2, <2>3, <2>4 DEF Permitted, Refusals, done
<1>5. CASE ~run.local /\ done = notifyContact(j, run.messageId, now) /\ done.trip # j
  <2>1. /\ j.contact /\ notificationAuthorized(j) /\ j.notifications = <<>>
        /\ done.trip = queueNotification(j, run.messageId, now)
        /\ done.code \in {"notification_queued", "notification_rate_limited"}
    BY <1>5 DEF notifyContact, outcome
  <2>2. PICK notices : done.trip = [j EXCEPT !.lastNotificationAt = now, !.notifications = notices]
    BY <1>5, <2>1 DEF queueNotification
  <2> HIDE DEF done
  <2>3. /\ done.trip.followUpAt = j.followUpAt /\ done.trip.relayUntil = j.relayUntil
        /\ Deciding(done.trip) = Deciding(j)
    BY <2>2 DEF Trip, Deciding
  <2> QED BY <1>5, <2>1, <2>3 DEF Permitted, Refusals, done
<1>6. \/ done.trip = j \/ done = sendCheckIn(j, run, now) \/ done = scheduleFollowUp(j, now + run.delay)
      \/ done = requestRelay(j, now) \/ (~run.local /\ done = notifyContact(j, run.messageId, now))
  <2> DEFINE unmet == tool # "get_journey_context" /\ ~contextRead(steps)
  <2>1. CASE run.local /\ (tool = "notify_trusted_contact" \/ ~run.usable)
    BY <2>1 DEF executeAgentTool, outcome
  <2>3. CASE ~(run.local /\ (tool = "notify_trusted_contact" \/ ~run.usable)) /\ unmet
    BY <2>3 DEF executeAgentTool, outcome
  <2>2. CASE ~(run.local /\ (tool = "notify_trusted_contact" \/ ~run.usable)) /\ ~unmet
    <3> HIDE DEF unmet
    <3>1. done = CASE tool = "get_journey_context" -> outcome("context_read", j)
                   [] tool = "send_check_in" -> sendCheckIn(j, run, now)
                   [] tool = "schedule_follow_up" -> scheduleFollowUp(j, now + run.delay)
                   [] tool = "request_human_relay" -> requestRelay(j, now)
                   [] tool = "notify_trusted_contact" -> notifyContact(j, run.messageId, now)
      BY <2>2 DEF executeAgentTool, unmet
    <3> HIDE DEF done
    <3>2. CASE tool = "get_journey_context"
      BY <3>1, <3>2 DEF outcome
    <3>3. CASE tool = "notify_trusted_contact"
      BY <2>2, <3>1, <3>3
    <3>4. CASE tool \in {"send_check_in", "schedule_follow_up", "request_human_relay"}
      BY <3>1, <3>4
    <3> QED BY <3>2, <3>3, <3>4 DEF ToolNames
  <2> QED BY <2>1, <2>2, <2>3
<1> QED BY <1>1, <1>2, <1>3, <1>4, <1>5, <1>6

(***************************************************************************)
(* What is said.                                                           *)
(***************************************************************************)
LEMMA FirstWording ==
  ASSUME NEW trigger, NEW c, renderAgentCheckIn(trigger, c).wording = "reassurance"
  PROVE  ~concerned(c) /\ ~urgent(c) /\ says(c, okayPattern)
<1> DEFINE w == wordings(trigger, c)
           first(i) == w[i][2] /\ \A k \in 1..(i - 1) : ~w[k][2]
           i == CHOOSE n \in DOMAIN w : first(n)
<1> DEFINE safe == ~concerned(c) /\ ~urgent(c) /\ says(c, okayPattern)
<1>1. DOMAIN w = 1..10
  BY DEF wordings
<1>9. w[10][2]
  BY DEF wordings
<1>10. w[8][2] => safe
  BY DEF wordings
<1>2. /\ w[1][1] # "reassurance" /\ w[2][1] # "reassurance" /\ w[3][1] # "reassurance" /\ w[4][1] # "reassurance"
      /\ w[5][1] # "reassurance" /\ w[6][1] # "reassurance" /\ w[7][1] # "reassurance"
      /\ w[9][1] # "reassurance" /\ w[10][1] # "reassurance"
  BY DEF wordings
<1>3. \E n \in 1..10 : first(n)
  <2> HIDE DEF w
  <2>1. CASE w[1][2]
    <3>1. first(1)
      BY <2>1
    <3> QED BY <3>1
  <2>2. CASE ~w[1][2] /\ w[2][2]
    <3>1. first(2)
      BY <2>2
    <3> QED BY <3>1
  <2>3. CASE ~w[1][2] /\ ~w[2][2] /\ w[3][2]
    <3>1. first(3)
      BY <2>3
    <3> QED BY <3>1
  <2>4. CASE ~w[1][2] /\ ~w[2][2] /\ ~w[3][2] /\ w[4][2]
    <3>1. first(4)
      BY <2>4
    <3> QED BY <3>1
  <2>5. CASE ~w[1][2] /\ ~w[2][2] /\ ~w[3][2] /\ ~w[4][2] /\ w[5][2]
    <3>1. first(5)
      BY <2>5
    <3> QED BY <3>1
  <2>6. CASE ~w[1][2] /\ ~w[2][2] /\ ~w[3][2] /\ ~w[4][2] /\ ~w[5][2] /\ w[6][2]
    <3>1. first(6)
      BY <2>6
    <3> QED BY <3>1
  <2>7. CASE ~w[1][2] /\ ~w[2][2] /\ ~w[3][2] /\ ~w[4][2] /\ ~w[5][2] /\ ~w[6][2] /\ w[7][2]
    <3>1. first(7)
      BY <2>7
    <3> QED BY <3>1
  <2>8. CASE ~w[1][2] /\ ~w[2][2] /\ ~w[3][2] /\ ~w[4][2] /\ ~w[5][2] /\ ~w[6][2] /\ ~w[7][2] /\ w[8][2]
    <3>1. first(8)
      BY <2>8
    <3> QED BY <3>1
  <2>9. CASE ~w[1][2] /\ ~w[2][2] /\ ~w[3][2] /\ ~w[4][2] /\ ~w[5][2] /\ ~w[6][2] /\ ~w[7][2] /\ ~w[8][2] /\ w[9][2]
    <3>1. first(9)
      BY <2>9
    <3> QED BY <3>1
  <2>10. CASE ~w[1][2] /\ ~w[2][2] /\ ~w[3][2] /\ ~w[4][2] /\ ~w[5][2] /\ ~w[6][2] /\ ~w[7][2] /\ ~w[8][2] /\ ~w[9][2]
    <3>1. first(10)
      BY <1>9, <2>10
    <3> QED BY <3>1
  <2> QED BY <2>1, <2>2, <2>3, <2>4, <2>5, <2>6, <2>7, <2>8, <2>9, <2>10
<1>4. i \in 1..10 /\ first(i)
  <2> HIDE DEF first, w
  <2> QED BY <1>1, <1>3
<1>5. w[i][1] = "reassurance"
  BY DEF renderAgentCheckIn
<1>6. i = 8
  <2> HIDE DEF i, w
  <2> QED BY <1>2, <1>4, <1>5
<1>7. w[8][2]
  <2> HIDE DEF i, w
  <2> QED BY <1>4, <1>6
<1> QED BY <1>7, <1>10

(* Reassurance is quoted only if nothing speaks against it: no concern is  *)
(* retained, the risk is not urgent, and the rider's newest words in the   *)
(* window reassure, while everything of concern that the rider said up to  *)
(* now is older.  As the code has it, neither the order of the list, nor   *)
(* stale reassurance, nor a time in the future overrides a newer concern.  *)
THEOREM ReassuranceYields ==
  ASSUME NEW trigger, NEW c, Window \in Nat, c.now \in Nat, \A m \in ElementsOf(c.messages) : m.at \in Nat,
         renderAgentCheckIn(trigger, c).wording = "reassurance"
  PROVE  /\ c.unresolvedConcerns = <<>> /\ c.risk # "urgent"
         /\ \E m \in ElementsOf(c.messages) :
              /\ m.role = "rider" /\ m.text \in okayPattern /\ m.at <= c.now /\ c.now - m.at <= Window
              /\ \A n \in ElementsOf(c.messages) :
                   n.role = "rider" /\ n.text \in concernPattern \cup urgentPattern /\ n.at <= c.now => n.at < m.at
<1>1. ~concerned(c) /\ ~urgent(c) /\ says(c, okayPattern)
  BY FirstWording
<1>2. PICK m \in tied(c) : m.text \in okayPattern
  BY <1>1 DEF says
<1>3. m \in recentRiderMessages(c) /\ \A n \in recentRiderMessages(c) : n.at <= m.at
  BY DEF tied
<1>4. m \in ElementsOf(c.messages) /\ m.role = "rider" /\ m.at <= c.now /\ c.now - m.at <= Window /\ m.at \in Nat
  BY <1>3 DEF recentRiderMessages
<1>5. ASSUME NEW n \in ElementsOf(c.messages), n.role = "rider", n.text \in concernPattern \cup urgentPattern, n.at <= c.now
      PROVE  n.at < m.at
  <2> SUFFICES ASSUME m.at <= n.at PROVE FALSE
    BY <1>4
  <2>1. n.at \in Nat /\ c.now - n.at <= Window
    BY <1>4, <1>5
  <2>2. n \in recentRiderMessages(c)
    BY <1>5, <2>1 DEF recentRiderMessages
  <2>3. n.at = m.at
    BY <1>3, <1>4, <2>1, <2>2
  <2>4. n \in tied(c)
    BY <1>3, <2>2, <2>3 DEF tied
  <2> QED BY <1>1, <1>5, <2>4 DEF concerned, urgent, says
<1>6. c.unresolvedConcerns = <<>> /\ c.risk # "urgent"
  BY <1>1 DEF concerned, urgent
<1> QED BY <1>2, <1>4, <1>5, <1>6

(* What an accepted interpretation cites, and so whatever is said and done *)
(* on its ground, was said by a current participant who agreed that a      *)
(* model reads it; and concerns are cited only if the rider agreed.        *)
THEOREM CitesOnlyConsenting ==
  ASSUME NEW j \in Trip, NEW c, "messages" \in DOMAIN c, "unresolvedConcerns" \in DOMAIN c, NEW a, NEW now,
         validateSemanticAssessment(a, liveAiContext(j, c), now), NEW id \in citedBy(a)
  PROVE  /\ id[1] = "message" => \E i \in DOMAIN j.messages :
              /\ j.messages[i].id = id[2] /\ j.messages[i].sender \in {j.rider, j.guardian} \cap j.aiConsent
         /\ id[1] = "concern" => j.rider \in j.aiConsent
<1> DEFINE live == liveAiContext(j, c)
           from == {k \in spoken(j) : Cardinality({l \in spoken(j) : l >= k}) <= 12}
<1>1. PICK s \in sourceMap(live, now) : s.id = id
  BY DEF validateSemanticAssessment, citedBy
<1>2. s \in said(live)
  BY DEF sourceMap, offered
<1>3. /\ live.messages = [i \in from |-> shown(j.messages[i])]
      /\ live.unresolvedConcerns = IF participantAiConsent(j, j.rider) THEN concernsShown(c.unresolvedConcerns) ELSE <<>>
  BY DEF liveAiContext
<1> HIDE DEF live
<1>4. CASE \E m \in ElementsOf(live.messages) : s.id = <<"message", m.id>>
  <2>0. DOMAIN live.messages = from /\ \A i \in from : live.messages[i] = shown(j.messages[i])
    BY <1>3
  <2>1. PICK i \in from : s.id = <<"message", shown(j.messages[i]).id>>
    <3>1. PICK i \in DOMAIN live.messages : s.id = <<"message", live.messages[i].id>>
      BY <1>4 DEF ElementsOf
    <3> HIDE DEF from
    <3> QED BY <2>0, <3>1
  <2>2. i \in DOMAIN j.messages /\ speaks(j, j.messages[i])
    BY DEF spoken
  <2> QED BY <1>1, <2>1, <2>2 DEF speaks, participantAiConsent, shown
<1>5. CASE \E k \in ElementsOf(live.unresolvedConcerns) : s.id = <<"concern", k.id>>
  <2>1. live.unresolvedConcerns # <<>>
    BY <1>5 DEF ElementsOf
  <2>2. id[1] = "concern"
    BY <1>1, <1>5
  <2> QED BY <1>3, <2>1, <2>2 DEF participantAiConsent
<1>6. \/ \E m \in ElementsOf(live.messages) : s.id = <<"message", m.id>>
      \/ \E k \in ElementsOf(live.unresolvedConcerns) : s.id = <<"concern", k.id>>
  <2>1. CASE \E m \in {n \in ElementsOf(live.messages) : n.role \in {"rider", "guardian"}} :
                s = [id |-> <<"message", m.id>>, kind |-> "message", role |-> m.role, observedAt |-> m.at, receivedAt |-> m.at, text |-> m.text]
    BY <2>1
  <2>2. CASE \E k \in ElementsOf(live.unresolvedConcerns) :
                s = [id |-> <<"concern", k.id>>, kind |-> "concern", role |-> "rider", observedAt |-> k.observedAt,
                     receivedAt |-> k.receivedAt, text |-> k.text]
    BY <2>2
  <2> QED BY <1>2, <2>1, <2>2 DEF said
<1> QED BY <1>4, <1>5, <1>6

(* The room that quotes share is what the rest leaves, so the handoff that *)
(* is rendered from an accepted interpretation fits where it is stored,    *)
(* with 74 characters or more of every source; and no question loses its   *)
(* end, which says that the quote is not a fact, when it is cut to what a  *)
(* check-in may hold.                                                      *)
THEOREM RenderingsFit ==
  ASSUME NEW a, semanticAssessmentSchema(a), IsFiniteSet(citedBy(a)), NEW fixed \in Nat,
         fixed <= HeaderLength + FooterLength + Cardinality(citedBy(a)) * (SourceLength + 1),
         NEW prefix \in Nat, prefix <= QuestionLength
  PROVE  /\ renderSemanticHandoff(Cardinality(citedBy(a)), fixed) <= HandoffLimit
         /\ citedBy(a) # {} => quoteRoom(Cardinality(citedBy(a)), fixed) >= 74
         /\ renderSemanticQuestion(a.question, prefix) <= CheckInLimit
<1> DEFINE n == Cardinality(citedBy(a))
<1>1. n \in Nat /\ n <= 8
  BY FS_CardinalityType DEF semanticAssessmentSchema, citedBy
<1>2. citedBy(a) # {} => n # 0
  BY FS_EmptySet
<1>3. renderSemanticQuestion(a.question, prefix) <= CheckInLimit
  BY DEF renderSemanticQuestion, quoteExcerpt, QuestionLength, QuestionSuffix, CheckInLimit
<1>4. fixed <= 540 + n * 358
  BY DEF HeaderLength, FooterLength, SourceLength
<1> HIDE DEF n
<1>5. n \in 0..8
  BY <1>1
<1>6. ASSUME NEW k \in 1..8, n = k PROVE renderSemanticHandoff(k, fixed) <= HandoffLimit /\ quoteRoom(k, fixed) >= 74
  <2> DEFINE share == (4000 - fixed) \div k
  <2>1. share \in Int /\ k * share <= 4000 - fixed /\ share >= 74
    <3>1. k = 1 \/ k = 2 \/ k = 3 \/ k = 4 \/ k = 5 \/ k = 6 \/ k = 7 \/ k = 8
      OBVIOUS
    <3> QED BY <1>4, <1>6, <3>1
  <2> HIDE DEF share
  <2>2. quoteRoom(k, fixed) = IF share < 122 THEN share ELSE 122
    BY DEF quoteRoom, HandoffLimit, share
  <2>3. quoteRoom(k, fixed) \in Int /\ quoteRoom(k, fixed) <= share /\ quoteRoom(k, fixed) >= 74
    BY <2>1, <2>2
  <2>4. renderSemanticHandoff(k, fixed) = fixed + k * quoteRoom(k, fixed)
    BY <2>3 DEF renderSemanticHandoff, quoteExcerpt
  <2>5. k * quoteRoom(k, fixed) <= k * share
    <3>1. k = 1 \/ k = 2 \/ k = 3 \/ k = 4 \/ k = 5 \/ k = 6 \/ k = 7 \/ k = 8
      OBVIOUS
    <3> HIDE DEF share
    <3> QED BY <2>1, <2>3, <3>1
  <2>6. k * share \in Int /\ k * quoteRoom(k, fixed) \in Int
    BY <2>1, <2>3
  <2> QED BY <2>1, <2>3, <2>4, <2>5, <2>6 DEF HandoffLimit
<1>7. CASE n = 0
  BY <1>2, <1>3, <1>4, <1>7 DEF renderSemanticHandoff, HandoffLimit, n
<1>8. CASE n \in 1..8
  BY <1>3, <1>6, <1>8 DEF n
<1> QED BY <1>5, <1>7, <1>8
=============================================================================
