----------------------------- MODULE ChainSync -----------------------------
(***************************************************************************)
(* A linked journey between its three homes: the account of the Solana     *)
(* program safety-guard-v2, the outbox that ChainJourney                   *)
(* (src/worker/src/chain-sync.ts) keeps of the transactions its members    *)
(* sign, and the journey's room (trips.ts), where access changes hands     *)
(* only on what is finalized.  The cluster and the program are external:   *)
(* SafetyGuardV2 has the program itself.  authorize is one step, as old as *)
(* the last of the answers it waits for.  Contributions and claims, which  *)
(* the same snapshots carry, are left to RewardSettlement.                 *)
(***************************************************************************)
EXTENDS Integers, Sequences, FiniteSets, TLC

CONSTANTS
  Guardians, NoOne,
  Callers,         \* calls of prepare and submit under way
  MaxIntents,      \* bound: transactions prepared, one fewer from the later initial state
  MaxApplications, \* bound
  EventsNew, EventsAccepted \* bounds: choices, delays and failures from either of the initial states

VARIABLES
  program,  \* every finalized version of the program's account; its index stands for the slot
  binding,  \* ChainBinding: snapshot (an index), proposal (an application), members, lease
  intents,  \* the outbox, in the order prepared
  cluster,  \* what became of each intent's transaction
  room,     \* the room: status, guardian, applications, chainSlot, chainSequence
  barred,   \* guardians suspended or deleted
  call,     \* prepare and submit under way; stale: their copy of the binding is no longer the stored one
  sync,     \* the one reconciliation under way
  applying, \* applyChainSnapshot calls under way in the room
  events    \* choices, delays and failures still to come

vars == <<program, binding, intents, cluster, room, barred, call, sync, applying, events>>
Happens == events > 0 /\ events' = events - 1

Idle == [at |-> "idle"]
Operations == {"create", "propose", "cancel-proposal", "accept", "complete", "cancel"}
Settled == {"confirmed", "failed", "expired"}
Last(s) == s[Len(s)]
snapshot == program[binding.slot]
closed == room.status \in {"arrived", "cancelled"}

(* A journey that is not on chain yet, or one whose first guardian has just *)
(* accepted on chain: the room is being told.                               *)
unmade == [state |-> "uncreated", guardian |-> NoOne, proposed |-> NoOne, revision |-> 0, sequence |-> 0]
Init ==
  /\ \/ /\ program = <<unmade>> /\ events = EventsNew
        /\ binding = [slot |-> 1, proposal |-> 0, members |-> {}, lease |-> NoOne, leaseOver |-> FALSE]
        /\ room = [status |-> "going", guardian |-> NoOne, applications |-> <<>>, slot |-> 0, sequence |-> 0]
        /\ sync = Idle /\ applying = {}
     \/ \E g \in Guardians :
        /\ program = << [unmade EXCEPT !.state = "active", !.guardian = g, !.revision = 2, !.sequence = 1] >>
        /\ events = EventsAccepted
        /\ binding = [slot |-> 1, proposal |-> 1, members |-> {g}, lease |-> NoOne, leaseOver |-> FALSE]
        /\ room = [status |-> "going", guardian |-> NoOne, slot |-> 0, sequence |-> 0,
                   applications |-> << [who |-> g, pending |-> TRUE, consent |-> "kept"] >>]
        /\ sync = [at |-> "applying", slot |-> 1]
        /\ applying = {[at |-> "sent", slot |-> 1, app |-> 1, members |-> {g}]}
  /\ intents = <<>> /\ cluster = <<>> /\ barred = {}
  /\ call = [c \in Callers |-> Idle]

-----------------------------------------------------------------------------
(* External: the program, the cluster, and wallets used without the application. *)
takes(a, i) ==
  /\ i.revision = a.revision
  /\ \/ i.op = "create" /\ a.state = "uncreated"
     \/ i.op = "propose" /\ a.state \in {"open", "active"} /\ i.who \notin {a.guardian, a.proposed}
     \/ i.op = "cancel-proposal" /\ a.state \in {"open", "active"} /\ a.proposed # NoOne
     \/ i.op = "accept" /\ a.state \in {"open", "active"} /\ i.who = a.proposed
     \/ i.op = "complete" /\ a.state = "active"
     \/ i.op = "cancel" /\ a.state \in {"open", "active"}
unproposed(a) == [a EXCEPT !.proposed = NoOne, !.revision = @ + 1]
taken(a, i) ==
  CASE i.op = "create" -> [a EXCEPT !.state = "open"]
    [] i.op = "propose" -> [a EXCEPT !.proposed = i.who, !.revision = @ + 1]
    [] i.op = "cancel-proposal" -> unproposed(a)
    [] i.op = "accept" -> [unproposed(a) EXCEPT !.state = "active", !.guardian = i.who, !.sequence = @ + 1]
    [] i.op = "complete" -> [unproposed(a) EXCEPT !.state = "completed"]
    [] i.op = "cancel" -> [unproposed(a) EXCEPT !.state = "cancelled"]

Becomes(i, tx) == cluster' = [cluster EXCEPT ![i].tx = tx]
Offchain == UNCHANGED <<binding, intents, room, barred, call, sync, applying>>
Include(i) == /\ cluster[i].tx = "sent" /\ ~cluster[i].passed /\ Becomes(i, "processed")
              /\ UNCHANGED <<program, events>> /\ Offchain
Fork(i) == /\ cluster[i].tx = "processed" /\ Becomes(i, "sent") /\ Happens /\ UNCHANGED program /\ Offchain
\* The program may also refuse for its clock or for want of check-ins.
Finalize(i, ok) ==
  /\ cluster[i].tx = "processed" /\ (ok => takes(Last(program), intents[i]))
  /\ Becomes(i, IF ok THEN "finalized" ELSE "rejected")
  /\ program' = IF ok THEN Append(program, taken(Last(program), intents[i])) ELSE program
  /\ UNCHANGED events /\ Offchain
\* The finalized height passes the last at which the transaction is valid.
Pass(i) == /\ intents[i].status = "submitted" /\ cluster[i].tx \in {"unsent", "sent"} /\ ~cluster[i].passed
           /\ cluster' = [cluster EXCEPT ![i].passed = TRUE] /\ UNCHANGED <<program, events>> /\ Offchain
Direct(op, g) ==
  LET i == [op |-> op, who |-> g, revision |-> Last(program).revision] IN
  /\ Happens /\ takes(Last(program), i)
  /\ program' = Append(program, taken(Last(program), i)) /\ UNCHANGED cluster /\ Offchain

-----------------------------------------------------------------------------
(* The room: applications (act, case accept), their withdrawal, refusal and *)
(* expiry, and what the outbox asks of it.                                  *)
Rooms == UNCHANGED <<program, binding, intents, cluster, call, sync, applying>>
Apply(g) ==
  /\ ~closed /\ g # room.guardian /\ Len(room.applications) < MaxApplications
  /\ \A n \in DOMAIN room.applications : room.applications[n].who = g => ~room.applications[n].pending
  /\ room' = [room EXCEPT !.applications = Append(@, [who |-> g, pending |-> TRUE, consent |-> "none"])]
  /\ Happens /\ UNCHANGED barred /\ Rooms
revoked(a) == [a EXCEPT !.pending = FALSE, !.consent = IF @ = "kept" THEN "revoked" ELSE @]
Withdraw(n) == /\ room.applications[n].pending /\ ~closed
               /\ room' = [room EXCEPT !.applications[n] = revoked(@)] /\ Happens /\ UNCHANGED barred /\ Rooms
CancelRelay == /\ ~closed /\ room.guardian # NoOne
               /\ room' = [room EXCEPT !.applications = [n \in DOMAIN @ |-> revoked(@[n])]]
               /\ Happens /\ UNCHANGED barred /\ Rooms
Expire(n) == /\ room.applications[n].pending
             /\ room' = [room EXCEPT !.applications[n].pending = FALSE] /\ Happens /\ UNCHANGED barred /\ Rooms
nonePending(as) == [n \in DOMAIN as |-> [as[n] EXCEPT !.pending = FALSE]]
Close(how) == /\ ~closed /\ (how = "arrived" => room.guardian # NoOne)
              /\ room' = [room EXCEPT !.status = how, !.applications = nonePending(@)]
              /\ Happens /\ UNCHANGED barred /\ Rooms
Bar(g) == barred' = barred \cup {g} /\ barred' # barred /\ Happens /\ UNCHANGED room /\ Rooms

reservable(n) == n \in DOMAIN room.applications /\ ~closed /\ room.applications[n].pending
available(n) == n \in DOMAIN room.applications /\ ~closed /\ room.applications[n].consent = "kept"

-----------------------------------------------------------------------------
(* prepare and submit.                                                      *)
authorize(op, who, app, again) ==
  /\ op \in {"create", "propose", "accept"} => ~closed
  /\ op = "complete" => room.status = "arrived"
  /\ op = "cancel" => room.status = "cancelled"
  /\ op = "create" => snapshot.state = "uncreated"
  /\ op \in {"propose", "accept"} => who \notin barred
  /\ op = "propose" => IF again THEN available(app) ELSE reservable(app)
  /\ op = "accept" => /\ available(binding.proposal) /\ room.applications[binding.proposal].who = who
                      /\ snapshot.proposed = who
waiting(i) == intents[i].status = "submitted" \/ (intents[i].status = "prepared" /\ ~intents[i].lapsed)
Chain == UNCHANGED <<program, barred, applying>>
Calls(c, w) == call' = [call EXCEPT ![c] = w]
\* save: every other call that compares updatedAt later has an old copy now.
Saved(b, calls) ==
  /\ binding' = b
  /\ call' = [c \in Callers |-> IF calls[c].at \in {"authorized", "signed"} THEN [calls[c] EXCEPT !.stale = TRUE] ELSE calls[c]]
Lapsed(is) == [i \in DOMAIN is |->
  IF is[i].status = "prepared" /\ is[i].lapsed THEN [is[i] EXCEPT !.status = "expired", !.lapsed = FALSE] ELSE is[i]]

BeginPrepare(c, op, who, app) ==
  /\ call[c] = Idle /\ Len(intents) < MaxIntents - (IF program[1] = unmade THEN 0 ELSE 1)
  /\ binding.lease = NoOne \/ binding.leaseOver
  /\ \A i \in DOMAIN intents : ~waiting(i)
  /\ authorize(op, who, app, FALSE)
  /\ Calls(c, [at |-> "authorized", op |-> op, who |-> who, app |-> app, stale |-> FALSE])
  /\ UNCHANGED <<binding, intents, cluster, room, sync, events>> /\ Chain

\* Mutant: the lease is taken whatever was saved meanwhile.
unchangedEver(c) == TRUE
unchanged(c) == ~call[c].stale
Lease(c) ==
  /\ call[c].at = "authorized"
  /\ LET w == call[c]
         reserves == w.op = "propose"
         proposal == IF reserves THEN w.app ELSE binding.proposal
     IN
     /\ room' = IF reserves /\ reservable(w.app)
                THEN [room EXCEPT !.applications[w.app].consent = "kept"] ELSE room
     /\ IF (reserves => reservable(w.app)) /\ unchanged(c)
        THEN Saved([binding EXCEPT !.proposal = proposal, !.lease = c, !.leaseOver = FALSE,
                      !.members = IF reserves THEN @ \cup {w.who} ELSE @],
                   [call EXCEPT ![c] = [at |-> "leased", op |-> w.op, who |-> w.who, app |-> w.app,
                                        seen |-> snapshot, proposal |-> proposal]])
        ELSE Calls(c, Idle) /\ UNCHANGED binding
  /\ UNCHANGED <<intents, cluster, sync, events>> /\ Chain
LeaseLapses == /\ binding.lease # NoOne /\ ~binding.leaseOver /\ Happens
               /\ binding' = [binding EXCEPT !.leaseOver = TRUE]
               /\ UNCHANGED <<intents, cluster, room, sync, call>> /\ Chain
released == [binding EXCEPT !.lease = NoOne, !.leaseOver = FALSE]
holdsLease(c) == binding.lease = c
Prepared(c, ok) ==
  /\ call[c].at = "leased"
  /\ IF ok THEN UNCHANGED events ELSE Happens
  /\ LET w == call[c] IN
     IF ok /\ authorize(w.op, w.who, w.app, TRUE) /\ holdsLease(c) /\ binding.proposal = w.proposal
        /\ \A f \in {"revision", "sequence", "state"} : snapshot[f] = w.seen[f]
     THEN /\ intents' = Append(Lapsed(intents), [op |-> w.op, who |-> w.who, revision |-> snapshot.revision,
                                                 status |-> "prepared", lapsed |-> FALSE])
          /\ cluster' = Append(cluster, [tx |-> "unsent", passed |-> FALSE])
          /\ Saved(released, [call EXCEPT ![c] = Idle])
     ELSE /\ UNCHANGED <<intents, cluster>>
          /\ IF binding.lease = c THEN Saved(released, [call EXCEPT ![c] = Idle]) ELSE Calls(c, Idle) /\ UNCHANGED binding
  /\ UNCHANGED <<room, sync>> /\ Chain

Lapse(i) == /\ intents[i].status = "prepared" /\ ~intents[i].lapsed
            /\ intents' = [intents EXCEPT ![i].lapsed = TRUE]
            /\ Happens /\ UNCHANGED <<binding, cluster, room, sync, call>> /\ Chain
Discard(i) == /\ intents[i].status = "prepared"
              /\ intents' = [intents EXCEPT ![i].status = "expired"] /\ Saved(binding, call)
              /\ Happens /\ UNCHANGED <<cluster, room, sync>> /\ Chain
BeginSubmit(c, i) ==
  /\ call[c] = Idle /\ intents[i].status = "prepared" /\ ~intents[i].lapsed
  /\ authorize(intents[i].op, intents[i].who, binding.proposal, TRUE)
  /\ Calls(c, [at |-> "signed", intent |-> i, stale |-> FALSE])
  /\ UNCHANGED <<binding, intents, cluster, room, sync, events>> /\ Chain
Submit(c) ==
  /\ call[c].at = "signed"
  /\ LET i == call[c].intent IN
     IF /\ intents[i].status = "prepared" /\ unchanged(c) /\ ~intents[i].lapsed
        /\ intents[i].revision = snapshot.revision
        /\ intents[i].op = "propose" => room.applications[binding.proposal].who = intents[i].who
     THEN intents' = [intents EXCEPT ![i].status = "submitted"] /\ Saved(binding, [call EXCEPT ![c] = Idle])
     ELSE Calls(c, Idle) /\ UNCHANGED <<binding, intents>>
  /\ UNCHANGED <<cluster, room, sync, events>> /\ Chain

-----------------------------------------------------------------------------
(* synchronize and reconcile: one at a time, from the alarm, a refresh or a *)
(* submission; an error or a restart ends it, and the alarm comes again.    *)
Goes(s) == sync' = s
Settles(i, status) == intents' = [intents EXCEPT ![i].status = status] /\ Saved(binding, call)
Reconciles == UNCHANGED <<program, room, barred>>
Kept == UNCHANGED <<binding, call>>
submitted(is) == {i \in DOMAIN is : is[i].status = "submitted"}
Start ==
  /\ sync = Idle /\ intents' = Lapsed(intents) /\ Saved(binding, call)
  /\ \/ \E i \in submitted(intents) : Goes([at |-> "status", intent |-> i])
     \/ submitted(intents) = {} /\ Goes([at |-> "account"])
  /\ UNCHANGED <<cluster, applying, events>> /\ Reconciles
verdict(tx) == IF tx = "finalized" THEN "confirmed" ELSE "failed"
final(i) == cluster[i].tx \in {"finalized", "rejected"}
Status(i) ==
  /\ sync.at = "status" /\ sync.intent = i
  /\ IF intents[i].status \in Settled THEN Goes([at |-> "account"]) /\ UNCHANGED intents /\ Kept
     ELSE IF final(i) THEN Settles(i, verdict(cluster[i].tx)) /\ Goes([at |-> "account"])
     ELSE Goes([at |-> "height", intent |-> i, known |-> cluster[i].tx = "processed"]) /\ UNCHANGED intents /\ Kept
  /\ UNCHANGED <<cluster, applying, events>> /\ Reconciles
Height(i) ==
  /\ sync.at = "height" /\ sync.intent = i
  /\ Goes(IF cluster[i].passed \/ final(i) THEN [at |-> "receipt", intent |-> i]
          ELSE IF sync.known THEN [at |-> "account"] ELSE [at |-> "send", intent |-> i])
  /\ UNCHANGED <<cluster, applying, events, intents>> /\ Kept /\ Reconciles
\* Mutant: what had no status before the height passed is taken to have expired.
expiredAtOnce(i) == "expired"
receipt(i) == IF final(i) THEN verdict(cluster[i].tx) ELSE "expired"
Receipt(i) ==
  /\ sync.at = "receipt" /\ sync.intent = i /\ Goes([at |-> "account"])
  /\ IF intents[i].status \in Settled THEN UNCHANGED intents /\ Kept ELSE Settles(i, receipt(i))
  /\ UNCHANGED <<cluster, applying, events>> /\ Reconciles
Send(i) ==
  /\ sync.at = "send" /\ sync.intent = i /\ Goes([at |-> "account"])
  /\ IF intents[i].status \notin Settled /\ cluster[i].tx = "unsent" THEN Becomes(i, "sent") ELSE UNCHANGED cluster
  /\ UNCHANGED <<applying, events, intents>> /\ Kept /\ Reconciles
accepts(p, n) ==
  /\ n.sequence >= p.sequence /\ n.revision >= p.revision
  /\ p.state \in {"completed", "cancelled"} => n.state = p.state
  /\ ~(p.state = "active" /\ n.state = "open")
  /\ p.state = "active" /\ n.state = "active" /\ n.sequence = p.sequence => n.guardian = p.guardian
\* The node asked may lag, but never behind the slot already seen.
Account(slot) ==
  /\ sync.at = "account"
  /\ IF program[slot].state # "uncreated" /\ accepts(snapshot, program[slot])
     THEN /\ Saved([binding EXCEPT !.slot = slot], call) /\ Goes([at |-> "applying", slot |-> slot])
          /\ applying' = applying \cup {[at |-> "sent", slot |-> slot, app |-> binding.proposal, members |-> binding.members]}
     ELSE Kept /\ Goes(Idle) /\ UNCHANGED applying
  /\ UNCHANGED <<cluster, events, intents>> /\ Reconciles
Applied == /\ sync.at = "applying" /\ (\A a \in applying : a.slot # sync.slot) /\ Goes(Idle)
           /\ UNCHANGED <<cluster, applying, events, intents>> /\ Kept /\ Reconciles
\* An error, or the object restarts: what it asked of the room goes on there.
Fails == /\ sync # Idle /\ Happens /\ Goes(Idle)
         /\ UNCHANGED <<cluster, applying, intents>> /\ Kept /\ Reconciles

-----------------------------------------------------------------------------
(* applyChainSnapshot, in the room.                                         *)
InRoom == UNCHANGED <<program, binding, intents, cluster, barred, call, sync, events>>
Gone(a) == applying' = applying \ {a}
replaces(a) == LET s == program[a.slot] IN
  s.state = "active" /\ s.sequence > room.sequence /\ s.guardian \in a.members
approved(a) == /\ a.app \in DOMAIN room.applications /\ room.applications[a.app].consent = "kept"
               /\ room.applications[a.app].who = program[a.slot].guardian
recorded(r, a) ==
  LET s == program[a.slot]
      ends == CASE s.state = "completed" -> "arrived" [] s.state = "cancelled" -> "cancelled" [] OTHER -> r.status
      marked == [r EXCEPT !.slot = a.slot, !.sequence = s.sequence]
  IN IF closed \/ ends = r.status THEN marked
     ELSE [marked EXCEPT !.status = ends, !.applications = nonePending(@)]
Arrives(a) ==
  /\ a.at = "sent"
  /\ IF a.slot < room.slot \/ program[a.slot].sequence < room.sequence THEN Gone(a) /\ UNCHANGED room
     ELSE IF replaces(a) /\ ~closed
     THEN /\ UNCHANGED room
          /\ IF approved(a) THEN applying' = (applying \ {a}) \cup {[a EXCEPT !.at = "asking"]} ELSE Gone(a)
     ELSE Gone(a) /\ room' = recorded(room, a)
  /\ InRoom

approvedWhenAsked(a) == TRUE
current(a) == a.slot >= room.slot /\ program[a.slot].sequence > room.sequence
stillApproved(a) == approved(a)
HandsOver(a) ==
  /\ a.at = "asking" /\ Gone(a)
  /\ room' = IF current(a) /\ program[a.slot].guardian \notin barred /\ ~closed /\ stillApproved(a)
             THEN recorded([room EXCEPT !.guardian = program[a.slot].guardian, !.applications = nonePending(@)], a)
             ELSE room
  /\ InRoom

-----------------------------------------------------------------------------
Reconciling == \E i \in DOMAIN intents : Status(i) \/ Height(i) \/ Receipt(i) \/ Send(i)
Runs == Reconciling \/ Applied \/ \E slot \in binding.slot..Len(program) : Account(slot)
InsideRoom == \E a \in applying : Arrives(a) \/ HandsOver(a)
Cluster(i) == Include(i) \/ Fork(i) \/ Pass(i) \/ \E ok \in BOOLEAN : Finalize(i, ok)
Next ==
  \/ \E i \in DOMAIN intents : Cluster(i) \/ Lapse(i) \/ Discard(i) \/ \E c \in Callers : BeginSubmit(c, i)
  \/ \E op \in Operations, g \in Guardians : Direct(op, g)
  \/ \E g \in Guardians : Apply(g) \/ Bar(g)
  \/ \E n \in DOMAIN room.applications : Withdraw(n) \/ Expire(n)
  \/ CancelRelay \/ Close("arrived") \/ Close("cancelled")
  \/ \E c \in Callers :
       \/ \E op \in {"create", "cancel-proposal", "complete", "cancel"} : BeginPrepare(c, op, NoOne, 0)
       \/ \E n \in DOMAIN room.applications : BeginPrepare(c, "propose", room.applications[n].who, n)
       \/ \E g \in Guardians : BeginPrepare(c, "accept", g, 0)
       \/ Lease(c) \/ Submit(c) \/ \E ok \in BOOLEAN : Prepared(c, ok)
  \/ LeaseLapses \/ Start \/ Runs \/ Fails \/ InsideRoom
Spec == Init /\ [][Next]_vars

-----------------------------------------------------------------------------
(* At most one transaction of the journey is in somebody's hands: prepared  *)
(* and still valid, or submitted and not known to be final or expired.      *)
OneTransaction == Cardinality({i \in DOMAIN intents : waiting(i)}) <= 1

(* What the outbox says of a submitted transaction is what the chain has:   *)
(* expired means it is not there and never will be.                         *)
SettledAsOnChain ==
  \A i \in DOMAIN intents :
    /\ intents[i].status = "confirmed" => cluster[i].tx = "finalized"
    /\ intents[i].status = "failed" => cluster[i].tx = "rejected"
    /\ intents[i].status = "expired" /\ cluster[i].tx # "unsent" => cluster[i].tx = "sent" /\ cluster[i].passed

(* Access to a linked journey changes hands only forward: to the guardian   *)
(* of a later finalized assignment, for whom the rider's approval was not   *)
(* taken back, whatever older snapshot is still on its way.                 *)
HandoverMovesForward ==
  [][room'.guardian # room.guardian =>
       /\ room'.sequence > room.sequence /\ room'.slot >= room.slot
       /\ program[room'.slot].guardian = room'.guardian
       /\ \E n \in DOMAIN room.applications :
            room.applications[n].who = room'.guardian /\ room.applications[n].consent = "kept"]_vars
=============================================================================
