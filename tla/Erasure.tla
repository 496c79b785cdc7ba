------------------------------ MODULE Erasure ------------------------------
(***************************************************************************)
(* Deletion of accounts and restoration of backups: the deletion journal   *)
(* of GovernanceStore (src/worker/src/governance.ts), the run that empties *)
(* the other objects after it (resumeDeletion, operations.ts), the account *)
(* and the journey of trips.ts that are emptied, and the operator's        *)
(* export, protection overlay (src/scripts/backup.mjs) and restore.        *)
(*                                                                         *)
(* One journey, its rider and one member.  Every call of another object is *)
(* a step, and a call may outlive the run that made it.  Runs of           *)
(* syncIndexes, and of purge, repeat what is done already and change       *)
(* nothing else, so that one of each at a time is enough.  The source is   *)
(* lost at most once; two of its archives then fill fresh storage, which   *)
(* is kept from users until the restore has ended (docs/OPERATIONS.md).    *)
(***************************************************************************)
EXTENDS Naturals, Sequences, FiniteSets

CONSTANT
  Scenes  \* bounds of a behaviour: who may ask for deletion (leavers), the exports there are,
          \* the failures, and whether the member has joined before it begins

ASSUME ScenesAssumption ==
  Scenes \subseteq [leavers: SUBSET {"rider", "member"}, archives: Nat, failures: Nat, joined: BOOLEAN]

VARIABLES
  scene,
  world,      \* "source" until it is lost, then "recovery"
  governance, \* status, deletions, purged_trips and resources
  account,    \* the two accounts
  room,       \* the journey
  sync,       \* the run of syncIndexes under way
  purge,      \* the run of purge under way
  run,        \* deletions under way, of a request and of the cron
  arriving,   \* an act of the member, authenticated and not yet carried out
  export,     \* the operator's export under way
  archives,   \* what exports have returned
  restore,    \* the restore under way, or that has ended
  mishaps,
  history     \* [promised, late]: whose deletion listed the journey, and who joined it after

erasureVars == <<scene, world, governance, account, room, sync, purge, run, arriving,
                 export, archives, restore, mishaps, history>>
objects == <<governance, account, room>>
operator == <<scene, world, export, archives, restore>>

People == {"rider", "member"}
Runs == {"request", "cron"}
NoCall == [at |-> "idle"]

NewGovernance == [deleted |-> {}, journal |-> [p \in {} |-> p], users |-> {}, trip |-> FALSE, purged |-> FALSE]
NoAccount == [status |-> "absent", private |-> FALSE, row |-> FALSE]
NoRoom == [live |-> FALSE, erased |-> FALSE, closed |-> FALSE, member |-> "none", unsynced |-> FALSE]

ErasureInit ==
  /\ scene \in Scenes /\ world = "source"
  /\ governance = [NewGovernance EXCEPT !.users = People, !.trip = scene.joined]
  /\ account = [p \in People |-> [status |-> "active", private |-> TRUE, row |-> scene.joined]]
  /\ room \in IF scene.joined
             THEN [live: {TRUE}, erased: {FALSE}, closed: BOOLEAN, member: {"applicant", "guardian"}, unsynced: {FALSE}]
             ELSE {[NoRoom EXCEPT !.live = TRUE, !.unsynced = TRUE]}
  /\ sync = NoCall /\ purge = NoCall /\ run = [r \in Runs |-> NoCall]
  /\ arriving = FALSE /\ export = NoCall /\ archives = <<>> /\ restore = NoCall /\ mishaps = 0
  /\ history = [promised |-> {}, late |-> {}]

----------------------------------------------------------------------------
(* GovernanceStore.  The journal has one row per user, `after` the users   *)
(* whose deletion had started before: pendingDeletions are taken in the    *)
(* order in which they were started.                                       *)
begun(g, p) == p \in DOMAIN g.journal
pending(g, p) == begun(g, p) /\ ~g.journal[p].done
listed(g, p) == begun(g, p) /\ g.journal[p].listed

written(journal, p, entry) == [q \in DOMAIN journal \cup {p} |-> IF q = p THEN entry ELSE journal[q]]
beginDeletion(g, p, row) ==
  IF begun(g, p) THEN g
  ELSE [g EXCEPT !.deleted = @ \cup {p},
                 !.journal = written(@, p, [after |-> DOMAIN @, listed |-> row, done |-> FALSE])]
completeDeletion(g, p) ==
  IF ~pending(g, p) THEN g
  ELSE [g EXCEPT !.users = @ \ {p},
                 !.journal = written(@, p, [after |-> @[p].after, listed |-> FALSE, done |-> TRUE])]
recordDeletedTrip(g) == [g EXCEPT !.purged = TRUE, !.trip = FALSE]
registerTrip(g) == [g EXCEPT !.trip = @ \/ ~g.purged]

(* Protections are merged before resources.                                *)
restoreState(g, b) ==
  LET deleted == g.deleted \cup b.deleted \cup DOMAIN b.journal
      purged == g.purged \/ b.purged
  IN [deleted |-> deleted, purged |-> purged,
      journal |-> [p \in DOMAIN g.journal \cup DOMAIN b.journal |-> IF begun(g, p) THEN g.journal[p] ELSE b.journal[p]],
      users |-> (g.users \cup b.users) \ deleted, trip |-> (g.trip \/ b.trip) /\ ~purged]

(* UserAccount: deactivate, purgePrivate and addTrip.                      *)
deactivated(a) == [a EXCEPT !.status = "deactivated"]
emptied(a) == [status |-> "deactivated", private |-> FALSE, row |-> FALSE]

(* TripRoom: a guardian leaves a contribution, whose id stays.             *)
named(t) == t.member \in {"applicant", "guardian"}
peopleOf(t) == {"rider"} \cup (IF t.member = "none" THEN {} ELSE {"member"})
\* Mutant: only applications are removed.
scrubbedApplicant(t) == [t EXCEPT !.member = IF @ = "applicant" THEN "none" ELSE @, !.unsynced = TRUE]

scrubbed(t) == [t EXCEPT !.member = CASE @ = "applicant" -> "none" [] @ = "guardian" -> "anonymous" [] OTHER -> @,
                         !.unsynced = TRUE]

----------------------------------------------------------------------------
Waits(r, w) == run' = [run EXCEPT ![r] = w]
Outdated == sync' = IF sync = NoCall THEN NoCall ELSE [sync EXCEPT !.fresh = FALSE]
Restoring == restore.at \notin {"idle", "done"}

(***************************************************************************)
(* Members and riders, through handlers of the journey.                    *)
(***************************************************************************)
Authenticate ==
  /\ ~Restoring /\ ~arriving /\ ~scene.joined /\ account["member"].status = "active" /\ "member" \notin governance.deleted
  /\ arriving' = TRUE
  /\ UNCHANGED <<objects, sync, purge, run, operator, mishaps, history>>

Accept ==
  /\ arriving /\ arriving' = FALSE
  /\ IF room.live /\ ~room.closed /\ ~named(room)
     THEN /\ room' = [room EXCEPT !.member = IF @ = "none" THEN "applicant" ELSE "guardian", !.unsynced = TRUE]
          /\ Outdated
          /\ history' = IF begun(governance, "member") THEN [history EXCEPT !.late = @ \cup {"member"}] ELSE history
     ELSE UNCHANGED <<room, sync, history>>
  /\ UNCHANGED <<governance, account, purge, run, operator, mishaps>>

(* The rider approves whom governance does not report as deleted.          *)
Approve ==
  /\ ~Restoring /\ room.live /\ ~room.closed /\ room.member = "applicant" /\ governance.deleted = {}
  /\ room' = [room EXCEPT !.member = "guardian", !.unsynced = TRUE] /\ Outdated
  /\ UNCHANGED <<governance, account, purge, run, arriving, operator, mishaps, history>>

CloseRoom ==
  /\ room.live /\ ~room.closed
  /\ room' = [room EXCEPT !.closed = TRUE, !.unsynced = TRUE] /\ Outdated
  /\ UNCHANGED <<governance, account, purge, run, arriving, operator, mishaps, history>>

(***************************************************************************)
(* syncIndexes, as far as governance and the accounts see it.              *)
(***************************************************************************)
SyncOf(t) == [at |-> "register", todo |-> peopleOf(t), fresh |-> TRUE]
StartSync ==
  /\ sync = NoCall /\ room.live /\ room.unsynced /\ sync' = SyncOf(room)
  /\ UNCHANGED <<objects, purge, run, arriving, operator, mishaps, history>>
RegisterTrip ==
  /\ sync.at = "register" /\ sync' = [sync EXCEPT !.at = "add"]
  /\ governance' = registerTrip(governance)
  /\ UNCHANGED <<account, room, purge, run, arriving, operator, mishaps, history>>
AddTrip ==
  /\ sync.at = "add" /\ sync.todo # {}
  /\ LET p == IF "rider" \in sync.todo THEN "rider" ELSE "member"
     IN account' = [account EXCEPT ![p].row = TRUE] /\ sync' = [sync EXCEPT !.todo = @ \ {p}]
  /\ UNCHANGED <<governance, room, purge, run, arriving, operator, mishaps, history>>
SyncEnds ==
  /\ sync.at = "add" /\ sync.todo = {} /\ sync' = NoCall
  /\ room' = [room EXCEPT !.unsynced = @ /\ ~sync.fresh]
  /\ UNCHANGED <<governance, account, purge, run, arriving, operator, mishaps, history>>

(***************************************************************************)
(* purge: asked for by the rider of a closed journey, by its retention, or *)
(* by the deletion of the rider.  A journey with a public record is closed *)
(* first.                                                                  *)
(***************************************************************************)
AskErasure ==
  /\ ~Restoring /\ room.live /\ room.closed /\ purge = NoCall /\ purge' = [at |-> "record"]
  /\ UNCHANGED <<objects, sync, run, arriving, operator, mishaps, history>>
RecordPurged ==
  /\ purge.at = "record" /\ purge' = [at |-> "erase"]
  /\ governance' = recordDeletedTrip(governance)
  /\ UNCHANGED <<account, room, sync, run, arriving, operator, mishaps, history>>
EraseRoom ==
  /\ purge.at = "erase" /\ purge' = NoCall /\ room' = [NoRoom EXCEPT !.erased = TRUE]
  /\ UNCHANGED <<governance, account, sync, run, arriving, operator, mishaps, history>>

(***************************************************************************)
(* A deletion: the request of the person, or the maintenance cron, which   *)
(* takes the pending journals one after another.                           *)
(***************************************************************************)
ExportData(p) ==
  /\ ~Restoring /\ run["request"] = NoCall /\ p \in scene.leavers /\ account[p].status = "active"
  /\ Waits("request", [at |-> "begin", who |-> p, then |-> {}, row |-> account[p].row])
  /\ UNCHANGED <<objects, sync, purge, arriving, operator, mishaps, history>>
BeginDeletion ==
  LET w == run["request"] p == w.who
  IN /\ w.at = "begin" /\ governance' = beginDeletion(governance, p, w.row)
     /\ history' = IF ~begun(governance, p) /\ w.row THEN [history EXCEPT !.promised = @ \cup {p}] ELSE history
     /\ Waits("request", [w EXCEPT !.at = "status"])
     /\ UNCHANGED <<account, room, sync, purge, arriving, operator, mishaps>>

\* Mutant: a journal without journeys is taken for a completed one.
pendingWithTrips == {p \in DOMAIN governance.journal: ~governance.journal[p].done /\ governance.journal[p].listed}

pendingDeletions == {p \in DOMAIN governance.journal: ~governance.journal[p].done}
(* A run turns to the first of these, and after it to the rest.            *)
taking(them) ==
  {[at |-> "status", who |-> p, then |-> them \ {p}, row |-> FALSE]:
     p \in {q \in them: governance.journal[q].after \cap them = {}}}
Wake ==
  /\ run["cron"] = NoCall /\ pendingDeletions # {} /\ \E w \in taking(pendingDeletions): Waits("cron", w)
  /\ UNCHANGED <<objects, sync, purge, arriving, operator, mishaps, history>>

GoesOn(r) ==
  IF run[r].then = {} THEN Waits(r, NoCall) ELSE \E w \in taking(run[r].then): Waits(r, w)
ReadJournal(r) ==
  LET p == run[r].who
  IN /\ run[r].at = "status"
     /\ IF pending(governance, p) THEN Waits(r, [run[r] EXCEPT !.at = "deactivate", !.row = listed(governance, p)])
        ELSE GoesOn(r)
     /\ UNCHANGED <<objects, sync, purge, arriving, operator, mishaps, history>>
Deactivate(r) ==
  LET p == run[r].who
  IN /\ run[r].at = "deactivate" /\ Waits(r, [run[r] EXCEPT !.at = IF run[r].row THEN "scrub" ELSE "empty"])
     /\ account' = [account EXCEPT ![p] = deactivated(@)]
     /\ UNCHANGED <<governance, room, sync, purge, arriving, operator, mishaps, history>>

(* scrubUser, up to its synchronization or purge.                          *)
ScrubPerson(r) ==
  LET p == run[r].who
  IN /\ run[r].at = "scrub" /\ sync = NoCall /\ purge = NoCall
     /\ Waits(r, [run[r] EXCEPT !.at = "scrubbing"])
     /\ \/ ~room.live /\ UNCHANGED <<room, sync, purge>>
        \/ /\ room.live /\ p = "rider"
           /\ room' \in {room, [room EXCEPT !.closed = TRUE]}
           /\ purge' = [at |-> "record"] /\ UNCHANGED sync
        \/ /\ room.live /\ p = "member" /\ room' = scrubbed(room) /\ sync' = SyncOf(room')
           /\ UNCHANGED purge
     /\ UNCHANGED <<governance, account, arriving, operator, mishaps, history>>
Scrubbed(r) ==
  /\ run[r].at = "scrubbing" /\ sync = NoCall /\ purge = NoCall
  /\ Waits(r, [run[r] EXCEPT !.at = "empty"])
  /\ UNCHANGED <<objects, sync, purge, arriving, operator, mishaps, history>>
PurgePrivate(r) ==
  LET p == run[r].who
  IN /\ run[r].at = "empty" /\ Waits(r, [run[r] EXCEPT !.at = "complete"])
     /\ account' = [account EXCEPT ![p] = emptied(@)]
     /\ UNCHANGED <<governance, room, sync, purge, arriving, operator, mishaps, history>>
CompleteDeletion(r) ==
  LET p == run[r].who
  IN /\ run[r].at = "complete" /\ GoesOn(r)
     /\ governance' = completeDeletion(governance, p)
     /\ UNCHANGED <<account, room, sync, purge, arriving, operator, mishaps, history>>

(* A deletion stops, and a call it waits for goes on alone; or the journey *)
(* stops what it does, and the deletion that waits for it fails.           *)
Interrupt ==
  /\ mishaps < scene.failures /\ mishaps' = mishaps + 1
  /\ \/ /\ \E r \in Runs: run[r] # NoCall /\ Waits(r, NoCall)
        /\ UNCHANGED <<sync, purge>>
     \/ /\ sync' \in {sync, NoCall} /\ purge' \in {purge, NoCall}
        /\ <<sync', purge'>> # <<sync, purge>>
        /\ run' = [r \in Runs |-> IF run[r].at = "scrubbing" THEN NoCall ELSE run[r]]
  /\ UNCHANGED <<objects, arriving, operator, history>>

----------------------------------------------------------------------------
(***************************************************************************)
(* The operator exports: accounts, journeys, governance last.              *)
(***************************************************************************)
NothingYet ==
  [users |-> {}, rows |-> {}, trip |-> "absent", governance |-> NewGovernance,
   before |-> [deleted |-> governance.deleted, purged |-> governance.purged]]  \* before: history
people == <<governance, account, room, sync, purge, run, arriving, mishaps, history>>

StartExport ==
  /\ world = "source" /\ export = NoCall /\ Len(archives) < scene.archives
  /\ export' = [at |-> "users", todo |-> governance.users, data |-> NothingYet]
  /\ UNCHANGED <<people, scene, world, archives, restore>>
withAccount(data, p) ==
  IF account[p].status # "active" THEN data
  ELSE [data EXCEPT !.users = @ \cup {p}, !.rows = IF account[p].row THEN @ \cup {p} ELSE @]
ExportAccount ==
  /\ export.at = "users" /\ export.todo # {}
  /\ LET p == IF "member" \in export.todo THEN "member" ELSE "rider"
     IN export' = [export EXCEPT !.todo = @ \ {p}, !.data = withAccount(@, p)]
  /\ UNCHANGED <<people, scene, world, archives, restore>>
ListTrips ==
  /\ export.at = "users" /\ export.todo = {}
  /\ export' = [export EXCEPT !.at = IF governance.trip THEN "trip" ELSE "governance"]
  /\ UNCHANGED <<people, scene, world, archives, restore>>
ExportTrip ==
  /\ export.at = "trip"
  /\ export' = [export EXCEPT !.at = "governance", !.data.trip = IF room.live THEN room.member ELSE "absent"]
  /\ UNCHANGED <<people, scene, world, archives, restore>>
ExportState ==
  /\ export.at = "governance" /\ export' = NoCall
  /\ archives' = Append(archives, [export.data EXCEPT !.governance = governance])
  /\ UNCHANGED <<people, scene, world, restore>>

----------------------------------------------------------------------------
(***************************************************************************)
(* The source is lost.  applyProtection refuses an archive one of whose    *)
(* accounts the protection neither knows nor reports as deleted; otherwise *)
(* the data go with the governance of the protection.                      *)
(***************************************************************************)
\* Mutant: the archive keeps its own governance.
applyNoProtection(data, protection) == [data EXCEPT !.before = protection.before]

applyProtection(data, protection) ==
  [data EXCEPT !.governance = protection.governance, !.before = protection.before]
protects(data, protection) ==
  \A p \in data.users: p \in protection.users \/ p \in protection.governance.deleted \/ begun(protection.governance, p)

LoseSource ==
  /\ world = "source" /\ world' = "recovery"
  /\ \E i, j \in DOMAIN archives:
       /\ i <= j /\ protects(archives[i], archives[j])
       /\ restore' = [at |-> "state", data |-> applyProtection(archives[i], archives[j]), todo |-> {}, deleted |-> {}]
  /\ governance' = NewGovernance /\ account' = [p \in People |-> NoAccount] /\ room' = NoRoom
  /\ sync' = NoCall /\ purge' = NoCall /\ run' = [r \in Runs |-> NoCall]
  /\ arriving' = FALSE /\ export' = NoCall /\ archives' = <<>>
  /\ history' = [promised |-> {p \in history.promised: begun(restore'.data.governance, p)}, late |-> {}]
  /\ UNCHANGED <<scene, mishaps>>

Restores(w) == restore' = w /\ UNCHANGED <<scene, world, export, archives>>
others == <<purge, run, arriving, mishaps, history>>

RestoreState ==
  /\ restore.at = "state" /\ governance' = restoreState(governance, restore.data.governance)
  /\ Restores([restore EXCEPT !.at = "users", !.todo = restore.data.users])
  /\ UNCHANGED <<account, room, sync, others>>
nextAccount == IF "member" \in restore.todo THEN "member" ELSE "rider"
CheckAccount ==
  /\ restore.at = "users" /\ restore.todo # {}
  /\ Restores(IF nextAccount \in governance.deleted THEN [restore EXCEPT !.todo = @ \ {nextAccount}]
              ELSE [restore EXCEPT !.at = "account"])
  /\ UNCHANGED <<objects, sync, others>>
RestoreAccount ==
  /\ restore.at = "account" /\ Restores([restore EXCEPT !.at = "users", !.todo = @ \ {nextAccount}])
  /\ account' = IF account[nextAccount].status # "absent" THEN account
                ELSE [account EXCEPT ![nextAccount] = [status |-> "active", private |-> TRUE, row |-> nextAccount \in restore.data.rows]]
  /\ UNCHANGED <<governance, room, sync, others>>

(* restoreSnapshot of the journey reads the tombstones, then the status of *)
(* each person, and looks at its own storage again before it stores.       *)
CheckTrip ==
  /\ restore.at = "users" /\ restore.todo = {}
  /\ Restores([restore EXCEPT !.at = IF restore.data.trip = "absent" \/ governance.purged \/ room.live \/ room.erased
                                     THEN "complete" ELSE "trip"])
  /\ UNCHANGED <<objects, sync, others>>
ReadStatuses ==
  /\ restore.at = "trip" /\ Restores([restore EXCEPT !.at = "store", !.deleted = governance.deleted])
  /\ UNCHANGED <<objects, sync, others>>

stored(data, deleted) ==
  LET t == [NoRoom EXCEPT !.live = TRUE, !.closed = TRUE, !.unsynced = TRUE, !.member = data.trip]
  IN IF "member" \in deleted THEN scrubbed(t) ELSE t
StoreTrip ==
  /\ restore.at = "store" /\ Restores([restore EXCEPT !.at = "complete"])
  /\ IF "rider" \in restore.deleted
     THEN governance' = recordDeletedTrip(governance) /\ room' = [room EXCEPT !.erased = TRUE] /\ UNCHANGED sync
     ELSE /\ UNCHANGED governance
          /\ IF room.live \/ room.erased THEN UNCHANGED <<room, sync>>
             ELSE /\ room' = stored(restore.data, restore.deleted)
                  /\ sync' = SyncOf(room')
  /\ UNCHANGED <<account, others>>
CompleteRestore ==
  /\ restore.at = "complete" /\ Restores([restore EXCEPT !.at = "done"])
  /\ UNCHANGED <<objects, sync, others>>

(* The operator repeats a restore that was interrupted.                    *)
RestoreAgain ==
  /\ Restoring /\ mishaps < scene.failures /\ mishaps' = mishaps + 1
  /\ Restores([restore EXCEPT !.at = "state", !.todo = {}, !.deleted = {}])
  /\ UNCHANGED <<objects, sync, purge, run, arriving, history>>

----------------------------------------------------------------------------
Deletes(r) ==
  \/ ReadJournal(r) \/ Deactivate(r) \/ ScrubPerson(r) \/ Scrubbed(r) \/ PurgePrivate(r) \/ CompleteDeletion(r)
Calls == RegisterTrip \/ AddTrip \/ SyncEnds \/ RecordPurged \/ EraseRoom
Operates ==
  \/ StartExport \/ ExportAccount \/ ListTrips \/ ExportTrip \/ ExportState \/ LoseSource
  \/ RestoreState \/ CheckAccount \/ RestoreAccount \/ CheckTrip \/ ReadStatuses \/ StoreTrip
  \/ CompleteRestore \/ RestoreAgain
ErasureNext ==
  \/ Authenticate \/ Accept \/ Approve \/ CloseRoom \/ StartSync \/ AskErasure \/ Wake
  \/ Calls \/ Interrupt \/ BeginDeletion
  \/ \E p \in People: ExportData(p)
  \/ \E r \in Runs: Deletes(r)
  \/ Operates

(* The cron comes every five minutes, and calls run on or fail.            *)
ErasureFairness ==
  /\ WF_erasureVars(Wake) /\ \A r \in Runs: WF_erasureVars(Deletes(r))
  /\ WF_erasureVars(RegisterTrip \/ AddTrip \/ SyncEnds) /\ WF_erasureVars(RecordPurged \/ EraseRoom)
ErasureSpec == ErasureInit /\ [][ErasureNext]_erasureVars /\ ErasureFairness

----------------------------------------------------------------------------
Entry == [after: SUBSET People, listed: BOOLEAN, done: BOOLEAN]
Governance == [deleted: SUBSET People, journal: UNION {[S -> Entry]: S \in SUBSET People},
               users: SUBSET People, trip: BOOLEAN, purged: BOOLEAN]
Account == [status: {"absent", "active", "deactivated"}, private: BOOLEAN, row: BOOLEAN]
Part == {"none", "applicant", "guardian", "anonymous"}
Archive == [users: SUBSET People, rows: SUBSET People, trip: {"absent"} \cup Part,
            governance: Governance, before: [deleted: SUBSET People, purged: BOOLEAN]]
Deletion == [at: {"begin", "status", "deactivate", "scrub", "scrubbing", "empty", "complete"},
             who: People, then: SUBSET People, row: BOOLEAN]
Restoration ==
  {w \in [at: {"state", "users", "account", "trip", "store", "complete", "done"},
          data: Archive, todo: SUBSET People, deleted: SUBSET People]:
     w.at \in {"trip", "store"} => w.data.trip # "absent"}

ErasureTypes ==
  /\ world \in {"source", "recovery"}
  /\ governance \in Governance
  /\ account \in [People -> Account]
  /\ room \in [live: BOOLEAN, erased: BOOLEAN, closed: BOOLEAN, member: Part, unsynced: BOOLEAN]
  /\ sync \in {NoCall} \cup [at: {"register", "add"}, todo: SUBSET People, fresh: BOOLEAN]
  /\ purge \in {NoCall} \cup [at: {"record", "erase"}]
  /\ run \in [Runs -> {NoCall} \cup Deletion]
  /\ arriving \in BOOLEAN
  /\ export \in {NoCall} \cup [at: {"users", "trip", "governance"}, todo: SUBSET People, data: Archive]
  /\ archives \in Seq(Archive)
  /\ restore \in {NoCall} \cup Restoration
  /\ history \in [promised: SUBSET People, late: SUBSET People]

(* When a deletion is recorded as completed, the account is empty, and the *)
(* journey it listed when it began no longer names the person (the rider's *)
(* is gone), whichever run got how far and however they were interrupted.  *)
(* An act that was authenticated before and arrived after is the exception.*)
forgets(p) == IF p = "rider" THEN ~room.live ELSE ~named(room)
CompletedIsErased ==
  \A p \in People: begun(governance, p) /\ ~pending(governance, p) =>
    /\ account[p].status # "active" /\ ~account[p].private
    /\ p \in history.promised \ history.late => forgets(p)

(* Archives are sequential snapshots.  Whoever was deleted when the export *)
(* that protects a restore began, and a journey that was purged by then,   *)
(* do not come back with it, whatever was deleted during either export.    *)
RestoreRespectsDeletion ==
  restore.at # "idle" =>
    /\ \A p \in restore.data.before.deleted: account[p].status # "active" /\ forgets(p)
    /\ restore.data.before.purged => ~room.live

(* "A persistent deletion journal allows the five-minute maintenance cron  *)
(* to finish work after an interruption" (docs/DATA_POLICY.md).            *)
DeletionCompletes == \A p \in People: pending(governance, p) ~> ~pending(governance, p)

=============================================================================
