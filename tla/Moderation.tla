------------------------------ MODULE Moderation ------------------------------
(***************************************************************************)
(* Reports of conduct and what operators do about them: submitReport and   *)
(* its neighbours in GovernanceStore (src/worker/src/governance.ts), and   *)
(* the daily alarm that forgets.                                           *)
(*                                                                         *)
(* A submission asks the journey who takes part in it.  While it waits,    *)
(* other submissions, operators, deletions and handovers come between, so  *)
(* what it saw is old when the report is written.  Everything else is one  *)
(* step.  Time stands still until an alarm that is due has fired.          *)
(***************************************************************************)
EXTENDS Integers, FiniteSets

CONSTANTS
  Users, Trips, NoUser,
  ReportIds, Keys, Categories,
  Requests,     \* submissions that can be under way at once
  MaxReports,   \* five in a day
  Day, Retention,
  Latest,       \* bound: the last moment
  MaxRulings    \* bound: suspensions and other acts of operators

ASSUME ModerationAssumption ==
  /\ ReportIds \subseteq Nat
  /\ MaxReports \in Nat \ {0} /\ Day \in Nat \ {0} /\ Retention \in Nat \ {0} /\ Latest \in Nat /\ MaxRulings \in Nat
  /\ NoUser \notin Users

VARIABLES
  clock,
  standing,     \* of every user: the status row and the deletion journal
  reports, limits,
  audit, backups,   \* when the entries and the manifests kept were written
  alarmAt,      \* when the alarm will fire
  rooms,        \* who takes part in each journey, and who has done so
  submissions, rulings,
  issued        \* history: identifiers that were drawn

moderationVars == <<clock, standing, reports, limits, audit, backups, alarmAt, rooms, submissions, rulings, issued>>

Unarmed == -1
Standing == [suspended : BOOLEAN, deletion : {"none", "begun", "scrubbed", "completed"}]
ReportInput == [about : Users, trip : Trips, category : Categories]
Report == [id : ReportIds, by : Users, key : Keys, input : ReportInput, created : Nat, status : {"open", "dismissed", "actioned"}]
Limit == [start : Nat, count : Nat]   \* no row: count = 0
NoLimit == [start |-> 0, count |-> 0]
Room == [stage : {"none", "there", "purged"}, rider : Users \cup {NoUser}, guardian : Users \cup {NoUser},
         served : SUBSET Users, demo : BOOLEAN]
Vacant(stage) == [stage |-> stage, rider |-> NoUser, guardian |-> NoUser, served |-> {}, demo |-> FALSE]

(* asked: the journey has not answered yet; admitted: it has.              *)
Submission == [stage : {"asked", "admitted"}, by : Users, key : Keys, input : ReportInput]
NoSubmission == [stage |-> "none"]

ModerationInit ==
  /\ clock = 0
  /\ standing = [u \in Users |-> [suspended |-> FALSE, deletion |-> "none"]]
  /\ reports = {} /\ limits = [u \in Users |-> NoLimit] /\ audit = {} /\ backups = {}
  /\ alarmAt = Unarmed
  /\ rooms = [j \in Trips |-> Vacant("none")]
  /\ submissions = [s \in Requests |-> NoSubmission]
  /\ rulings = 0 /\ issued = {}

deleted(u) == standing[u].deletion # "none"
recent(at, period) == at > clock - period
schedule == alarmAt' = IF alarmAt = Unarmed THEN clock + Day ELSE alarmAt
audited == audit' = audit \cup {clock}

----------------------------------------------------------------------------
(* A report.                                                               *)
Submit(s, u, key, input) ==
  /\ submissions[s] = NoSubmission
  /\ u # input.about /\ ~deleted(u)
  /\ submissions' = [submissions EXCEPT ![s] = [stage |-> "asked", by |-> u, key |-> key, input |-> input]]
  /\ UNCHANGED <<clock, standing, reports, limits, audit, backups, alarmAt, rooms, rulings, issued>>

subjects(room) == {room.rider, room.guardian} \cup room.served
admits(room, u, about) == u \in {room.rider, room.guardian} /\ ~room.demo /\ about \in subjects(room)
RoomAnswers(s) ==
  LET call == submissions[s] IN
  /\ call.stage = "asked"
  /\ submissions' = [submissions EXCEPT ![s] = IF admits(rooms[call.input.trip], call.by, call.input.about)
                                               THEN [call EXCEPT !.stage = "admitted"] ELSE NoSubmission]
  /\ UNCHANGED <<clock, standing, reports, limits, audit, backups, alarmAt, rooms, rulings, issued>>

prior(u, key) == {r \in reports : r.by = u /\ r.key = key}
\* Mutant: the comparison of the window is turned round.
runOut(u) == limits[u].count > 0 /\ clock - limits[u].start > Day
running(u) == limits[u].count > 0 /\ clock - limits[u].start < Day
exhausted(u) == running(u) /\ limits[u].count >= MaxReports
counted(u) == IF running(u) THEN [limits[u] EXCEPT !.count = @ + 1] ELSE [start |-> clock, count |-> 1]

Writes(call) ==
  \E id \in ReportIds \ issued :
    /\ reports' = reports \cup {[id |-> id, by |-> call.by, key |-> call.key, input |-> call.input, created |-> clock, status |-> "open"]}
    /\ limits' = [limits EXCEPT ![call.by] = counted(call.by)]
    /\ audited
    /\ issued' = issued \cup {id}
Declines == UNCHANGED <<reports, limits, audit, issued>>

\* Mutant: what was checked before the journey was asked is not checked again.
RecordsAsAdmitted(s) ==
  LET call == submissions[s] IN
  /\ call.stage = "admitted"
  /\ IF prior(call.by, call.key) # {} \/ exhausted(call.by) THEN Declines ELSE Writes(call)
  /\ schedule
  /\ submissions' = [submissions EXCEPT ![s] = NoSubmission]
  /\ UNCHANGED <<clock, standing, backups, rooms, rulings>>

Records(s) ==
  LET call == submissions[s] IN
  /\ call.stage = "admitted"
  /\ IF deleted(call.by) \/ prior(call.by, call.key) # {} \/ exhausted(call.by) THEN Declines ELSE Writes(call)
  /\ schedule
  /\ submissions' = [submissions EXCEPT ![s] = NoSubmission]
  /\ UNCHANGED <<clock, standing, backups, rooms, rulings>>

(* The object restarts: what waits in it is gone.                          *)
Evict ==
  /\ submissions' = [s \in Requests |-> NoSubmission]
  /\ UNCHANGED <<clock, standing, reports, limits, audit, backups, alarmAt, rooms, rulings, issued>>

----------------------------------------------------------------------------
(* Operators.                                                              *)
resolves(r, resolution) == r.status = "open" /\ resolution \in {"dismissed", "actioned"}
ResolveReport(r, resolution) ==
  /\ resolves(r, resolution)
  /\ reports' = (reports \ {r}) \cup {[r EXCEPT !.status = resolution]}
  /\ audited
  /\ schedule
  /\ UNCHANGED <<clock, standing, limits, backups, rooms, submissions, rulings, issued>>

ResolvedBefore(r, resolution) ==
  /\ r.status = resolution
  /\ schedule
  /\ UNCHANGED <<clock, standing, reports, limits, audit, backups, rooms, submissions, rulings, issued>>

Rules == rulings < MaxRulings /\ rulings' = rulings + 1 /\ schedule
SetSuspended(u, suspended) ==
  /\ Rules
  /\ standing' = [standing EXCEPT ![u].suspended = suspended]
  /\ audited
  /\ UNCHANGED <<clock, reports, limits, backups, rooms, submissions, issued>>

RecordCommunityOperation ==
  /\ Rules
  /\ audited
  /\ UNCHANGED <<clock, standing, reports, limits, backups, rooms, submissions, issued>>

(* at: when the export began that the manifest describes.                  *)
RecordBackup(at) ==
  /\ Rules
  /\ recent(at, Retention)
  /\ backups' = backups \cup {at}
  /\ audited
  /\ UNCHANGED <<clock, standing, reports, limits, rooms, submissions, issued>>

----------------------------------------------------------------------------
(* The deletion of an account, and the journeys meanwhile.                 *)
BeginDeletion(u) ==
  /\ ~deleted(u)
  /\ standing' = [standing EXCEPT ![u].deletion = "begun"]
  /\ audited
  /\ schedule
  /\ UNCHANGED <<clock, reports, limits, backups, rooms, submissions, rulings, issued>>

scrubbed(room, u) == IF room.rider = u THEN Vacant("purged") ELSE IF room.guardian = u THEN [room EXCEPT !.guardian = NoUser] ELSE room
recordDeletedTrip == audited /\ schedule
ScrubUser(u) ==
  /\ standing[u].deletion = "begun"
  /\ standing' = [standing EXCEPT ![u].deletion = "scrubbed"]
  /\ rooms' = [j \in Trips |-> scrubbed(rooms[j], u)]
  /\ IF \E j \in Trips : rooms[j].rider = u THEN recordDeletedTrip ELSE UNCHANGED <<audit, alarmAt>>
  /\ UNCHANGED <<clock, reports, limits, backups, submissions, rulings, issued>>

concerns(r, u) == u \in {r.by, r.input.about}
CompleteDeletion(u) ==
  /\ standing[u].deletion = "scrubbed"
  /\ standing' = [standing EXCEPT ![u].deletion = "completed"]
  /\ reports' = {r \in reports : ~concerns(r, u)}
  /\ limits' = [limits EXCEPT ![u] = NoLimit]
  /\ audited
  /\ schedule
  /\ UNCHANGED <<clock, backups, rooms, submissions, rulings, issued>>

(* A journey begins; a guardian is approved, or leaves; the rider erases a *)
(* journey, or its privacy expires.                                        *)
available(u) == ~deleted(u) /\ ~standing[u].suspended
CreateTrip(j, u, demo) ==
  /\ rooms[j].stage = "none" /\ available(u)
  /\ rooms' = [rooms EXCEPT ![j] = [Vacant("there") EXCEPT !.rider = u, !.demo = demo]]
  /\ UNCHANGED <<clock, standing, reports, limits, audit, backups, alarmAt, submissions, rulings, issued>>

ChangeGuardian(j, g) ==
  LET room == rooms[j] IN
  /\ room.stage = "there"
  /\ g # NoUser => g # room.rider /\ available(g)
  /\ rooms' = [rooms EXCEPT ![j].guardian = g, ![j].served = @ \cup ({g} \ {NoUser})]
  /\ UNCHANGED <<clock, standing, reports, limits, audit, backups, alarmAt, submissions, rulings, issued>>

Purge(j) ==
  /\ rooms[j].stage = "there"
  /\ rooms' = [rooms EXCEPT ![j] = Vacant("purged")]
  /\ recordDeletedTrip
  /\ UNCHANGED <<clock, standing, reports, limits, backups, submissions, rulings, issued>>

----------------------------------------------------------------------------
(* Time.                                                                   *)
Alarm ==
  /\ alarmAt = clock
  /\ reports' = {r \in reports : recent(r.created, Retention)}
  /\ audit' = {at \in audit : recent(at, Retention)}
  /\ limits' = [u \in Users |-> IF recent(limits[u].start, Day) THEN limits[u] ELSE NoLimit]
  /\ backups' = {at \in backups : recent(at, Retention)}
  /\ alarmAt' = clock + Day
  /\ UNCHANGED <<clock, standing, rooms, submissions, rulings, issued>>

Tick ==
  /\ clock < Latest /\ alarmAt # clock
  /\ clock' = clock + 1
  /\ UNCHANGED <<standing, reports, limits, audit, backups, alarmAt, rooms, submissions, rulings, issued>>

Reporting ==
  \/ \E s \in Requests, u \in Users, key \in Keys, input \in ReportInput : Submit(s, u, key, input)
  \/ \E s \in Requests : RoomAnswers(s) \/ Records(s)
  \/ Evict
Operating ==
  \/ \E u \in Users, suspended \in BOOLEAN : SetSuspended(u, suspended)
  \/ RecordCommunityOperation
  \/ \E at \in 0..clock : RecordBackup(at)
Elsewhere ==
  \/ \E u \in Users : BeginDeletion(u) \/ ScrubUser(u) \/ CompleteDeletion(u)
  \/ \E j \in Trips, u \in Users, demo \in BOOLEAN : CreateTrip(j, u, demo)
  \/ \E j \in Trips, g \in Users \cup {NoUser} : ChangeGuardian(j, g)
  \/ \E j \in Trips : Purge(j)
  \/ Alarm \/ Tick
ModerationNext ==
  \/ Reporting \/ Operating \/ Elsewhere
  \/ \E r \in reports, resolution \in {"dismissed", "actioned"} :
       ResolveReport(r, resolution) \/ ResolvedBefore(r, resolution)
ModerationSpec == ModerationInit /\ [][ModerationNext]_moderationVars

----------------------------------------------------------------------------
(* A report is gone when the deletion of the account that wrote it has     *)
(* completed, although a submission of that account may have been waiting  *)
(* for its journey all the time; and it goes, with the operators' records, *)
(* when it is older than its retention and the day between two alarms      *)
(* (submitReport, completeDeletion, alarm).                                *)
ReportsAreErased ==
  /\ \A r \in reports : standing[r.by].deletion # "completed"
  /\ \A at \in {r.created : r \in reports} \cup audit \cup backups :
       at + Retention + Day > clock

(* The daily limit is one of fixed windows, which begin with a report.  In *)
(* any day an account gets in at most twice as many reports, whatever      *)
(* windows it meets and whenever the alarm forgets one.                    *)
AtMostTwiceADay ==
  \A u \in Users, t \in 0..Latest :
    Cardinality({r \in reports : r.by = u /\ r.created \in t..(t + Day - 1)}) <= 2 * MaxReports
=============================================================================
