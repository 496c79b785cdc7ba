--------------------------- MODULE DirectoryIndex ---------------------------
(***************************************************************************)
(* How a journey's public guard request reaches the directory volunteers   *)
(* read: TripRoom.syncIndexes and purge in src/worker/src/trips.ts, and    *)
(* TripDirectory in src/worker/src/accounts.ts, a durable object apart.    *)
(*                                                                         *)
(* Handlers and the alarm synchronize from a snapshot they took before     *)
(* calling other objects; each call reaches the directory at some later    *)
(* time and in any order, also after its caller has failed.                *)
(*                                                                         *)
(* Requests are numbered in the order they are opened; 1 is the initial    *)
(* request, 0 none.                                                        *)
(***************************************************************************)
EXTENDS Integers, FiniteSets

CONSTANTS
  Syncs,            \* handlers and alarms that may synchronize at the same time
  RiderMayLeave,    \* whether the rider's account may be deleted on the way
  MaxRequests, MaxVersion, MaxFailures  \* bounds

ASSUME DirectoryAssumption ==
  /\ IsFiniteSet(Syncs) /\ RiderMayLeave \in BOOLEAN
  /\ MaxRequests \in Nat \ {0} /\ MaxVersion \in Nat \ {0} /\ MaxFailures \in Nat

VARIABLES
  trip,       \* the public side of the stored journey
  directory,  \* the journey's row in lobby_versions and lobby
  syncs,      \* runs of syncIndexes
  purging,    \* the run of purge
  calls,      \* directory updates under way
  expired,    \* requests whose requestExpiresAt has passed
  withdrawn,  \* history: requests whose end has been reported to the directory
  failures

vars == <<trip, directory, syncs, purging, calls, expired, withdrawn, failures>>

Requests == 1..MaxRequests
Versions == 0..MaxVersion + 1
Room == [live: BOOLEAN, community: BOOLEAN, closed: BOOLEAN, request: 0..MaxRequests, last: Requests,
         indexVersion: 1..MaxVersion, indexedVersion: 0..MaxVersion]
Row == [version: Versions, listed: 0..MaxRequests]

(* A call and whose it is, with the number of requests opened when it was  *)
(* made (history).                                                         *)
Callers == Syncs \cup {"purge"}
Update == [by: Callers, version: Versions, request: 0..MaxRequests, known: Requests]

Sync == [pc: {"idle", "registering", "updating", "returned"}, call: Update]
Idle(p) == [pc |-> "idle", call |-> [by |-> p, version |-> 0, request |-> 0, known |-> 1]]

(* summary(trip).requestKind, and what list() returns of the row.          *)
summary(request) == IF request \in expired THEN 0 ELSE request
list == summary(directory.listed)

----------------------------------------------------------------------------
(* TripDirectory.update: an older version is refused.                      *)
acceptsAny(row, call) == TRUE
accepts(row, call) == row.version <= call.version

update(row, call) ==
  IF accepts(row, call)
  THEN [version |-> call.version, listed |-> summary(call.request)] ELSE row

(* The end of syncIndexes: what has changed meanwhile is still to be done. *)
synchronized(t, version) ==
  IF t.indexVersion = version THEN [t EXCEPT !.indexedVersion = version] ELSE t

(* schedule() wakes the object in 15 seconds for as long as this holds.    *)
syncDueWhileRunning(t) == t.live /\ ~t.closed /\ t.indexVersion # t.indexedVersion
syncDue(t) == t.live /\ t.indexVersion # t.indexedVersion

changed(t, request, by) == [t EXCEPT !.request = request, !.indexVersion = @ + by]
mayChange(t, by) == t.live /\ ~t.closed /\ t.indexVersion + by <= MaxVersion

----------------------------------------------------------------------------
Init ==
  /\ trip \in [live: {TRUE}, community: BOOLEAN, closed: {FALSE}, request: {1}, last: {1},
               indexVersion: {1}, indexedVersion: {0}]
  /\ directory = [version |-> 0, listed |-> 0]
  /\ syncs = [p \in Syncs |-> Idle(p)]
  /\ purging = Idle("purge")
  /\ calls = {} /\ expired = {} /\ withdrawn = {} /\ failures = 0

Elsewhere == <<directory, syncs, purging, calls, expired, withdrawn, failures>>

(* An application comes or goes.                                           *)
ApplicationChanges ==
  /\ mayChange(trip, 1) /\ trip.request # 0
  /\ trip' = changed(trip, trip.request, 1)
  /\ UNCHANGED Elsewhere

(* Approval, cancellation or expiry of the request.                        *)
RequestEnds ==
  /\ mayChange(trip, 1) /\ trip.request # 0
  /\ trip' = changed(trip, 0, 1)
  /\ UNCHANGED Elsewhere

OpenRelay ==
  /\ mayChange(trip, 1) /\ trip.request = 0 /\ trip.last < MaxRequests
  /\ trip' = [changed(trip, trip.last + 1, 1) EXCEPT !.last = @ + 1]
  /\ UNCHANGED Elsewhere

(* Monitoring begins unguarded: activation and the relay it opens each     *)
(* make a version.                                                         *)
TakeOverOpenJourney ==
  /\ mayChange(trip, 2) /\ trip.request = 1 /\ trip.last < MaxRequests
  /\ trip' = [changed(trip, trip.last + 1, 2) EXCEPT !.last = @ + 1]
  /\ UNCHANGED Elsewhere

Close ==
  /\ mayChange(trip, 1)
  /\ trip' = [changed(trip, 0, 1) EXCEPT !.closed = TRUE]
  /\ UNCHANGED Elsewhere

(* The account of an applicant or former guardian is deleted, also after   *)
(* closure; that of the current guardian opens a relay if none is open.    *)
ScrubUser ==
  /\ trip.live /\ trip.indexVersion < MaxVersion
  /\ trip' = changed(trip, trip.request, 1)
  /\ UNCHANGED Elsewhere

ScrubGuardian ==
  /\ mayChange(trip, 2) /\ trip.request = 0 /\ trip.last < MaxRequests
  /\ trip' = [changed(trip, trip.last + 1, 2) EXCEPT !.last = @ + 1]
  /\ UNCHANGED Elsewhere

(* Time passes.                                                            *)
RequestExpires(r) ==
  /\ r <= trip.last /\ r \notin expired
  /\ expired' = expired \cup {r}
  /\ UNCHANGED <<trip, directory, syncs, purging, calls, withdrawn, failures>>

----------------------------------------------------------------------------
(* syncIndexes: the snapshot is taken, governance and the accounts are     *)
(* called, and then the directory with what the snapshot offers by then.   *)

Snapshot(p) ==
  /\ syncs[p].pc = "idle" /\ syncDue(trip)
  /\ syncs' = [syncs EXCEPT ![p] = [pc |-> "registering",
       call |-> [by |-> p, version |-> trip.indexVersion,
                request |-> trip.request, known |-> trip.last]]]
  /\ UNCHANGED <<trip, directory, purging, calls, expired, withdrawn, failures>>

CallUpdate(p) ==
  /\ syncs[p].pc = "registering"
  /\ \E c \in {[syncs[p].call EXCEPT !.request = summary(@)]}:
       /\ syncs' = [syncs EXCEPT ![p] = [pc |-> "updating", call |-> c]]
       /\ calls' = calls \cup {c}
  /\ UNCHANGED <<trip, directory, purging, expired, withdrawn, failures>>

Synchronized(p) ==
  /\ syncs[p].pc = "returned"
  /\ trip' = IF trip.live THEN synchronized(trip, syncs[p].call.version) ELSE trip
  /\ syncs' = [syncs EXCEPT ![p] = Idle(p)]
  /\ UNCHANGED <<directory, purging, calls, expired, withdrawn, failures>>

(* The call takes effect; whoever made it and still waits is answered.     *)
answered(run, c) == IF run.pc = "updating" /\ run.call = c THEN [run EXCEPT !.pc = "returned"] ELSE run

Deliver(c) ==
  /\ directory' = update(directory, c)
  /\ withdrawn' = IF accepts(directory, c)
                  THEN withdrawn \cup ((1..c.known) \ {c.request}) ELSE withdrawn
  /\ calls' = calls \ {c}
  /\ syncs' = [p \in Syncs |-> answered(syncs[p], c)]
  /\ purging' = answered(purging, c)
  /\ UNCHANGED <<trip, expired, failures>>

(* A call throws or the object restarts; a call already sent may be lost   *)
(* or arrive later.                                                        *)
Fail(p) ==
  /\ failures < MaxFailures /\ syncs[p].pc # "idle"
  /\ syncs' = [syncs EXCEPT ![p] = Idle(p)]
  /\ failures' = failures + 1
  /\ calls' \in {calls, calls \ {syncs[p].call}}
  /\ UNCHANGED <<trip, directory, purging, expired, withdrawn>>

----------------------------------------------------------------------------
(* purge: of a closed journey, or of any when the rider's account goes.    *)
(* The version for the directory is taken before governance is called; the *)
(* row is deleted and the directory called after the answer.  A journey    *)
(* with a community record is closed first, without a new version.         *)

closedFor(t) == IF t.community THEN [t EXCEPT !.closed = TRUE, !.request = 0] ELSE t

StartPurge ==
  /\ trip.live /\ purging.pc = "idle"
  /\ trip.closed \/ RiderMayLeave
  /\ trip' = closedFor(trip)
  /\ purging' = [pc |-> "registering",
       call |-> [by |-> "purge", version |-> trip.indexVersion + 1,
                 request |-> 0, known |-> trip.last]]
  /\ UNCHANGED <<directory, syncs, calls, expired, withdrawn, failures>>

Erase ==
  /\ purging.pc = "registering"
  /\ trip' = [trip EXCEPT !.live = FALSE, !.closed = TRUE, !.request = 0]
  /\ \E c \in {[purging.call EXCEPT !.known = trip.last]}:
       /\ purging' = [pc |-> "updating", call |-> c]
       /\ calls' = calls \cup {c}
  /\ UNCHANGED <<directory, syncs, expired, withdrawn, failures>>

Purged ==
  /\ purging.pc = "returned" /\ purging' = Idle("purge")
  /\ UNCHANGED <<trip, directory, syncs, calls, expired, withdrawn, failures>>

FailPurge ==
  /\ failures < MaxFailures /\ purging.pc # "idle"
  /\ purging' = Idle("purge")
  /\ failures' = failures + 1
  /\ calls' \in {calls, calls \ {purging.call}}
  /\ UNCHANGED <<trip, directory, syncs, expired, withdrawn>>

Handler == \/ ApplicationChanges \/ RequestEnds \/ OpenRelay \/ TakeOverOpenJourney
           \/ Close \/ ScrubUser \/ ScrubGuardian

Next == \/ Handler
        \/ \E r \in Requests: RequestExpires(r)
        \/ \E p \in Syncs: Snapshot(p) \/ CallUpdate(p) \/ Synchronized(p) \/ Fail(p)
        \/ \E c \in calls: Deliver(c)
        \/ StartPurge \/ Erase \/ Purged \/ FailPurge

(* The platform carries out calls, resumes who waits for them and runs the *)
(* alarm that schedule() sets while synchronization is due.                *)
Fairness ==
  /\ \A p \in Syncs: WF_vars(Snapshot(p) \/ CallUpdate(p) \/ Synchronized(p))
  /\ WF_vars(\E c \in calls: Deliver(c))
Spec == Init /\ [][Next]_vars /\ Fairness

----------------------------------------------------------------------------
(* The stored rows and the calls have the shape the code gives them.       *)
TypeOK ==
  /\ trip \in Room /\ directory \in Row
  /\ syncs \in [Syncs -> Sync] /\ purging \in Sync
  /\ calls \subseteq Update
  /\ expired \subseteq Requests /\ withdrawn \subseteq Requests
  /\ failures \in 0..MaxFailures

(* "An older async write cannot restore a closed request": once the end of *)
(* a request has reached the directory, it is never listed again.          *)
ClosedStaysClosed == directory.listed \notin withdrawn

(* A directory that is behind catches up, even if handlers failed and      *)
(* nobody touches the journey again.                                       *)
Current == list = summary(trip.request)
EventuallyCurrent == trip.live /\ ~Current ~> ~trip.live \/ Current

=============================================================================
