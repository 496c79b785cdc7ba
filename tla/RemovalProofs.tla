--------------------------- MODULE RemovalProofs ---------------------------
(***************************************************************************)
(* What was removed does not come back: neither to the directory, nor to   *)
(* the journey and the accounts.                                           *)
(*                                                                         *)
(* The directory never lists again what it was told had ended, for any     *)
(* number of synchronizations at once, of requests, versions and failures, *)
(* as long as only closed journeys are erased.  The invariant compares     *)
(* what any two runs have to say about the journey, under way or not yet   *)
(* sent: the one with the later version does not offer a request that the  *)
(* other reports as ended.                                                 *)
(*                                                                         *)
(* A completed deletion leaves nothing behind, and a restore respects it,  *)
(* for any number of failures and of archives.  The invariant says how far *)
(* each run of a deletion has got, what every archive protects, and of     *)
(* whoever the restored protection names that they are gone.               *)
(***************************************************************************)
EXTENDS DirectoryIndex, Erasure, SequenceTheorems, TLAPS


Said(c) ==
  \/ c \in calls
  \/ \E p \in Syncs: syncs[p].pc # "idle" /\ c = syncs[p].call
  \/ purging.pc # "idle" /\ c = purging.call

(* Of the requests a caller knew, all but the one it offers have ended.    *)
Ended(c) == (1..c.known) \ {c.request}
Now == [by |-> "purge", version |-> trip.indexVersion, request |-> trip.request, known |-> trip.last]

(* A request may be offered, if only by who has not seen it expire.        *)
Gone(r, S) == r \in S /\ r \notin expired

(* TypeOK without the bounds on versions and failures.                     *)
RoomShape == [live: BOOLEAN, community: BOOLEAN, closed: BOOLEAN, request: 0..MaxRequests,
              last: Requests, indexVersion: Nat, indexedVersion: Nat]
Call == [by: Callers, version: Nat, request: 0..MaxRequests, known: Requests]
Run == [pc: {"idle", "registering", "updating", "returned"}, call: Call]

Shape ==
  /\ trip \in RoomShape
  /\ directory \in [version: Nat, listed: 0..MaxRequests]
  /\ syncs \in [Syncs -> Run] /\ purging \in Run /\ calls \subseteq Call
  /\ expired \subseteq Requests /\ withdrawn \subseteq Requests

ClosedOffersNothing ==
  /\ trip.request <= trip.last
  /\ trip.closed => trip.request = 0
  /\ ~trip.live => trip.closed
  /\ purging.pc # "idle" =>
       trip.closed /\ purging.call.known = trip.last /\ purging.call.request = 0

Fits(c) ==
  /\ c.request <= c.known /\ c.known <= trip.last
  /\ c.version <= trip.indexVersion \/ c.request = 0
  /\ ~Gone(trip.request, Ended(c))
  /\ trip.indexVersion <= c.version => ~Gone(c.request, Ended(Now))
  /\ directory.version <= c.version => ~Gone(c.request, withdrawn)

Ordered(c, d) == c.version <= d.version => ~Gone(d.request, Ended(c))

Listing ==
  /\ withdrawn \subseteq 1..trip.last
  /\ ~Gone(trip.request, withdrawn)
  /\ directory.listed \notin withdrawn

AllFit == \A c: Said(c) => Fits(c)
AllOrdered == \A c, d: Said(c) /\ Said(d) => Ordered(c, d)
DirectoryInv == Shape /\ ClosedOffersNothing /\ AllFit /\ AllOrdered /\ Listing

----------------------------------------------------------------------------
(* What leaves the comparisons as they were.                               *)

LEMMA SaidType ==
  ASSUME Shape, NEW c, Said(c)
  PROVE  c \in Call
BY DEF Shape, Said, Run

(* Nothing new is said, and requests at most expire.                       *)
LEMMA NothingNewSaid ==
  ASSUME DirectoryInv,
         trip'.request = trip.request, trip'.last = trip.last,
         trip'.indexVersion = trip.indexVersion,
         directory' = directory, withdrawn' = withdrawn, expired \subseteq expired',
         \A c: Said(c)' => Said(c)
  PROVE  (AllFit /\ AllOrdered /\ Listing)'
<1>1. \A r, S: Gone(r, S)' => Gone(r, S)
  BY DEF Gone
<1>2. \A c: Fits(c) => Fits(c)'
  BY DEF Fits, Gone, Ended, Now
<1>3. \A c, d: Ordered(c, d) => Ordered(c, d)'
  BY DEF Ordered, Gone
<1>4. Listing'
  BY DEF DirectoryInv, Listing, Gone
<1> QED BY <1>2, <1>3, <1>4 DEF DirectoryInv, AllFit, AllOrdered

(* One run more has something to say, which fits with the others.          *)
LEMMA OneMoreSaid ==
  ASSUME DirectoryInv,
         trip'.request = trip.request, trip'.last = trip.last,
         trip'.indexVersion = trip.indexVersion,
         directory' = directory, withdrawn' = withdrawn, expired' = expired,
         NEW n, \A c: Said(c)' => Said(c) \/ c = n,
         Fits(n), Ordered(n, n),
         \A c: Said(c) => Ordered(c, n) /\ Ordered(n, c)
  PROVE  (AllFit /\ AllOrdered /\ Listing)'
<1>1. \A c: Fits(c) => Fits(c)'
  BY DEF Fits, Gone, Ended, Now
<1>2. \A c, d: Ordered(c, d) => Ordered(c, d)'
  BY DEF Ordered, Gone
<1>3. Listing'
  BY DEF DirectoryInv, Listing, Gone
<1> QED BY <1>1, <1>2, <1>3 DEF DirectoryInv, AllFit, AllOrdered

(* A handler makes a later version: the request stays, ends or is the next *)
(* one.                                                                    *)
LEMMA JourneyMoves ==
  ASSUME DirectoryInv, trip'.indexVersion \in Nat, trip'.indexVersion > trip.indexVersion,
         trip'.last \in Requests, trip'.last >= trip.last,
         \/ trip'.request \in {trip.request, 0}
         \/ trip'.request = trip.last + 1 /\ trip'.last = trip.last + 1,
         UNCHANGED Elsewhere
  PROVE  (AllFit /\ AllOrdered /\ Listing)'
<1> USE DEF Requests
<1>1. /\ trip.last \in 1..MaxRequests /\ trip.request \in 0..MaxRequests
      /\ trip.indexVersion \in Nat /\ MaxRequests \in Nat
  BY DirectoryAssumption DEF DirectoryInv, Shape, RoomShape
<1>2. \A c: Said(c)' <=> Said(c)
  BY DEF Elsewhere, Said
<1>3. ASSUME NEW c, Said(c) PROVE Fits(c)'
  <2>1. Fits(c) /\ c \in Call
    BY <1>3, SaidType DEF DirectoryInv, AllFit
  <2>2. /\ c.version \in Nat /\ c.request \in 0..MaxRequests /\ c.known \in 1..MaxRequests
        /\ c.request <= c.known /\ c.known <= trip.last
        /\ c.version <= trip.indexVersion \/ c.request = 0
    BY <2>1 DEF Call, Fits
  <2>3. ~Gone(trip'.request, Ended(c))
    <3>1. CASE trip'.request = trip.request
      BY <2>1, <3>1 DEF Fits
    <3>2. CASE trip'.request \in {0, trip.last + 1}
      BY <1>1, <2>2, <3>2 DEF Gone, Ended
    <3> QED BY <3>1, <3>2
  <2>4. trip'.indexVersion <= c.version => c.request = 0
    BY <1>1, <2>2
  <2>5. c.request = 0 => ~Gone(c.request, Ended(Now)')
    BY DEF Gone, Ended, Now
  <2> QED BY <1>1, <2>1, <2>2, <2>3, <2>4, <2>5 DEF Fits, Gone, Ended, Elsewhere
<1>4. Listing'
  <2>1. Listing /\ withdrawn \subseteq 1..trip.last
    BY DEF DirectoryInv, Listing
  <2>2. ~Gone(trip'.request, withdrawn)
    <3>1. CASE trip'.request = trip.request
      BY <2>1, <3>1 DEF Listing
    <3>2. CASE trip'.request \in {0, trip.last + 1}
      BY <1>1, <2>1, <3>2 DEF Gone
    <3> QED BY <3>1, <3>2
  <2> QED BY <1>1, <2>1, <2>2 DEF Listing, Gone, Elsewhere
<1>5. \A c, d: Ordered(c, d) => Ordered(c, d)'
  BY DEF Ordered, Gone, Elsewhere
<1> QED BY <1>2, <1>3, <1>4, <1>5 DEF DirectoryInv, AllFit, AllOrdered

----------------------------------------------------------------------------
LEMMA DirectoryStarts == Init => DirectoryInv
<1> SUFFICES ASSUME Init PROVE DirectoryInv
  OBVIOUS
<1>1. \A c: ~Said(c)
  BY DEF Init, Said, Idle
<1>2. PICK b \in BOOLEAN: trip = [live |-> TRUE, community |-> b, closed |-> FALSE, request |-> 1,
              last |-> 1, indexVersion |-> 1, indexedVersion |-> 0]
  BY DEF Init
<1>3. \A p \in Callers: Idle(p) \in Run
  BY DirectoryAssumption DEF Idle, Requests, Call, Run
<1>4. Shape
  <2>1. trip \in RoomShape
    <3>1. 1 \in Requests /\ 1 \in 0..MaxRequests /\ 1 \in Nat /\ 0 \in Nat
      BY DirectoryAssumption DEF Requests
    <3> QED BY <1>2, <3>1 DEF RoomShape
  <2>2. purging = Idle("purge") /\ syncs = [p \in Syncs |-> Idle(p)]
    BY DEF Init
  <2>3. directory \in [version: Nat, listed: 0..MaxRequests] /\ calls = {}
        /\ expired = {} /\ withdrawn = {}
    BY DirectoryAssumption DEF Init
  <2> QED BY <2>1, <2>2, <2>3, <1>3 DEF Shape, Callers
<1>5. ClosedOffersNothing /\ Listing
  BY <1>2 DEF Init, ClosedOffersNothing, Listing, Gone, Idle
<1> QED BY <1>1, <1>4, <1>5 DEF DirectoryInv, AllFit, AllOrdered

LEMMA ChangedShape ==
  ASSUME NEW t \in RoomShape, NEW r \in 0..MaxRequests, NEW by \in {1, 2}
  PROVE  /\ changed(t, r, by) \in RoomShape
         /\ changed(t, r, by).request = r /\ changed(t, r, by).last = t.last
         /\ changed(t, r, by).indexVersion = t.indexVersion + by
         /\ changed(t, r, by).live = t.live /\ changed(t, r, by).closed = t.closed
<1> DEFINE n == t.indexVersion + by
<1>1. n \in Nat
  BY DEF RoomShape
<1>2. changed(t, r, by) = [t EXCEPT !.request = r, !.indexVersion = n]
  BY DEF changed
<1>3. /\ changed(t, r, by).request = r /\ changed(t, r, by).last = t.last
      /\ changed(t, r, by).indexVersion = t.indexVersion + by
      /\ changed(t, r, by).live = t.live /\ changed(t, r, by).closed = t.closed
  BY DEF changed, RoomShape
<1> HIDE DEF n
<1>4. changed(t, r, by) \in RoomShape
  BY <1>1, <1>2 DEF RoomShape
<1> QED BY <1>3, <1>4

LEMMA HandlerStep ==
  ASSUME DirectoryInv, Handler
  PROVE  DirectoryInv'
<1> USE DEF Requests
<1>1. Shape /\ ClosedOffersNothing
  BY DEF DirectoryInv
<1>2. /\ trip.last \in 1..MaxRequests /\ trip.request \in 0..MaxRequests
      /\ trip.indexVersion \in Nat /\ MaxRequests \in Nat
      /\ trip \in RoomShape
  BY <1>1, DirectoryAssumption DEF Shape, RoomShape
<1>3. UNCHANGED Elsewhere
  BY DEF Handler, ApplicationChanges, RequestEnds, OpenRelay, TakeOverOpenJourney, Close,
     ScrubUser, ScrubGuardian
<1> DEFINE Moved(by) ==
      \/ trip' = changed(trip, trip.request, by)
      \/ ~trip.closed /\ trip' = changed(trip, 0, by)
      \/ trip' = [changed(trip, 0, by) EXCEPT !.closed = TRUE]
      \/ /\ ~trip.closed /\ trip.last < MaxRequests
         /\ trip' = [changed(trip, trip.last + 1, by) EXCEPT !.last = @ + 1]
<1>4. trip.live /\ (Moved(1) \/ Moved(2))
  <2>1. ApplicationChanges \/ RequestEnds \/ Close \/ ScrubUser \/ OpenRelay => Moved(1) /\ trip.live
    BY DEF ApplicationChanges, RequestEnds, Close, ScrubUser, OpenRelay, mayChange
  <2>2. TakeOverOpenJourney \/ ScrubGuardian => Moved(2) /\ trip.live
    BY DEF TakeOverOpenJourney, ScrubGuardian, mayChange
  <2> QED BY <2>1, <2>2 DEF Handler
<1>5. PICK by \in {1, 2}: Moved(by)
  BY <1>4
<1>6. /\ trip' \in RoomShape
      /\ trip'.indexVersion = trip.indexVersion + by /\ trip'.live = trip.live
      /\ \/ trip'.request \in {trip.request, 0} /\ trip'.last = trip.last
         \/ trip'.request = trip.last + 1 /\ trip'.last = trip.last + 1 /\ ~trip.closed
            /\ trip.last < MaxRequests
      /\ trip.closed => trip'.request \in {0, trip.request} /\ trip'.closed /\ trip'.last = trip.last
      /\ trip'.closed => trip'.request = 0 \/ trip.closed
  <2>0. ASSUME NEW r \in 0..MaxRequests
        PROVE  /\ changed(trip, r, by) \in RoomShape
               /\ changed(trip, r, by).request = r /\ changed(trip, r, by).last = trip.last
               /\ changed(trip, r, by).indexVersion = trip.indexVersion + by
               /\ changed(trip, r, by).live = trip.live /\ changed(trip, r, by).closed = trip.closed
    BY <1>2, ChangedShape
  <2>1. CASE trip' = changed(trip, trip.request, by)
    BY <1>2, <2>0, <2>1
  <2>2. CASE ~trip.closed /\ trip' = changed(trip, 0, by)
    BY <1>2, <2>0, <2>2
  <2>3. CASE trip' = [changed(trip, 0, by) EXCEPT !.closed = TRUE]
    <3> DEFINE u == changed(trip, 0, by)
    <3>1. /\ u \in RoomShape /\ u.request = 0 /\ u.last = trip.last
          /\ u.indexVersion = trip.indexVersion + by /\ u.live = trip.live
      BY <1>2, <2>0
    <3> HIDE DEF u
    <3>2. trip' = [u EXCEPT !.closed = TRUE]
      BY <2>3 DEF u
    <3>3. trip' \in RoomShape /\ trip'.closed
      <4>1. u \in RoomShape /\ TRUE \in BOOLEAN
        BY <3>1
      <4> QED BY <3>2, <4>1 DEF RoomShape
    <3>4. /\ trip'.request = 0 /\ trip'.last = trip.last /\ trip'.live = trip.live
          /\ trip'.indexVersion = trip.indexVersion + by
      BY <3>1, <3>2 DEF RoomShape
    <3> QED BY <3>3, <3>4
  <2>4. CASE /\ ~trip.closed /\ trip.last < MaxRequests
             /\ trip' = [changed(trip, trip.last + 1, by) EXCEPT !.last = @ + 1]
    <3> DEFINE u == changed(trip, trip.last + 1, by)
               n == trip.last + 1
    <3>1. n \in 1..MaxRequests /\ n \in 0..MaxRequests
      BY <1>2, <2>4
    <3>2. /\ u \in RoomShape /\ u.request = n /\ u.last = trip.last
          /\ u.indexVersion = trip.indexVersion + by /\ u.live = trip.live /\ u.closed = trip.closed
      BY <1>2, <2>0, <3>1
    <3>3. trip' = [u EXCEPT !.last = n]
      BY <2>4, <3>2
    <3> HIDE DEF u
    <3>4. trip'.request = n /\ trip'.last = n
      BY <3>2, <3>3 DEF RoomShape
    <3>5. /\ trip'.indexVersion = trip.indexVersion + by /\ trip'.live = trip.live
          /\ trip'.closed = trip.closed
      BY <3>2, <3>3 DEF RoomShape
    <3>6. trip' \in RoomShape
      <4> HIDE DEF n
      <4> QED BY <3>1, <3>2, <3>3 DEF RoomShape
    <3> QED BY <2>4, <3>4, <3>5, <3>6
  <2> QED BY <1>5, <2>1, <2>2, <2>3, <2>4
<1>7. (AllFit /\ AllOrdered /\ Listing)'
  BY <1>2, <1>3, <1>6, JourneyMoves DEF RoomShape
<1>8. Shape'
  BY <1>1, <1>2, <1>3, <1>6 DEF Shape, Elsewhere
<1>9. ClosedOffersNothing'
  BY <1>1, <1>2, <1>3, <1>4, <1>6 DEF ClosedOffersNothing, Elsewhere
<1> QED BY <1>7, <1>8, <1>9 DEF DirectoryInv

(* The rest of the steps: a snapshot, the calls it makes, their effect and *)
(* their answers, and the purge of a closed journey.                       *)
LEMMA SyncStep ==
  ASSUME DirectoryInv, NEW p \in Syncs,
         Snapshot(p) \/ CallUpdate(p) \/ Synchronized(p) \/ Fail(p)
  PROVE  DirectoryInv'
<1>1. /\ Shape /\ ClosedOffersNothing /\ trip \in RoomShape /\ syncs[p] \in Run /\ syncs[p].call \in Call
      /\ MaxRequests \in Nat
  BY DirectoryAssumption DEF DirectoryInv, Shape, Run
<1>2. CASE Snapshot(p)
  <2> DEFINE n == [by |-> p, version |-> trip.indexVersion, request |-> trip.request,
                   known |-> trip.last]
             job == [pc |-> "registering", call |-> n]
  <2>1. n \in Call /\ job \in Run
    BY <1>1 DEF Call, Run, RoomShape, Callers
  <2>2. /\ syncs' = [syncs EXCEPT ![p] = job]
        /\ UNCHANGED <<trip, directory, purging, calls, expired, withdrawn>>
    BY <1>2 DEF Snapshot
  <2>3. /\ n.request = trip.request /\ n.version = trip.indexVersion /\ n.known = trip.last
        /\ job.call = n
    OBVIOUS
  <2> HIDE DEF n, job
  <2>4. \A c: Said(c)' => Said(c) \/ c = n
    BY <1>1, <2>2, <2>3 DEF Said, Shape
  <2>5. Fits(n) /\ Ordered(n, n)
    <3>1. /\ trip.request \notin Ended(n) /\ n.request \notin Ended(n) /\ n.request \notin Ended(Now)
      BY <2>3 DEF Ended, Now
    <3>2. /\ n.request <= n.known /\ n.known <= trip.last /\ n.version <= trip.indexVersion
      BY <1>1, <2>3 DEF ClosedOffersNothing, RoomShape, Requests
    <3>3. ~Gone(n.request, withdrawn)
      BY <2>3 DEF DirectoryInv, Listing
    <3> QED BY <3>1, <3>2, <3>3 DEF Fits, Ordered, Gone
  <2>6. ASSUME NEW c, Said(c) PROVE Ordered(c, n) /\ Ordered(n, c)
    <3>1. Fits(c)
      BY <2>6 DEF DirectoryInv, AllFit
    <3> QED BY <2>3, <3>1 DEF Fits, Ordered, Gone, Ended, Now
  <2>7. (AllFit /\ AllOrdered /\ Listing)'
    BY <2>2, <2>4, <2>5, <2>6, OneMoreSaid
  <2>8. Shape' /\ ClosedOffersNothing'
    <3> HIDE DEF job
    <3> QED BY <1>1, <2>1, <2>2 DEF Shape, ClosedOffersNothing
  <2> QED BY <2>7, <2>8 DEF DirectoryInv
<1>3. CASE CallUpdate(p)
  <2> DEFINE o == syncs[p].call
             n == [o EXCEPT !.request = summary(o.request)]
             job == [pc |-> "updating", call |-> n]
  <2>1. n \in Call /\ job \in Run
    BY <1>1 DEF Call, Run, summary
  <2>2. /\ syncs' = [syncs EXCEPT ![p] = job] /\ calls' = calls \cup {n}
        /\ UNCHANGED <<trip, directory, purging, expired, withdrawn>>
    BY <1>3 DEF CallUpdate
  <2>3. /\ n.version = o.version /\ n.known = o.known
        /\ n.request = o.request \/ (n.request = 0 /\ o.request \in expired)
    BY <1>1 DEF Call, summary
  <2>4. Said(o)
    BY <1>3 DEF CallUpdate, Said
  <2>5. /\ o.request \in 0..MaxRequests /\ o.known \in Requests /\ o.version \in Nat /\ 0 \notin Requests
    BY <1>1 DEF Call, Requests
  <2>6. job.call = n
    OBVIOUS
  <2> HIDE DEF n, job
  <2>7. \A c: Said(c)' => Said(c) \/ c = n
    BY <1>1, <2>2, <2>6 DEF Said, Shape
  <2>8. Fits(n)
    <3>1. Fits(o)
      BY <2>4 DEF DirectoryInv, AllFit
    <3>2. withdrawn \subseteq Requests /\ 0 \notin Ended(Now)
      BY <1>1 DEF Shape, Ended
    <3> QED BY <2>3, <2>5, <3>1, <3>2 DEF Fits, Gone, Ended, Requests
  <2>9. ASSUME NEW c, Said(c) PROVE Ordered(c, n) /\ Ordered(n, c)
    <3>1. Ordered(c, o) /\ Ordered(o, c)
      BY <2>4, <2>9 DEF DirectoryInv, AllOrdered
    <3>2. 0 \notin Ended(c)
      BY DEF Ended
    <3> QED BY <2>3, <3>1, <3>2 DEF Ordered, Gone, Ended
  <2>10. Ordered(n, n)
    BY DEF Ordered, Gone, Ended
  <2>11. (AllFit /\ AllOrdered /\ Listing)'
    BY <2>2, <2>7, <2>8, <2>9, <2>10, OneMoreSaid
  <2>12. Shape' /\ ClosedOffersNothing'
    BY <1>1, <2>1, <2>2 DEF Shape, ClosedOffersNothing
  <2> QED BY <2>11, <2>12 DEF DirectoryInv
<1>4. CASE Synchronized(p) \/ Fail(p)
  <2> DEFINE job == Idle(p)
  <2>1. job \in Run /\ job.pc = "idle"
    BY DirectoryAssumption DEF Idle, Run, Call, Callers, Requests
  <2>2. /\ trip' \in RoomShape
        /\ trip'.request = trip.request /\ trip'.last = trip.last
        /\ trip'.indexVersion = trip.indexVersion
        /\ trip'.closed = trip.closed /\ trip'.live = trip.live
    <3>1. CASE trip' = trip
      BY <1>1, <3>1
    <3>2. CASE trip' = [trip EXCEPT !.indexedVersion = syncs[p].call.version]
      <4>1. syncs[p].call.version \in Nat
        BY <1>1 DEF Call
      <4> QED BY <1>1, <3>2, <4>1 DEF RoomShape
    <3> QED BY <1>4, <3>1, <3>2 DEF Synchronized, Fail, synchronized
  <2>3. /\ syncs' = [syncs EXCEPT ![p] = job] /\ calls' \subseteq calls
        /\ UNCHANGED <<directory, purging, expired, withdrawn>>
    BY <1>4 DEF Synchronized, Fail
  <2> HIDE DEF job
  <2>4. \A c: Said(c)' => Said(c)
    BY <1>1, <2>1, <2>3 DEF Said, Shape
  <2>5. (AllFit /\ AllOrdered /\ Listing)'
    BY <2>2, <2>3, <2>4, NothingNewSaid
  <2>6. Shape' /\ ClosedOffersNothing'
    BY <1>1, <2>1, <2>2, <2>3 DEF Shape, ClosedOffersNothing
  <2> QED BY <2>5, <2>6 DEF DirectoryInv
<1> QED BY <1>2, <1>3, <1>4

(* Only closed journeys are erased: a purge has nothing to say but that    *)
(* every request has ended.                                                *)
LEMMA PurgeStep ==
  ASSUME DirectoryInv, ~RiderMayLeave, StartPurge \/ Erase \/ Purged \/ FailPurge
  PROVE  DirectoryInv'
<1>1. /\ Shape /\ ClosedOffersNothing /\ trip \in RoomShape /\ purging \in Run /\ purging.call \in Call
      /\ MaxRequests \in Nat \ {0}
  BY DirectoryAssumption DEF DirectoryInv, Shape, Run
<1>2. /\ trip.request \in 0..MaxRequests /\ trip.last \in 1..MaxRequests
      /\ trip.indexVersion \in Nat
  BY <1>1 DEF RoomShape, Requests
<1>3. CASE StartPurge
  <2> DEFINE v == trip.indexVersion + 1
             n == [by |-> "purge", version |-> v, request |-> 0, known |-> trip.last]
             job == [pc |-> "registering", call |-> n]
  <2>1. trip.closed /\ trip.request = 0
    BY <1>1, <1>3 DEF StartPurge, ClosedOffersNothing
  <2>2. trip' = closedFor(trip) /\ purging' = job /\ job.call = n
        /\ UNCHANGED <<directory, syncs, calls, expired, withdrawn>>
    BY <1>3 DEF StartPurge
  <2>3. /\ trip' \in RoomShape /\ trip'.request = trip.request /\ trip'.last = trip.last
        /\ trip'.indexVersion = trip.indexVersion /\ trip'.closed = trip.closed
        /\ trip'.live = trip.live
    BY <1>1, <2>1, <2>2 DEF closedFor, RoomShape
  <2>4. v \in Nat
    BY <1>2
  <2>5. n.version = v /\ n.request = 0 /\ n.known = trip.last
    OBVIOUS
  <2>6. n \in Call /\ job \in Run
    <3> HIDE DEF v
    <3> QED BY <1>1, <1>2, <2>4 DEF Call, Run, Callers, Requests
  <2> HIDE DEF n, job
  <2>7. \A c: Said(c)' => Said(c) \/ c = n
    BY <2>2 DEF Said
  <2>8. 0 \notin Ended(n) /\ \A c: 0 \notin Ended(c)
    BY DEF Ended
  <2>9. Fits(n) /\ Ordered(n, n)
    <3>1. 0 \notin withdrawn
      BY <1>1 DEF Shape, Requests
    <3> QED BY <1>2, <2>1, <2>5, <2>8, <3>1 DEF Fits, Ordered, Gone
  <2>10. ASSUME NEW c, Said(c) PROVE Ordered(c, n) /\ Ordered(n, c)
    <3>1. Fits(c) /\ c \in Call
      BY <1>1, <2>10, SaidType DEF DirectoryInv, AllFit
    <3>2. n.version <= c.version => c.request = 0
      BY <1>2, <2>5, <3>1 DEF Fits, Call
    <3> QED BY <2>5, <2>8, <3>2 DEF Ordered, Gone
  <2>11. (AllFit /\ AllOrdered /\ Listing)'
    BY <2>2, <2>3, <2>7, <2>9, <2>10, OneMoreSaid
  <2>12. Shape' /\ ClosedOffersNothing'
    BY <1>1, <2>1, <2>2, <2>3, <2>5, <2>6 DEF Shape, ClosedOffersNothing
  <2> QED BY <2>11, <2>12 DEF DirectoryInv
<1>4. CASE Erase
  <2> DEFINE o == purging.call
  <2>1. trip.closed /\ o.known = trip.last /\ o.request = 0 /\ trip.request = 0
    BY <1>1, <1>4 DEF Erase, ClosedOffersNothing
  <2>2. [o EXCEPT !.known = trip.last] = o
    BY <1>1, <2>1 DEF Call
  <2>3. /\ trip' = [trip EXCEPT !.live = FALSE, !.closed = TRUE, !.request = 0]
        /\ purging' = [pc |-> "updating", call |-> o]
        /\ calls' = calls \cup {o}
        /\ UNCHANGED <<directory, syncs, expired, withdrawn>>
    BY <1>4, <2>2 DEF Erase
  <2>4. /\ trip' \in RoomShape /\ trip'.request = trip.request /\ trip'.last = trip.last
        /\ trip'.indexVersion = trip.indexVersion /\ trip'.closed
    BY <1>1, <2>1, <2>3 DEF RoomShape
  <2>5. purging' \in Run /\ purging'.call = o
    BY <1>1, <2>3 DEF Run
  <2>6. \A c: Said(c)' => Said(c)
    BY <1>4, <2>3 DEF Said, Erase
  <2>7. (AllFit /\ AllOrdered /\ Listing)'
    BY <2>3, <2>4, <2>6, NothingNewSaid
  <2>8. Shape' /\ ClosedOffersNothing'
    BY <1>1, <2>1, <2>3, <2>4, <2>5 DEF Shape, ClosedOffersNothing
  <2> QED BY <2>7, <2>8 DEF DirectoryInv
<1>5. CASE Purged \/ FailPurge
  <2>1. Idle("purge") \in Run /\ Idle("purge").pc = "idle"
    BY DirectoryAssumption DEF Idle, Run, Call, Callers, Requests
  <2>2. /\ purging' = Idle("purge") /\ calls' \subseteq calls
        /\ UNCHANGED <<trip, directory, syncs, expired, withdrawn>>
    BY <1>5 DEF Purged, FailPurge
  <2>3. \A c: Said(c)' => Said(c)
    BY <2>1, <2>2 DEF Said
  <2>4. (AllFit /\ AllOrdered /\ Listing)'
    BY <2>2, <2>3, NothingNewSaid
  <2>5. Shape' /\ ClosedOffersNothing'
    BY <1>1, <2>1, <2>2 DEF Shape, ClosedOffersNothing
  <2> QED BY <2>4, <2>5 DEF DirectoryInv
<1> QED BY <1>3, <1>4, <1>5

LEMMA DeliverStep ==
  ASSUME DirectoryInv, NEW c \in calls, Deliver(c)
  PROVE  DirectoryInv'
<1>1. Shape /\ ClosedOffersNothing /\ Listing /\ MaxRequests \in Nat
  BY DirectoryAssumption DEF DirectoryInv
<1>2. /\ Said(c) /\ Fits(c) /\ c \in Call
      /\ c.version \in Nat /\ c.request \in 0..MaxRequests /\ c.known \in 1..MaxRequests
  BY <1>1, SaidType DEF DirectoryInv, AllFit, Said, Call, Requests
<1>3. UNCHANGED <<trip, expired>>
  BY DEF Deliver
<1>4. \A d: Said(d)' => Said(d)
  <2>1. /\ calls' \subseteq calls /\ syncs' = [p \in Syncs |-> answered(syncs[p], c)]
        /\ purging' = answered(purging, c)
    BY DEF Deliver
  <2>2. \A job \in Run: answered(job, c).call = job.call
                        /\ (answered(job, c).pc # "idle" => job.pc # "idle")
    BY DEF answered, Run
  <2> QED BY <1>1, <2>1, <2>2 DEF Said, Shape
<1>5. (syncs \in [Syncs -> Run] /\ purging \in Run /\ calls \subseteq Call)' /\ ClosedOffersNothing'
  <2>1. \A job \in Run: answered(job, c) \in Run
    BY DEF answered, Run
  <2>2. answered(purging, c).call = purging.call
        /\ (answered(purging, c).pc # "idle" => purging.pc # "idle")
    BY <1>1 DEF answered, Run, Shape
  <2> QED BY <1>1, <1>3, <2>1, <2>2 DEF Deliver, Shape, ClosedOffersNothing
<1>6. CASE ~accepts(directory, c)
  <2>1. directory' = directory /\ withdrawn' = withdrawn
    BY <1>6 DEF Deliver, update
  <2> QED BY <1>1, <1>3, <1>4, <1>5, <2>1, NothingNewSaid DEF DirectoryInv, Shape
<1>7. CASE accepts(directory, c)
  <2>1. /\ directory.version <= c.version
        /\ directory' = [version |-> c.version, listed |-> summary(c.request)]
        /\ withdrawn' = withdrawn \cup Ended(c)
    BY <1>7 DEF Deliver, update, accepts, Ended
  <2>2. directory'.version = c.version /\ directory'.listed = summary(c.request)
        /\ summary(c.request) \in 0..MaxRequests
    BY <1>1, <1>2, <2>1 DEF summary
  <2>3. ASSUME NEW d, Said(d) PROVE Fits(d)'
    <3>1. Fits(d) /\ Ordered(c, d) /\ d \in Call
      BY <1>1, <1>2, <2>3, SaidType DEF DirectoryInv, AllFit, AllOrdered
    <3>2. d.version \in Nat /\ directory.version \in Nat
      BY <1>1, <3>1 DEF Call, Shape
    <3>3. c.version <= d.version => ~Gone(d.request, withdrawn') /\ directory.version <= d.version
      BY <1>2, <2>1, <3>1, <3>2 DEF Fits, Ordered, Gone
    <3>4. Now' = Now /\ trip' = trip /\ expired' = expired
      BY <1>3 DEF Now
    <3> QED BY <2>2, <3>1, <3>3, <3>4 DEF Fits, Gone, Ended
  <2>4. \A d, e: Ordered(d, e) => Ordered(d, e)'
    BY <1>3 DEF Ordered, Gone
  <2>5. Listing'
    <3>1. withdrawn' \subseteq 1..trip.last
      <4>1. c.known <= trip.last /\ trip.last \in 1..MaxRequests
        BY <1>1, <1>2 DEF Fits, Shape, RoomShape, Requests
      <4>2. 1..c.known \subseteq 1..trip.last
        BY <1>1, <1>2, <4>1
      <4> QED BY <1>1, <2>1, <4>2 DEF Listing, Ended
    <3>2. ~Gone(trip.request, withdrawn')
      BY <1>1, <1>2, <2>1 DEF Listing, Fits, Gone
    <3>3. summary(c.request) \notin withdrawn'
      <4>1. c.request \notin Ended(c) /\ 0 \notin Ended(c)
        BY DEF Ended
      <4>2. 0 \notin withdrawn
        BY <1>1 DEF Shape, Requests
      <4>3. ~Gone(c.request, withdrawn)
        BY <1>2, <2>1 DEF Fits
      <4> QED BY <2>1, <4>1, <4>2, <4>3 DEF summary, Gone
    <3>4. directory'.listed \notin withdrawn'
      BY <2>2, <3>3
    <3> QED BY <1>3, <3>1, <3>2, <3>4 DEF Listing, Gone
  <2>6. Shape'
    <3>1. Ended(c) \subseteq Requests
      BY <1>1, <1>2 DEF Ended, Requests
    <3> QED BY <1>1, <1>2, <1>3, <1>5, <2>1, <2>2, <3>1 DEF Shape
  <2> QED BY <1>4, <1>5, <2>3, <2>4, <2>5, <2>6 DEF DirectoryInv, AllFit, AllOrdered
<1> QED BY <1>6, <1>7

LEMMA ExpiryStep ==
  ASSUME DirectoryInv, NEW r \in Requests, RequestExpires(r)
  PROVE  DirectoryInv'
<1>1. /\ expired' = expired \cup {r}
      /\ UNCHANGED <<trip, directory, syncs, purging, calls, withdrawn>>
  BY DEF RequestExpires
<1>2. \A c: Said(c)' => Said(c)
  BY <1>1 DEF Said
<1>3. (AllFit /\ AllOrdered /\ Listing)'
  BY <1>1, <1>2, NothingNewSaid
<1>4. Shape' /\ ClosedOffersNothing'
  BY <1>1 DEF DirectoryInv, Shape, ClosedOffersNothing
<1> QED BY <1>3, <1>4 DEF DirectoryInv

LEMMA DirectoryStep == ~RiderMayLeave /\ DirectoryInv /\ [Next]_vars => DirectoryInv'
<1> SUFFICES ASSUME ~RiderMayLeave, DirectoryInv, [Next]_vars PROVE DirectoryInv'
  OBVIOUS
<1>1. CASE UNCHANGED vars
  <2>1. \A c: Said(c)' => Said(c)
    BY <1>1 DEF vars, Said
  <2>2. (AllFit /\ AllOrdered /\ Listing)'
    BY <1>1, <2>1, NothingNewSaid DEF vars
  <2>3. Shape' /\ ClosedOffersNothing'
    BY <1>1 DEF vars, DirectoryInv, Shape, ClosedOffersNothing
  <2> QED BY <2>2, <2>3 DEF DirectoryInv
<1>2. CASE Next
  BY <1>2, HandlerStep, SyncStep, PurgeStep, DeliverStep, ExpiryStep DEF Next
<1> QED BY <1>1, <1>2

(* Once the directory has been told that a request ended it does not list  *)
(* it again, in whatever order calls arrive and whoever failed meanwhile,  *)
(* if only closed journeys are erased.                                     *)
THEOREM ClosedStaysClosedHolds == ~RiderMayLeave => (Spec => []ClosedStaysClosed)
<1> SUFFICES ASSUME ~RiderMayLeave PROVE Spec => []ClosedStaysClosed
  OBVIOUS
<1>1. Init => DirectoryInv
  BY DirectoryStarts
<1>2. DirectoryInv /\ [Next]_vars => DirectoryInv'
  BY DirectoryStep
<1>3. DirectoryInv => ClosedStaysClosed
  BY DEF DirectoryInv, Listing, ClosedStaysClosed
<1> QED BY <1>1, <1>2, <1>3, PTL DEF Spec

-----------------------------------------------------------------------------
(***************************************************************************)
(* What holds besides.  Whoever has a row in the journal is a deleted user *)
(* to governance, and the row lists the journey for those it promised to.  *)
(***************************************************************************)
Kept(g) ==
  /\ DOMAIN g.journal \subseteq g.deleted
  /\ \A p \in DOMAIN g.journal \cap history.promised : g.journal[p].listed \/ g.journal[p].done

Promises ==
  \A p \in history.promised :
    begun(governance, p) \/ (restore.at = "state" /\ begun(restore.data.governance, p))

Bare(p) == account[p].status # "active" /\ ~account[p].private
Owed(p) == p \in history.promised \ history.late
Fulfilled == \A p \in DOMAIN governance.journal : governance.journal[p].done => Bare(p) /\ (Owed(p) => forgets(p))
Vacant == ~room.live => ~named(room)

(* How far a run of a deletion has got.                                    *)
Achieved(w) ==
  LET p == w.who
  IN w.at \notin {"idle", "begin", "status"} =>
       /\ begun(governance, p)
       /\ w.at = "deactivate" /\ p \in history.promised => w.row
       /\ w.at = "complete" => Bare(p)
       /\ w.at \in {"empty", "complete"} /\ Owed(p) => forgets(p)
       /\ w.at = "scrubbing" /\ Owed(p) => forgets(p) \/ (p = "rider" /\ purge # NoCall)
Working == \A r \in Runs : Achieved(run[r])

(* An archive protects at least whom governance protected when its export  *)
(* began.                                                                  *)
Protects(g, before) == before.deleted \subseteq g.deleted /\ (before.purged => g.purged)
Archived ==
  \A i \in DOMAIN archives :
    /\ Protects(archives[i].governance, archives[i].before) /\ Kept(archives[i].governance)
    /\ DOMAIN archives[i].governance.journal \subseteq DOMAIN governance.journal
Exporting == export # NoCall => Protects(governance, export.data.before)

(* Those whom the restored protection names are gone, and stay so: the     *)
(* restore has merged the protection before it asks for anybody, nobody    *)
(* else is at work, and afterwards governance knows them.                  *)
Returned ==
  LET g == restore.data.governance
  IN /\ Protects(g, restore.data.before) /\ DOMAIN g.journal \subseteq g.deleted
     /\ \A p \in g.deleted : Bare(p) /\ forgets(p)
     /\ "member" \in g.deleted => ~arriving
     /\ g.purged => ~room.live
     /\ Restoring => Kept(g) /\ run["request"] = NoCall /\ ~arriving
     /\ restore.at # "state" => Protects(governance, [deleted |-> g.deleted, purged |-> g.purged])
     /\ restore.at = "account" => nextAccount \notin governance.deleted
     /\ restore.at \in {"trip", "store"} => ~g.purged
     /\ restore.at = "store" => restore.deleted = governance.deleted
Restored == restore # NoCall => Returned

ErasureInv ==
  /\ ErasureTypes /\ Kept(governance) /\ Promises /\ Fulfilled /\ Vacant /\ Working
  /\ Archived /\ Exporting /\ Restored

-----------------------------------------------------------------------------
(* Types.                                                                  *)
LEMMA JournalHas ==
  ASSUME NEW g \in Governance
  PROVE  DOMAIN g.journal \subseteq People /\ \A p \in DOMAIN g.journal : g.journal[p] \in Entry
<1>1. PICK S \in SUBSET People : g.journal \in [S -> Entry]
  BY DEF Governance
<1> QED BY <1>1

LEMMA JournalIs ==
  ASSUME NEW f, NEW S \in SUBSET People, f \in [S -> Entry]
  PROVE  f \in UNION {[T -> Entry] : T \in SUBSET People}
OBVIOUS

LEMMA BegunType ==
  ASSUME NEW g \in Governance, NEW p \in People, NEW b \in BOOLEAN
  PROVE  beginDeletion(g, p, b) \in Governance
<1> DEFINE e == [after |-> DOMAIN g.journal, listed |-> b, done |-> FALSE]
           j == written(g.journal, p, e)
<1>1. e \in Entry
  BY JournalHas DEF Entry
<1>2. j \in [DOMAIN g.journal \cup {p} -> Entry]
  BY <1>1, JournalHas DEF written
<1>3. j \in UNION {[T -> Entry] : T \in SUBSET People}
  BY <1>2, JournalHas, JournalIs
<1> HIDE DEF j
<1>4. [g EXCEPT !.deleted = g.deleted \cup {p}, !.journal = j] \in Governance
  BY <1>3 DEF Governance
<1> QED BY <1>4 DEF beginDeletion, j

LEMMA DoneType ==
  ASSUME NEW g \in Governance, NEW p \in People
  PROVE  completeDeletion(g, p) \in Governance
<1> SUFFICES ASSUME pending(g, p) PROVE completeDeletion(g, p) \in Governance
  BY DEF completeDeletion
<1> DEFINE e == [after |-> g.journal[p].after, listed |-> FALSE, done |-> TRUE]
           j == written(g.journal, p, e)
<1>1. e \in Entry
  BY JournalHas DEF Entry, pending, begun
<1>2. j \in [DOMAIN g.journal \cup {p} -> Entry]
  BY <1>1, JournalHas DEF written
<1>3. j \in UNION {[T -> Entry] : T \in SUBSET People}
  BY <1>2, JournalHas, JournalIs
<1> HIDE DEF j
<1>4. [g EXCEPT !.users = g.users \ {p}, !.journal = j] \in Governance
  BY <1>3 DEF Governance
<1> QED BY <1>4 DEF completeDeletion, j

LEMMA MergedType ==
  ASSUME NEW g \in Governance, NEW b \in Governance
  PROVE  restoreState(g, b) \in Governance
<1> DEFINE j == [p \in DOMAIN g.journal \cup DOMAIN b.journal |-> IF begun(g, p) THEN g.journal[p] ELSE b.journal[p]]
           deleted == g.deleted \cup b.deleted \cup DOMAIN b.journal
           users == (g.users \cup b.users) \ deleted
           purged == g.purged \/ b.purged
           journey == (g.trip \/ b.trip) /\ ~purged
<1>1. j \in [DOMAIN g.journal \cup DOMAIN b.journal -> Entry]
  BY JournalHas DEF begun
<1>2. j \in UNION {[T -> Entry] : T \in SUBSET People}
  BY <1>1, JournalHas, JournalIs
<1>3. deleted \in SUBSET People /\ users \in SUBSET People
  BY JournalHas DEF Governance
<1>4. purged \in BOOLEAN /\ journey \in BOOLEAN
  BY DEF Governance
<1> HIDE DEF j, deleted, users, purged, journey
<1>5. [deleted |-> deleted, purged |-> purged, journal |-> j, users |-> users, trip |-> journey] \in Governance
  BY <1>2, <1>3, <1>4 DEF Governance
<1> QED BY <1>5 DEF restoreState, j, deleted, users, purged, journey

LEMMA NewType == NewGovernance \in Governance /\ DOMAIN NewGovernance.journal = {}
<1> DEFINE j == [p \in {} |-> p]
<1>1. j \in [{} -> Entry] /\ DOMAIN j = {}
  OBVIOUS
<1>2. j \in UNION {[T -> Entry] : T \in SUBSET People}
  BY <1>1, JournalIs
<1> HIDE DEF j
<1>3. [deleted |-> {}, journal |-> j, users |-> {}, trip |-> FALSE, purged |-> FALSE] \in Governance
  BY <1>2 DEF Governance
<1> QED BY <1>1, <1>3 DEF NewGovernance, j

LEMMA TakingType ==
  ASSUME NEW them \in SUBSET People, NEW w \in taking(them)
  PROVE  w \in Deletion /\ w.at = "status"
<1>1. PICK p \in them : w = [at |-> "status", who |-> p, then |-> them \ {p}, row |-> FALSE]
  BY DEF taking
<1> QED BY <1>1 DEF Deletion

LEMMA TripType ==
  ASSUME NEW g \in Governance
  PROVE  recordDeletedTrip(g) \in Governance /\ registerTrip(g) \in Governance
BY DEF recordDeletedTrip, registerTrip, Governance

LEMMA WaitsType ==
  ASSUME ErasureTypes, NEW r \in Runs, NEW w \in {NoCall} \cup Deletion, Waits(r, w)
  PROVE  run' \in [Runs -> {NoCall} \cup Deletion]
BY DEF ErasureTypes, Waits

LEMMA GoesOnType ==
  ASSUME ErasureTypes, NEW r \in Runs, run[r] \in Deletion, GoesOn(r)
  PROVE  /\ run' \in [Runs -> {NoCall} \cup Deletion]
         /\ run'[r].at \in {"idle", "status"} /\ \A q \in Runs \ {r} : run'[q] = run[q]
<1>1. PICK w \in {NoCall} \cup Deletion : Waits(r, w) /\ w.at \in {"idle", "status"}
  <2>1. CASE run[r].then = {}
    BY <2>1 DEF GoesOn, NoCall
  <2>2. CASE run[r].then # {}
    <3>1. PICK w \in taking(run[r].then) : Waits(r, w)
      BY <2>2 DEF GoesOn
    <3> QED BY <3>1, TakingType DEF Deletion
  <2> QED BY <2>1, <2>2
<1> QED BY <1>1, WaitsType DEF Waits, ErasureTypes

LEMMA TypesStart == ErasureInit => ErasureTypes
<1> SUFFICES ASSUME ErasureInit PROVE ErasureTypes
  OBVIOUS
<1>0. scene.joined \in BOOLEAN
  BY ScenesAssumption DEF ErasureInit
<1>1. governance \in Governance
  <2> DEFINE n == NewGovernance
  <2>1. n \in Governance
    BY NewType
  <2> HIDE DEF n
  <2>2. [n EXCEPT !.users = People, !.trip = scene.joined] \in Governance
    BY <1>0, <2>1 DEF Governance
  <2> QED BY <2>2 DEF ErasureInit, n
<1>2. room \in [live: BOOLEAN, erased: BOOLEAN, closed: BOOLEAN, member: Part, unsynced: BOOLEAN]
  <2>1. CASE scene.joined
    BY <2>1 DEF ErasureInit, Part
  <2>2. CASE ~scene.joined
    BY <2>2 DEF ErasureInit, Part, NoRoom
  <2> QED BY <2>1, <2>2
<1>3. account \in [People -> Account]
  BY <1>0 DEF ErasureInit, Account
<1>4. /\ run \in [Runs -> {NoCall} \cup Deletion] /\ sync = NoCall /\ purge = NoCall
      /\ export = NoCall /\ restore = NoCall /\ arriving = FALSE /\ world = "source"
  BY DEF ErasureInit
<1>5. archives \in Seq(Archive) /\ history \in [promised: SUBSET People, late: SUBSET People]
  BY DEF ErasureInit
<1> QED BY <1>1, <1>2, <1>3, <1>4, <1>5 DEF ErasureTypes

(* The handlers and calls of the journey, and deletions.                   *)
RoomType == [live: BOOLEAN, erased: BOOLEAN, closed: BOOLEAN, member: Part, unsynced: BOOLEAN]
SyncType == {NoCall} \cup [at: {"register", "add"}, todo: SUBSET People, fresh: BOOLEAN]
LEMMA OutdatedType == ASSUME ErasureTypes, Outdated PROVE sync' \in SyncType
<1>1. CASE sync = NoCall
  BY <1>1 DEF Outdated, SyncType
<1>2. CASE sync # NoCall
  BY <1>2 DEF Outdated, SyncType, ErasureTypes
<1> QED BY <1>1, <1>2

LEMMA ScrubbedType == ASSUME NEW t \in RoomType PROVE scrubbed(t) \in RoomType /\ ~named(scrubbed(t))
<1> DEFINE part == CASE t.member = "applicant" -> "none" [] t.member = "guardian" -> "anonymous" [] OTHER -> t.member
<1>1. part \in Part \ {"applicant", "guardian"}
  BY DEF RoomType, Part
<1>2. scrubbed(t) = [t EXCEPT !.member = part, !.unsynced = TRUE]
  BY DEF scrubbed
<1> HIDE DEF part
<1>3. scrubbed(t) \in RoomType /\ scrubbed(t).member = part
  BY <1>1, <1>2 DEF RoomType
<1> QED BY <1>1, <1>3 DEF named

LEMMA SyncOfType ==
  ASSUME NEW t
  PROVE  SyncOf(t) \in SyncType
BY DEF SyncOf, SyncType, peopleOf, People

LEMMA TypesOfCalls ==
  ErasureTypes /\ (Authenticate \/ Accept \/ Approve \/ CloseRoom \/ StartSync \/ AskErasure \/ Calls) => ErasureTypes'
<1> SUFFICES ASSUME ErasureTypes, Authenticate \/ Accept \/ Approve \/ CloseRoom \/ StartSync \/ AskErasure \/ Calls
             PROVE  ErasureTypes'
  OBVIOUS
<1> USE DEF objects, operator
<1>1. CASE Authenticate
  BY <1>1 DEF Authenticate, ErasureTypes
<1>2. CASE Accept
  <2>1. CASE UNCHANGED <<room, sync, history>>
    BY <1>2, <2>1 DEF Accept, ErasureTypes
  <2>2. CASE ~UNCHANGED <<room, sync, history>>
    <3> DEFINE part == IF room.member = "none" THEN "applicant" ELSE "guardian"
    <3>1. room' = [room EXCEPT !.member = part, !.unsynced = TRUE] /\ part \in Part
      BY <1>2, <2>2 DEF Accept, Part
    <3>2. room' \in RoomType
      <4> HIDE DEF part
      <4> QED BY <3>1 DEF ErasureTypes, RoomType
    <3>3. history' \in [promised: SUBSET People, late: SUBSET People]
      BY <1>2, <2>2 DEF Accept, ErasureTypes, People
    <3>4. sync' \in SyncType
      BY <1>2, <2>2, OutdatedType DEF Accept
    <3> QED BY <1>2, <3>2, <3>3, <3>4 DEF Accept, ErasureTypes, RoomType, SyncType
  <2> QED BY <2>1, <2>2
<1>3. CASE Approve \/ CloseRoom
  <2>1. room' \in RoomType
    BY <1>3 DEF Approve, CloseRoom, ErasureTypes, RoomType, Part
  <2>2. sync' \in SyncType
    BY <1>3, OutdatedType DEF Approve, CloseRoom
  <2> QED BY <1>3, <2>1, <2>2 DEF Approve, CloseRoom, ErasureTypes, RoomType, SyncType
<1>4. CASE StartSync
  <2>1. sync' \in SyncType
    BY <1>4, SyncOfType DEF StartSync
  <2> QED BY <1>4, <2>1 DEF StartSync, ErasureTypes, SyncType
<1>5. CASE AskErasure
  BY <1>5 DEF AskErasure, ErasureTypes
<1>6. CASE RegisterTrip
  <2>1. sync' \in SyncType
    BY <1>6 DEF RegisterTrip, ErasureTypes, SyncType, NoCall
  <2>2. governance' \in Governance
    BY <1>6, TripType DEF RegisterTrip, ErasureTypes
  <2> QED BY <1>6, <2>1, <2>2 DEF RegisterTrip, ErasureTypes, SyncType
<1>7. CASE AddTrip
  <2>1. sync' \in SyncType
    BY <1>7 DEF AddTrip, ErasureTypes, SyncType, NoCall
  <2>2. PICK p : account' = [account EXCEPT ![p].row = TRUE]
    BY <1>7 DEF AddTrip
  <2>3. [account[p] EXCEPT !.row = TRUE] \in Account \/ p \notin People
    BY DEF ErasureTypes, Account
  <2>4. account' \in [People -> Account]
    BY <2>2, <2>3 DEF ErasureTypes
  <2> QED BY <1>7, <2>1, <2>4 DEF AddTrip, ErasureTypes, SyncType
<1>8. CASE SyncEnds
  <2>1. room' \in RoomType
    BY <1>8 DEF SyncEnds, ErasureTypes, RoomType, NoCall
  <2> QED BY <1>8, <2>1 DEF SyncEnds, ErasureTypes, RoomType
<1>9. CASE RecordPurged
  <2>1. governance' \in Governance
    BY <1>9, TripType DEF RecordPurged, ErasureTypes
  <2> QED BY <1>9, <2>1 DEF RecordPurged, ErasureTypes
<1>10. CASE EraseRoom
  BY <1>10 DEF EraseRoom, ErasureTypes, NoRoom, Part
<1> QED BY <1>1, <1>2, <1>3, <1>4, <1>5, <1>6, <1>7, <1>8, <1>9, <1>10 DEF Calls

LEMMA TypesOfDeletions ==
  ErasureTypes /\ (Wake \/ Interrupt \/ BeginDeletion \/ (\E p \in People : ExportData(p)) \/ \E r \in Runs : Deletes(r))
    => ErasureTypes'
<1> SUFFICES ASSUME ErasureTypes,
                    Wake \/ Interrupt \/ BeginDeletion \/ (\E p \in People : ExportData(p)) \/ \E r \in Runs : Deletes(r)
             PROVE  ErasureTypes'
  OBVIOUS
<1> USE DEF objects, operator
<1> DEFINE RunType == [Runs -> {NoCall} \cup Deletion]
<1>1. CASE Wake
  <2>1. pendingDeletions \in SUBSET People
    BY JournalHas DEF pendingDeletions, ErasureTypes
  <2>2. PICK w \in taking(pendingDeletions) : Waits("cron", w)
    BY <1>1 DEF Wake
  <2>3. run' \in RunType
    BY <2>1, <2>2, TakingType, WaitsType DEF Runs
  <2> QED BY <1>1, <2>3 DEF Wake, ErasureTypes
<1>2. CASE Interrupt
  <2>1. run' \in RunType
    BY <1>2 DEF Interrupt, Waits, ErasureTypes
  <2>2. sync' \in {sync, NoCall} /\ purge' \in {purge, NoCall}
    BY <1>2 DEF Interrupt
  <2> QED BY <1>2, <2>1, <2>2 DEF Interrupt, ErasureTypes
<1>3. CASE BeginDeletion
  <2> DEFINE w == run["request"]
  <2>0. w \in Deletion /\ "request" \in Runs
    BY <1>3 DEF BeginDeletion, ErasureTypes, Runs, NoCall
  <2>1. [w EXCEPT !.at = "status"] \in Deletion
    BY <2>0 DEF Deletion
  <2>2. run' \in RunType
    BY <1>3, <2>0, <2>1, WaitsType DEF BeginDeletion
  <2>3. governance' \in Governance
    BY <1>3, <2>0, BegunType DEF BeginDeletion, ErasureTypes, Deletion
  <2>4. history' \in [promised: SUBSET People, late: SUBSET People]
    BY <1>3, <2>0 DEF BeginDeletion, ErasureTypes, Deletion
  <2> QED BY <1>3, <2>2, <2>3, <2>4 DEF BeginDeletion, ErasureTypes
<1>4. ASSUME NEW p \in People, ExportData(p) PROVE ErasureTypes'
  <2>1. [at |-> "begin", who |-> p, then |-> {}, row |-> account[p].row] \in Deletion
    BY DEF ErasureTypes, Account, Deletion
  <2>2. run' \in RunType
    BY <1>4, <2>1, WaitsType DEF ExportData, Runs
  <2> QED BY <1>4, <2>2 DEF ExportData, ErasureTypes
<1>5. ASSUME NEW r \in Runs, Deletes(r) PROVE ErasureTypes'
  <2> DEFINE w == run[r]
  <2>00. w.at # "idle"
    BY <1>5 DEF Deletes, ReadJournal, Deactivate, ScrubPerson, Scrubbed, PurgePrivate, CompleteDeletion
  <2>0. w \in Deletion /\ w.who \in People
    BY <2>00 DEF ErasureTypes, NoCall, Deletion
  <2>1. CASE ReadJournal(r)
    <3>1. CASE pending(governance, w.who)
      <4>1. listed(governance, w.who) \in BOOLEAN
        BY <3>1, JournalHas DEF pending, listed, begun, ErasureTypes, Entry
      <4>2. [w EXCEPT !.at = "deactivate", !.row = listed(governance, w.who)] \in Deletion
        BY <2>0, <4>1 DEF Deletion
      <4>3. run' \in RunType
        BY <2>1, <3>1, <4>2, WaitsType DEF ReadJournal
      <4> QED BY <2>1, <4>3 DEF ReadJournal, ErasureTypes
    <3>2. CASE ~pending(governance, w.who)
      BY <2>0, <2>1, <3>2, GoesOnType DEF ReadJournal, ErasureTypes
    <3> QED BY <3>1, <3>2
  <2>2. CASE Deactivate(r) \/ PurgePrivate(r)
    <3>0. deactivated(account[w.who]) \in Account /\ emptied(account[w.who]) \in Account
      BY <2>0 DEF ErasureTypes, Account, deactivated, emptied
    <3>1. account' \in [People -> Account]
      BY <2>2, <3>0 DEF Deactivate, PurgePrivate, ErasureTypes
    <3>2. \E at \in {"scrub", "empty", "complete"} : Waits(r, [w EXCEPT !.at = at])
      BY <2>2 DEF Deactivate, PurgePrivate
    <3>3. \A at \in {"scrub", "empty", "complete"} : [w EXCEPT !.at = at] \in Deletion
      BY <2>0 DEF Deletion
    <3>4. run' \in RunType
      BY <3>2, <3>3, WaitsType
    <3> QED BY <2>2, <3>1, <3>4 DEF Deactivate, PurgePrivate, ErasureTypes
  <2>3. CASE ScrubPerson(r) \/ Scrubbed(r)
    <3>1. \A at \in {"scrubbing", "empty"} : [w EXCEPT !.at = at] \in Deletion
      BY <2>0 DEF Deletion
    <3>2. run' \in RunType
      BY <2>3, <3>1, WaitsType DEF ScrubPerson, Scrubbed
    <3>3. room' \in RoomType
      <4>1. scrubbed(room) \in RoomType
        BY ScrubbedType DEF ErasureTypes, RoomType
      <4>2. [room EXCEPT !.closed = TRUE] \in RoomType
        BY DEF ErasureTypes, RoomType
      <4> QED BY <2>3, <4>1, <4>2 DEF ScrubPerson, Scrubbed, ErasureTypes, RoomType
    <3>4. sync' \in SyncType
      BY <2>3, SyncOfType DEF ScrubPerson, Scrubbed, ErasureTypes, SyncType
    <3>5. purge' \in {NoCall} \cup [at: {"record", "erase"}]
      BY <2>3 DEF ScrubPerson, Scrubbed, ErasureTypes
    <3> QED BY <2>3, <3>2, <3>3, <3>4, <3>5 DEF ScrubPerson, Scrubbed, ErasureTypes, RoomType, SyncType
  <2>4. CASE CompleteDeletion(r)
    <3>1. governance' \in Governance
      BY <2>0, <2>4, DoneType DEF CompleteDeletion, ErasureTypes
    <3>2. run' \in RunType
      BY <2>0, <2>4, GoesOnType DEF CompleteDeletion
    <3> QED BY <2>4, <3>1, <3>2 DEF CompleteDeletion, ErasureTypes
  <2> QED BY <1>5, <2>1, <2>2, <2>3, <2>4 DEF Deletes
<1> QED BY <1>1, <1>2, <1>3, <1>4, <1>5

(* The operator.                                                           *)
LEMMA RestoresType ==
  ASSUME restore \in Restoration,
         NEW at \in {"state", "users", "account", "trip", "store", "complete", "done"},
         at \in {"trip", "store"} => restore.data.trip # "absent",
         NEW todo \in SUBSET People, NEW deleted \in SUBSET People
  PROVE  /\ [restore EXCEPT !.at = at] \in Restoration
         /\ [restore EXCEPT !.at = at, !.todo = todo] \in Restoration
         /\ [restore EXCEPT !.at = at, !.deleted = deleted] \in Restoration
         /\ [restore EXCEPT !.at = at, !.todo = todo, !.deleted = deleted] \in Restoration
         /\ restore.at \notin {"trip", "store"} => [restore EXCEPT !.todo = todo] \in Restoration
BY DEF Restoration

LEMMA TypesOfExports ==
  ErasureTypes /\ (StartExport \/ ExportAccount \/ ListTrips \/ ExportTrip \/ ExportState) => ErasureTypes'
<1> SUFFICES ASSUME ErasureTypes, StartExport \/ ExportAccount \/ ListTrips \/ ExportTrip \/ ExportState
             PROVE  ErasureTypes'
  OBVIOUS
<1> DEFINE ExportType == {NoCall} \cup [at: {"users", "trip", "governance"}, todo: SUBSET People, data: Archive]
<1>0. governance.users \in SUBSET People /\ NothingYet \in Archive
  <2>1. governance.users \in SUBSET People /\ governance.deleted \in SUBSET People /\ governance.purged \in BOOLEAN
    BY DEF ErasureTypes, Governance
  <2> DEFINE n == NewGovernance
  <2>2. n \in Governance
    BY NewType
  <2> HIDE DEF n
  <2>3. [users |-> {}, rows |-> {}, trip |-> "absent", governance |-> n,
         before |-> [deleted |-> governance.deleted, purged |-> governance.purged]] \in Archive
    BY <2>1, <2>2 DEF Archive
  <2> QED BY <2>1, <2>3 DEF NothingYet, n
<1>1. CASE StartExport
  <2>1. export' \in ExportType
    BY <1>0, <1>1 DEF StartExport
  <2> QED BY <1>1, <2>1 DEF StartExport, ErasureTypes, people
<1>a. ASSUME NEW x, export.at = x, x # "idle" PROVE export.data \in Archive /\ export.todo \in SUBSET People /\ export # NoCall
  BY <1>a DEF ErasureTypes, NoCall
<1>2. CASE ExportAccount
  <2> DEFINE d == export.data
             p == IF "member" \in export.todo THEN "member" ELSE "rider"
             e == withAccount(d, p)
  <2>1. d \in Archive /\ export.todo \in SUBSET People /\ export # NoCall
    BY <1>2, <1>a DEF ExportAccount
  <2>2. p \in People
    BY DEF People
  <2>3. e \in Archive
    <3> HIDE DEF p
    <3> QED BY <2>1, <2>2 DEF Archive, withAccount
  <2>4. export' = [export EXCEPT !.todo = export.todo \ {p}, !.data = e]
    BY <1>2 DEF ExportAccount
  <2>5. export' \in ExportType
    <3> HIDE DEF e, p
    <3> QED BY <2>1, <2>3, <2>4 DEF ErasureTypes
  <2> QED BY <1>2, <2>5 DEF ExportAccount, ErasureTypes, people
<1>3. CASE ListTrips
  <2>1. export' \in ExportType
    BY <1>3, <1>a DEF ListTrips, ErasureTypes
  <2> QED BY <1>3, <2>1 DEF ListTrips, ErasureTypes, people
<1>4. CASE ExportTrip
  <2> DEFINE t == IF room.live THEN room.member ELSE "absent"
  <2>0. t \in {"absent"} \cup Part
    BY DEF ErasureTypes
  <2>1. export.data \in Archive /\ export # NoCall
    BY <1>4, <1>a DEF ExportTrip
  <2>2. [export.data EXCEPT !.trip = t] \in Archive
    <3> HIDE DEF t
    <3> QED BY <2>0, <2>1 DEF Archive
  <2>3. export' = [export EXCEPT !.at = "governance", !.data = [export.data EXCEPT !.trip = t]]
    BY <1>4 DEF ExportTrip
  <2>4. export' \in ExportType
    <3> HIDE DEF t
    <3> QED BY <2>1, <2>2, <2>3 DEF ErasureTypes
  <2> QED BY <1>4, <2>4 DEF ExportTrip, ErasureTypes, people
<1>5. CASE ExportState
  <2>1. export.data \in Archive
    BY <1>5, <1>a DEF ExportState
  <2>2. [export.data EXCEPT !.governance = governance] \in Archive
    BY <2>1 DEF Archive, ErasureTypes
  <2>3. archives' \in Seq(Archive)
    BY <1>5, <2>2 DEF ExportState, ErasureTypes
  <2> QED BY <1>5, <2>3 DEF ExportState, ErasureTypes, people
<1> QED BY <1>1, <1>2, <1>3, <1>4, <1>5

LEMMA TypesOfRestores ==
  ErasureTypes /\ (LoseSource \/ RestoreState \/ CheckAccount \/ RestoreAccount \/ CheckTrip \/ ReadStatuses \/ StoreTrip
                   \/ CompleteRestore \/ RestoreAgain)
    => ErasureTypes'
<1> SUFFICES ASSUME ErasureTypes,
                    LoseSource \/ RestoreState \/ CheckAccount \/ RestoreAccount \/ CheckTrip \/ ReadStatuses \/ StoreTrip
                    \/ CompleteRestore \/ RestoreAgain
             PROVE  ErasureTypes'
  OBVIOUS
<1> USE DEF objects
<1>1. CASE LoseSource
  <2>1. PICK i \in DOMAIN archives, j \in DOMAIN archives :
          restore' = [at |-> "state", data |-> applyProtection(archives[i], archives[j]), todo |-> {}, deleted |-> {}]
    BY <1>1 DEF LoseSource
  <2>2. archives[i] \in Archive /\ archives[j] \in Archive
    BY ElementOfSeq DEF ErasureTypes
  <2>3. applyProtection(archives[i], archives[j]) \in Archive
    BY <2>2 DEF applyProtection, Archive
  <2>4. restore' \in Restoration
    BY <2>1, <2>3 DEF Restoration
  <2>5. governance' \in Governance
    BY <1>1, NewType DEF LoseSource
  <2>6. account' \in [People -> Account] /\ room' \in RoomType
    BY <1>1 DEF LoseSource, Account, NoAccount, NoRoom, RoomType, Part
  <2>7. history' \in [promised: SUBSET People, late: SUBSET People]
    BY <1>1 DEF LoseSource, ErasureTypes
  <2>8. /\ run' \in [Runs -> {NoCall} \cup Deletion] /\ sync' = NoCall /\ purge' = NoCall
        /\ export' = NoCall /\ arriving' = FALSE /\ world' = "recovery" /\ archives' = <<>>
    BY <1>1 DEF LoseSource
  <2>9. archives' \in Seq(Archive)
    BY <2>8
  <2> QED BY <2>4, <2>5, <2>6, <2>7, <2>8, <2>9 DEF ErasureTypes, RoomType
<1>a. restore \in Restoration \/ restore.at = "idle"
  BY DEF ErasureTypes, NoCall
<1>0. CASE restore \in Restoration
  <2>0. restore.data \in Archive /\ restore.data.governance \in Governance /\ restore.todo \in SUBSET People
        /\ restore.data.users \in SUBSET People /\ governance.deleted \in SUBSET People
    BY <1>0 DEF Restoration, Archive, ErasureTypes, Governance
  <2>1. CASE RestoreState
    <3>1. governance' \in Governance
      BY <2>0, <2>1, MergedType DEF RestoreState, ErasureTypes
    <3>2. restore' \in Restoration
      BY <1>0, <2>0, <2>1, RestoresType DEF RestoreState, Restores
    <3> QED BY <2>1, <3>1, <3>2 DEF RestoreState, Restores, ErasureTypes, others
  <2>2. CASE CheckAccount \/ CheckTrip \/ ReadStatuses \/ CompleteRestore
    <3>1. ASSUME CheckAccount PROVE restore' \in Restoration
      BY <1>0, <2>0, <3>1, RestoresType DEF CheckAccount, Restores
    <3>2. ASSUME CheckTrip PROVE restore' \in Restoration
      BY <1>0, <2>0, <3>2, RestoresType DEF CheckTrip, Restores
    <3>3. ASSUME ReadStatuses PROVE restore' \in Restoration
      <4>1. restore.data.trip # "absent"
        BY <1>0, <3>3 DEF ReadStatuses, Restoration
      <4> QED BY <1>0, <2>0, <3>3, <4>1, RestoresType DEF ReadStatuses, Restores
    <3>4. ASSUME CompleteRestore PROVE restore' \in Restoration
      BY <1>0, <2>0, <3>4, RestoresType DEF CompleteRestore, Restores
    <3>5. restore' \in Restoration
      BY <2>2, <3>1, <3>2, <3>3, <3>4
    <3> QED BY <2>2, <3>5 DEF CheckAccount, CheckTrip, ReadStatuses, CompleteRestore, Restores, ErasureTypes, others
  <2>3. CASE RestoreAccount
    <3>1. restore' \in Restoration
      BY <1>0, <2>0, <2>3, RestoresType DEF RestoreAccount, Restores
    <3>2. [status |-> "active", private |-> TRUE, row |-> nextAccount \in restore.data.rows] \in Account
      BY DEF Account
    <3>3. account' \in [People -> Account]
      BY <2>3, <3>2 DEF RestoreAccount, ErasureTypes
    <3> QED BY <2>3, <3>1, <3>3 DEF RestoreAccount, Restores, ErasureTypes, others
  <2>4. CASE StoreTrip
    <3>1. restore' \in Restoration
      BY <1>0, <2>0, <2>4, RestoresType DEF StoreTrip, Restores
    <3>2. CASE "rider" \in restore.deleted
      <4>1. governance' \in Governance
        BY <2>4, <3>2, TripType DEF StoreTrip, ErasureTypes
      <4>2. room' \in RoomType
        BY <2>4, <3>2 DEF StoreTrip, ErasureTypes, RoomType
      <4> QED BY <2>4, <3>1, <3>2, <4>1, <4>2 DEF StoreTrip, Restores, ErasureTypes, RoomType, others
    <3>3. CASE "rider" \notin restore.deleted /\ (room.live \/ room.erased)
      BY <2>4, <3>1, <3>3 DEF StoreTrip, Restores, ErasureTypes, others
    <3>4. CASE "rider" \notin restore.deleted /\ ~(room.live \/ room.erased)
      <4> DEFINE n == NoRoom
                 t == [n EXCEPT !.live = TRUE, !.closed = TRUE, !.unsynced = TRUE, !.member = restore.data.trip]
      <4>1. restore.data.trip \in Part
        BY <1>0, <2>0, <2>4 DEF Archive, Restoration, StoreTrip
      <4>2. t \in RoomType
        <5>1. n \in RoomType
          BY DEF NoRoom, RoomType, Part
        <5> HIDE DEF n
        <5> QED BY <4>1, <5>1 DEF RoomType
      <4>3. room' \in {t, scrubbed(t)} /\ sync' = SyncOf(room')
        BY <2>4, <3>4 DEF StoreTrip, stored
      <4>4. room' \in RoomType /\ sync' \in SyncType
        <5> HIDE DEF t
        <5> QED BY <4>2, <4>3, SyncOfType, ScrubbedType
      <4> QED BY <2>4, <3>1, <3>4, <4>4 DEF StoreTrip, Restores, ErasureTypes, RoomType, SyncType, others
    <3> QED BY <3>2, <3>3, <3>4
  <2>5. CASE RestoreAgain
    <3>1. restore' \in Restoration
      BY <1>0, <2>0, <2>5, RestoresType DEF RestoreAgain, Restores
    <3> QED BY <2>5, <3>1 DEF RestoreAgain, Restores, ErasureTypes
  <2> QED BY <1>1, <2>1, <2>2, <2>3, <2>4, <2>5
<1>b. CASE restore.at = "idle"
  BY <1>1, <1>b DEF RestoreState, CheckAccount, RestoreAccount, CheckTrip, ReadStatuses, StoreTrip, CompleteRestore,
                    RestoreAgain, Restoring
<1> QED BY <1>a, <1>0, <1>b

-----------------------------------------------------------------------------
(***************************************************************************)
(* Steps within a world.  What was erased stays so, except for the member  *)
(* whose act arrives late.                                                 *)
(***************************************************************************)
Late(p) == p = "member" /\ arriving /\ (begun(governance, p) => p \in history'.late)
Onward ==
  /\ DOMAIN governance.journal \subseteq DOMAIN governance'.journal
  /\ governance.deleted \subseteq governance'.deleted /\ (governance.purged => governance'.purged)
  /\ history.late \subseteq history'.late
  /\ \A p \in history'.promised : p \in history.promised \/ ~begun(governance, p)
  /\ \A p \in People : (Bare(p) => Bare(p)') /\ (forgets(p) => forgets(p)' \/ Late(p))

LEMMA StaysAchieved ==
  ASSUME ErasureTypes, Onward, NEW r \in Runs, Achieved(run[r]), run'[r] = run[r],
         run[r].at = "scrubbing" /\ purge # NoCall => purge' # NoCall \/ ~room'.live
  PROVE  Achieved(run[r])'
<1> DEFINE w == run[r]
<1> SUFFICES ASSUME w.at \notin {"idle", "begin", "status"} PROVE Achieved(run[r])'
  BY DEF Achieved
<1>1. w.who \in People
  BY DEF ErasureTypes, NoCall, Deletion
<1>2. begun(governance, w.who) /\ begun(governance', w.who)
  BY DEF Achieved, Onward, begun
<1>3. w.who \in history'.promised => w.who \in history.promised
  BY <1>2 DEF Onward
<1>4. Owed(w.who)' => Owed(w.who) /\ ~Late(w.who)
  BY <1>2, <1>3 DEF Owed, Onward, Late
<1>5. Bare(w.who) => Bare(w.who)'
  BY <1>1 DEF Onward
<1>6. Owed(w.who)' /\ forgets(w.who) => forgets(w.who)'
  BY <1>1, <1>4 DEF Onward
<1>7. w.who = "rider" /\ ~room'.live => forgets(w.who)'
  BY DEF forgets
<1> QED BY <1>2, <1>3, <1>4, <1>5, <1>6, <1>7 DEF Achieved

LEMMA StaysFulfilled ==
  ASSUME ErasureTypes, Onward, Kept(governance), Fulfilled, governance'.journal = governance.journal
  PROVE  Kept(governance)' /\ Fulfilled'
<1>1. \A p \in DOMAIN governance.journal : p \in People /\ (p \in history'.promised => p \in history.promised)
  BY JournalHas DEF ErasureTypes, Onward, begun
<1>2. Kept(governance)'
  BY <1>1 DEF Kept, Onward
<1>3. ASSUME NEW p \in DOMAIN governance.journal, governance.journal[p].done
      PROVE  Bare(p)' /\ (Owed(p)' => forgets(p)')
  <2>1. Owed(p)' => Owed(p) /\ ~Late(p)
    BY <1>1, <1>3 DEF Owed, Onward, Late, begun
  <2> QED BY <1>1, <1>3, <2>1 DEF Fulfilled, Onward
<1> QED BY <1>2, <1>3 DEF Fulfilled

LEMMA StaysArchived ==
  ASSUME Onward, Archived, archives' = archives
  PROVE  Archived'
<1> SUFFICES ASSUME NEW i \in DOMAIN archives
             PROVE  /\ Protects(archives[i].governance, archives[i].before) /\ Kept(archives[i].governance)'
                    /\ DOMAIN archives[i].governance.journal \subseteq DOMAIN governance'.journal
  BY DEF Archived, Protects
<1> DEFINE g == archives[i].governance
<1>1. Protects(g, archives[i].before) /\ Kept(g) /\ DOMAIN g.journal \subseteq DOMAIN governance.journal
  BY DEF Archived
<1>2. \A p \in DOMAIN g.journal \cap history'.promised : p \in history.promised
  BY <1>1 DEF Onward, begun
<1>3. Kept(g)'
  BY <1>1, <1>2 DEF Kept
<1> QED BY <1>1, <1>3 DEF Onward

(* Nothing that a restore rests on is touched: while it lasts nobody else  *)
(* deletes or joins.                                                       *)
LEMMA StaysRestored ==
  ASSUME ErasureTypes, Onward, Restored, restore' = restore,
         Restoring => governance'.deleted = governance.deleted /\ history'.promised = history.promised
                      /\ run'["request"] = NoCall /\ ~arriving',
         arriving' => arriving \/ "member" \notin governance.deleted
  PROVE  Restored'
<1> SUFFICES ASSUME restore # NoCall PROVE Returned'
  BY DEF Restored
<1>0. Returned
  BY DEF Restored
<1> DEFINE g == restore.data.governance
<1>1. restore \in Restoration /\ g \in Governance
  BY DEF ErasureTypes, Restoration, Archive
<1>2. \A p \in g.deleted : p \in People /\ Bare(p)' /\ forgets(p)'
  <2>1. \A p \in g.deleted : p \in People /\ ~Late(p)
    BY <1>0, <1>1 DEF Returned, Late, Governance
  <2> QED BY <1>0, <2>1 DEF Returned, Onward
<1>3. "member" \in g.deleted => ~arriving'
  BY <1>0, <1>1 DEF Returned, Restoring, Protects
<1>4. g.purged => ~room'.live
  BY <1>0 DEF Returned, Onward, forgets, Late, People
<1>5. Restoring => Kept(g)'
  BY <1>0 DEF Returned, Kept
<1>6. restore.at # "state" => Protects(governance', [deleted |-> g.deleted, purged |-> g.purged])
  BY <1>0 DEF Returned, Protects, Onward
<1>7. restore.at = "account" => nextAccount \notin governance'.deleted
  BY <1>0 DEF Returned, Restoring
<1>8. restore.at = "store" => restore.deleted = governance'.deleted
  BY <1>0 DEF Returned, Restoring
<1>9. nextAccount' = nextAccount /\ (Restoring' <=> Restoring)
  BY DEF nextAccount, Restoring
<1> QED BY <1>0, <1>2, <1>3, <1>4, <1>5, <1>6, <1>7, <1>8, <1>9 DEF Returned, Protects

LEMMA Steady ==
  ASSUME ErasureInv, ErasureTypes', Onward, Working', Vacant', Exporting',
         governance'.journal = governance.journal, history'.promised = history.promised,
         archives' = archives, restore' = restore, governance'.deleted = governance.deleted,
         Restoring => run'["request"] = NoCall /\ ~arriving',
         arriving' => arriving \/ "member" \notin governance.deleted
  PROVE  ErasureInv'
BY StaysFulfilled, StaysArchived, StaysRestored DEF ErasureInv, Promises, begun

(* The journey's own part: only the late act of the member undoes          *)
(* anything.                                                               *)
LEMMA SameRuns == ASSUME ErasureInv, Onward, run' = run, purge' = purge PROVE Working'
BY StaysAchieved DEF ErasureInv, Working

LEMMA CallsKeep ==
  ErasureInv /\ (Authenticate \/ Accept \/ Approve \/ CloseRoom \/ StartSync \/ AskErasure \/ Calls) => ErasureInv'
<1> SUFFICES ASSUME ErasureInv, Authenticate \/ Accept \/ Approve \/ CloseRoom \/ StartSync \/ AskErasure \/ Calls
             PROVE  ErasureInv'
  OBVIOUS
<1>t. ErasureTypes /\ ErasureTypes'
  BY TypesOfCalls DEF ErasureInv
<1> USE DEF objects, operator
<1>r. run' = run /\ restore' = restore /\ archives' = archives /\ export' = export
  BY DEF Authenticate, Accept, Approve, CloseRoom, StartSync, AskErasure, Calls, RegisterTrip, AddTrip, SyncEnds,
         RecordPurged, EraseRoom
<1>i. Restoring => run["request"] = NoCall /\ ~arriving
  BY DEF ErasureInv, Restored, Returned, Restoring, NoCall
<1>0. /\ governance'.journal = governance.journal /\ governance'.deleted = governance.deleted
      /\ governance.purged => governance'.purged
  BY <1>t DEF Authenticate, Accept, Approve, CloseRoom, StartSync, AskErasure, Calls, RegisterTrip, AddTrip, SyncEnds,
         RecordPurged, EraseRoom, registerTrip, recordDeletedTrip, ErasureTypes, Governance
<1>b. \A p \in People : Bare(p) => Bare(p)'
  BY <1>t DEF Authenticate, Accept, Approve, CloseRoom, StartSync, AskErasure, Calls, RegisterTrip, AddTrip, SyncEnds,
         RecordPurged, EraseRoom, ErasureTypes, Account, Bare
<1>e. Exporting'
  BY <1>r, <1>0 DEF ErasureInv, Exporting, Protects
<1>1. CASE Accept
  <2>1. Onward
    <3>1. forgets("rider") => forgets("rider")'
      BY <1>1, <1>t DEF Accept, forgets, ErasureTypes
    <3>2. CASE UNCHANGED <<room, sync, history>>
      BY <1>0, <1>1, <1>b, <3>2 DEF Accept, Onward, forgets
    <3>3. CASE history' = IF begun(governance, "member") THEN [history EXCEPT !.late = history.late \cup {"member"}] ELSE history
      <4>1. history'.promised = history.promised /\ history.late \subseteq history'.late
        BY <1>t, <3>3 DEF ErasureTypes
      <4>2. Late("member")
        BY <1>1, <1>t, <3>3 DEF Accept, Late, ErasureTypes
      <4> QED BY <1>0, <1>b, <3>1, <4>1, <4>2 DEF Onward, People
    <3> QED BY <1>1, <3>2, <3>3 DEF Accept
  <2>2. history'.promised = history.promised /\ purge' = purge /\ ~arriving'
    BY <1>1, <1>t DEF Accept, ErasureTypes
  <2>3. Vacant'
    BY <1>1, <1>t DEF Accept, ErasureInv, Vacant, ErasureTypes
  <2> QED BY <1>t, <1>r, <1>i, <1>0, <1>e, <2>1, <2>2, <2>3, SameRuns, Steady
<1>2. CASE Authenticate \/ Approve \/ CloseRoom \/ StartSync \/ AskErasure \/ Calls
  <2>0. history' = history
    BY <1>2 DEF Authenticate, Approve, CloseRoom, StartSync, AskErasure, Calls, RegisterTrip, AddTrip, SyncEnds,
         RecordPurged, EraseRoom
  <2>1. /\ room'.live => room.live
        /\ named(room)' => named(room) /\ room'.live = room.live
    BY <1>2, <1>t DEF Authenticate, Approve, CloseRoom, StartSync, AskErasure, Calls, RegisterTrip, AddTrip, SyncEnds,
         RecordPurged, EraseRoom, ErasureTypes, named, NoRoom
  <2>2. Onward
    BY <1>0, <1>b, <2>0, <2>1 DEF Onward, forgets
  <2>3. Vacant'
    BY <2>1 DEF ErasureInv, Vacant
  <2>4. Restoring => ~arriving'
    BY <1>2, <1>i DEF Authenticate, Approve, CloseRoom, StartSync, AskErasure, Calls, RegisterTrip, AddTrip, SyncEnds,
         RecordPurged, EraseRoom
  <2>5. arriving' => arriving \/ "member" \notin governance.deleted
    BY <1>2 DEF Authenticate, Approve, CloseRoom, StartSync, AskErasure, Calls, RegisterTrip, AddTrip, SyncEnds,
         RecordPurged, EraseRoom
  <2>6. purge # NoCall => purge' # NoCall \/ ~room'.live
    BY <1>2 DEF Authenticate, Approve, CloseRoom, StartSync, AskErasure, Calls, RegisterTrip, AddTrip, SyncEnds,
         RecordPurged, EraseRoom, NoRoom, NoCall
  <2>7. Working'
    BY <1>r, <1>t, <2>2, <2>6, StaysAchieved DEF ErasureInv, Working
  <2> QED BY <1>t, <1>r, <1>i, <1>0, <1>e, <2>0, <2>2, <2>3, <2>4, <2>5, <2>7, Steady
<1> QED BY <1>1, <1>2

LEMMA ExportsKeep ==
  ErasureInv /\ (StartExport \/ ExportAccount \/ ListTrips \/ ExportTrip \/ ExportState) => ErasureInv'
<1> SUFFICES ASSUME ErasureInv, StartExport \/ ExportAccount \/ ListTrips \/ ExportTrip \/ ExportState
             PROVE  ErasureInv'
  OBVIOUS
<1>t. ErasureTypes /\ ErasureTypes'
  BY TypesOfExports DEF ErasureInv
<1>0. people' = people /\ restore' = restore
  BY DEF StartExport, ExportAccount, ListTrips, ExportTrip, ExportState
<1>1. Onward
  BY <1>0 DEF people, Onward, Bare, forgets
<1>2. Kept(governance)' /\ Promises' /\ Fulfilled' /\ Vacant' /\ Working'
  BY <1>0 DEF ErasureInv, people, Kept, Promises, begun, Fulfilled, Vacant, Working, Achieved, Bare, forgets, Owed
<1>3. Restored'
  <2>1. Restoring => run'["request"] = NoCall /\ ~arriving'
    BY <1>0 DEF ErasureInv, Restored, Returned, Restoring, NoCall, people
  <2> QED BY <1>0, <1>1, <1>t, <2>1, StaysRestored DEF ErasureInv, people
<1>4. Exporting'
  <2>1. CASE StartExport
    BY <1>0, <2>1 DEF StartExport, NothingYet, Exporting, Protects, people
  <2>2. CASE ExportAccount \/ ListTrips \/ ExportTrip
    <3>1. export # NoCall /\ export.data \in Archive
      BY <1>t, <2>2 DEF ExportAccount, ListTrips, ExportTrip, ErasureTypes, NoCall
    <3>2. export'.data.before = export.data.before
      <4>1. \A p : withAccount(export.data, p).before = export.data.before
        BY <3>1 DEF withAccount, Archive
      <4>2. CASE ExportAccount
        BY <1>t, <3>1, <4>1, <4>2 DEF ExportAccount, ErasureTypes
      <4>3. CASE ListTrips
        BY <1>t, <3>1, <4>3 DEF ListTrips, ErasureTypes
      <4>4. CASE ExportTrip
        BY <1>t, <3>1, <4>4 DEF ExportTrip, ErasureTypes, Archive
      <4> QED BY <2>2, <4>2, <4>3, <4>4
    <3> QED BY <1>0, <3>1, <3>2 DEF ErasureInv, Exporting, people
  <2>3. CASE ExportState
    BY <2>3 DEF ExportState, Exporting
  <2> QED BY <2>1, <2>2, <2>3
<1>5. Archived'
  <2>1. CASE archives' = archives
    BY <1>1, <2>1, StaysArchived DEF ErasureInv
  <2>2. CASE ExportState
    <3> DEFINE d == [export.data EXCEPT !.governance = governance]
    <3>1. export # NoCall /\ export.data \in Archive
      BY <1>t, <2>2 DEF ExportState, ErasureTypes, NoCall
    <3>2. d.governance = governance /\ d.before = export.data.before
      BY <3>1 DEF Archive
    <3>3. archives' = Append(archives, d) /\ archives \in Seq(Archive) /\ d \in Archive
      BY <1>t, <2>2, <3>1 DEF ExportState, ErasureTypes, Archive
    <3>4. \A i \in DOMAIN archives' : (i \in DOMAIN archives /\ archives'[i] = archives[i]) \/ archives'[i] = d
      <4> HIDE DEF d
      <4> QED BY <3>3, AppendProperties
    <3>5. Protects(governance, d.before) /\ Kept(governance)
      BY <3>1, <3>2 DEF ErasureInv, Exporting
    <3> HIDE DEF d
    <3>6. \A i \in DOMAIN archives : Protects(archives[i].governance, archives[i].before) /\ Kept(archives[i].governance)
             /\ DOMAIN archives[i].governance.journal \subseteq DOMAIN governance.journal
      BY DEF ErasureInv, Archived
    <3>7. \A i \in DOMAIN archives' : Protects(archives'[i].governance, archives'[i].before) /\ Kept(archives'[i].governance)
             /\ DOMAIN archives'[i].governance.journal \subseteq DOMAIN governance.journal
      BY <3>2, <3>4, <3>5, <3>6
    <3> QED BY <1>0, <3>7 DEF Archived, Kept, Protects, people
  <2> QED BY <2>1, <2>2 DEF StartExport, ExportAccount, ListTrips, ExportTrip
<1> QED BY <1>t, <1>2, <1>3, <1>4, <1>5 DEF ErasureInv

(* Deletions.                                                              *)
LEMMA OneRunMoves ==
  ASSUME ErasureInv, Onward, NEW r \in Runs, \A q \in Runs \ {r} : run'[q] = run[q], Achieved(run[r])',
         purge # NoCall => purge' # NoCall
  PROVE  Working'
BY StaysAchieved DEF ErasureInv, Working

LEMMA NoDeletionMeanwhile ==
  ASSUME ErasureInv, Restoring
  PROVE  run["request"] = NoCall /\ ~arriving
BY DEF ErasureInv, Restored, Returned, Restoring, NoCall

(* A step of a deletion that leaves the journal alone.                     *)
LEMMA DeletionSteady ==
  ASSUME ErasureInv, ErasureTypes', Working', Vacant', governance' = governance, history' = history,
         arriving' = arriving, UNCHANGED operator,
         \A p \in People : (Bare(p) => Bare(p)') /\ (forgets(p) => forgets(p)'),
         Restoring => run'["request"] = NoCall
  PROVE  ErasureInv'
<1>1. Onward
  BY DEF Onward
<1>2. Exporting'
  BY DEF ErasureInv, Exporting, operator
<1> QED BY <1>1, <1>2, NoDeletionMeanwhile, Steady DEF operator

LEMMA DeletionsKeep ==
  ErasureInv /\ (Wake \/ Interrupt \/ (\E p \in People : ExportData(p)) \/ \E r \in Runs : Deletes(r) /\ ~CompleteDeletion(r))
    => ErasureInv'
<1> SUFFICES ASSUME ErasureInv,
                    Wake \/ Interrupt \/ (\E p \in People : ExportData(p)) \/ \E r \in Runs : Deletes(r) /\ ~CompleteDeletion(r)
             PROVE  ErasureInv'
  OBVIOUS
<1>t. ErasureTypes /\ ErasureTypes'
  BY TypesOfDeletions DEF ErasureInv
<1>a. Kept(governance) /\ Vacant /\ Working
  BY DEF ErasureInv
<1> USE DEF objects
<1>1. CASE Wake
  <2>1. PICK w \in taking(pendingDeletions) : Waits("cron", w)
    BY <1>1 DEF Wake
  <2>2. w.at = "status"
    BY <2>1 DEF taking
  <2>3. run'["cron"] = w /\ run'["request"] = run["request"]
    BY <1>t, <2>1 DEF Waits, ErasureTypes, Runs
  <2>4. governance' = governance /\ account' = account /\ room' = room /\ history' = history /\ purge' = purge
    BY <1>1 DEF Wake
  <2>5. Onward
    BY <2>4 DEF Onward, Bare, forgets
  <2>6. Achieved(run["cron"])'
    BY <2>2, <2>3 DEF Achieved
  <2>7. Working'
    BY <2>3, <2>4, <2>5, <2>6, OneRunMoves DEF Runs
  <2> QED BY <1>1, <1>a, <1>t, <2>3, <2>4, <2>7, NoDeletionMeanwhile, DeletionSteady DEF Wake, Vacant, Bare, forgets
<1>2. CASE Interrupt
  <2>1. governance' = governance /\ account' = account /\ room' = room /\ history' = history
    BY <1>2 DEF Interrupt
  <2>2. Onward
    BY <2>1 DEF Onward, Bare, forgets
  <2>3. \A r \in Runs : run'[r] = NoCall \/ (run'[r] = run[r] /\ (purge' = purge \/ run[r].at # "scrubbing"))
    <3>1. CASE \E r \in Runs : Waits(r, NoCall) /\ UNCHANGED <<sync, purge>>
      BY <1>t, <3>1 DEF Waits, ErasureTypes
    <3>2. CASE run' = [r \in Runs |-> IF run[r].at = "scrubbing" THEN NoCall ELSE run[r]]
      BY <3>2
    <3> QED BY <1>2, <3>1, <3>2 DEF Interrupt
  <2>4. ASSUME NEW r \in Runs PROVE Achieved(run[r])'
    <3>1. CASE run'[r] = NoCall
      BY <3>1 DEF Achieved, NoCall
    <3>2. CASE run'[r] = run[r] /\ (purge' = purge \/ run[r].at # "scrubbing")
      BY <1>a, <1>t, <2>2, <3>2, StaysAchieved DEF Working
    <3> QED BY <2>3, <3>1, <3>2
  <2>5. Working'
    BY <2>4 DEF Working
  <2>6. Restoring => run'["request"] = NoCall
    BY <2>3, NoDeletionMeanwhile DEF Runs
  <2> QED BY <1>2, <1>a, <1>t, <2>1, <2>5, <2>6, DeletionSteady DEF Interrupt, Vacant, Bare, forgets
<1>3. ASSUME NEW p \in People, ExportData(p) PROVE ErasureInv'
  <2>1. /\ run'["request"].at = "begin" /\ run'["cron"] = run["cron"] /\ ~Restoring
        /\ governance' = governance /\ account' = account /\ room' = room /\ history' = history /\ purge' = purge
    BY <1>3, <1>t DEF ExportData, Waits, ErasureTypes, Runs
  <2>2. Onward
    BY <2>1 DEF Onward, Bare, forgets
  <2>3. Achieved(run["request"])'
    BY <2>1 DEF Achieved
  <2>4. Working'
    BY <2>1, <2>2, <2>3, OneRunMoves DEF Runs
  <2> QED BY <1>3, <1>a, <1>t, <2>1, <2>4, DeletionSteady DEF ExportData, Vacant, Bare, forgets
<1>4. ASSUME NEW r \in Runs, Deletes(r), ~CompleteDeletion(r) PROVE ErasureInv'
  <2> DEFINE w == run[r]
             p == w.who
  <2>0. w \in Deletion /\ p \in People /\ Achieved(w)
    <3>1. w.at # "idle"
      BY <1>4 DEF Deletes, ReadJournal, Deactivate, ScrubPerson, Scrubbed, PurgePrivate
    <3> QED BY <1>a, <1>t, <3>1 DEF ErasureTypes, NoCall, Deletion, Working
  <2>u. governance' = governance /\ history' = history /\ arriving' = arriving /\ UNCHANGED operator
    BY <1>4 DEF Deletes, ReadJournal, Deactivate, ScrubPerson, Scrubbed, PurgePrivate, operator
  <2>m. \A q \in Runs \ {r} : run'[q] = run[q]
    <3>1. ASSUME NEW x, Waits(r, x) PROVE \A q \in Runs \ {r} : run'[q] = run[q]
      BY <1>t, <3>1 DEF Waits, ErasureTypes
    <3>2. CASE GoesOn(r)
      BY <1>t, <2>0, <3>2, GoesOnType
    <3>3. GoesOn(r) \/ \E x : Waits(r, x)
      BY <1>4 DEF Deletes, ReadJournal, Deactivate, ScrubPerson, Scrubbed, PurgePrivate
    <3> QED BY <3>1, <3>2, <3>3
  <2>n. Restoring => run'["request"] = NoCall
    <3>1. ASSUME Restoring PROVE r = "cron"
      BY <2>0, <3>1, NoDeletionMeanwhile DEF Runs, NoCall, Deletion
    <3> QED BY <2>m, <3>1, NoDeletionMeanwhile DEF Runs
  <2>1. CASE ReadJournal(r)
    <3>1. account' = account /\ room' = room /\ purge' = purge
      BY <2>1 DEF ReadJournal
    <3>2. Onward
      BY <2>u, <3>1 DEF Onward, Bare, forgets
    <3>3. Achieved(run[r])'
      <4>1. CASE pending(governance, p)
        <5>1. run'[r] = [w EXCEPT !.at = "deactivate", !.row = listed(governance, p)]
          BY <1>t, <2>1, <4>1 DEF ReadJournal, Waits, ErasureTypes
        <5>2. run'[r].at = "deactivate" /\ run'[r].who = p /\ run'[r].row = listed(governance, p)
          BY <2>0, <5>1 DEF Deletion
        <5>3. p \in history.promised => listed(governance, p)
          BY <1>a, <4>1 DEF Kept, pending, listed, begun
        <5> QED BY <2>u, <4>1, <5>2, <5>3 DEF Achieved, pending
      <4>2. CASE ~pending(governance, p)
        BY <1>t, <2>0, <2>1, <4>2, GoesOnType DEF ReadJournal, Achieved
      <4> QED BY <4>1, <4>2
    <3>4. Working'
      BY <2>m, <3>1, <3>2, <3>3, OneRunMoves
    <3> QED BY <1>a, <1>t, <2>n, <2>u, <3>1, <3>4, DeletionSteady DEF Vacant, Bare, forgets
  <2>2. CASE Deactivate(r) \/ PurgePrivate(r)
    <3>1. room' = room /\ purge' = purge
      BY <2>2 DEF Deactivate, PurgePrivate
    <3>2. \A q \in People : Bare(q) => Bare(q)'
      BY <1>t, <2>0, <2>2 DEF Deactivate, PurgePrivate, deactivated, emptied, Bare, ErasureTypes, Account
    <3>3. Onward
      BY <2>u, <3>1, <3>2 DEF Onward, forgets
    <3>4. Achieved(run[r])'
      <4>1. CASE Deactivate(r)
        <5>1. run'[r].at = (IF w.row THEN "scrub" ELSE "empty") /\ run'[r].who = p /\ w.at = "deactivate"
          BY <1>t, <2>0, <4>1 DEF Deactivate, Waits, ErasureTypes, Deletion
        <5> QED BY <2>0, <2>u, <5>1 DEF Achieved, Owed
      <4>2. CASE PurgePrivate(r)
        <5>1. run'[r].at = "complete" /\ run'[r].who = p /\ w.at = "empty"
          BY <1>t, <2>0, <4>2 DEF PurgePrivate, Waits, ErasureTypes, Deletion
        <5>2. account'[p] = emptied(account[p])
          BY <1>t, <2>0, <4>2 DEF PurgePrivate, ErasureTypes
        <5>3. Bare(p)'
          BY <5>1, <5>2 DEF Bare, emptied
        <5> QED BY <2>0, <2>u, <3>1, <5>1, <5>3 DEF Achieved, Owed, forgets
      <4> QED BY <2>2, <4>1, <4>2
    <3>5. Working'
      BY <2>m, <3>1, <3>3, <3>4, OneRunMoves
    <3> QED BY <1>a, <1>t, <2>n, <2>u, <3>1, <3>2, <3>5, DeletionSteady DEF Vacant, forgets
  <2>3. CASE ScrubPerson(r)
    <3>0. account' = account /\ purge = NoCall /\ w.at = "scrub"
      BY <2>3 DEF ScrubPerson
    <3>1. run'[r].at = "scrubbing" /\ run'[r].who = p
      BY <1>t, <2>0, <2>3 DEF ScrubPerson, Waits, ErasureTypes, Deletion
    <3>2. ~named(scrubbed(room)) /\ scrubbed(room).live = room.live
      BY <1>t, ScrubbedType DEF ErasureTypes, RoomType, scrubbed
    <3>3. /\ room'.live = room.live /\ (named(room)' => named(room))
          /\ p = "member" => ~named(room)'
          /\ p = "rider" /\ room.live => purge' # NoCall
      BY <1>a, <1>t, <2>0, <2>3, <3>2 DEF ScrubPerson, Vacant, named, ErasureTypes, People, NoCall
    <3>4. Onward
      BY <2>u, <3>0, <3>3 DEF Onward, forgets, Bare
    <3>5. Achieved(run[r])'
      <4>1. forgets(p)' \/ (p = "rider" /\ purge' # NoCall)
        BY <2>0, <3>1, <3>3 DEF forgets, People
      <4>2. begun(governance, p)
        BY <2>0, <3>0 DEF Achieved
      <4> QED BY <2>u, <3>1, <4>1, <4>2 DEF Achieved
    <3>6. Working'
      BY <2>m, <3>0, <3>4, <3>5, OneRunMoves
    <3> QED BY <1>a, <1>t, <2>n, <2>u, <3>0, <3>3, <3>6, DeletionSteady DEF Vacant, forgets, Bare
  <2>4. CASE Scrubbed(r)
    <3>0. account' = account /\ room' = room /\ purge' = purge /\ purge = NoCall /\ w.at = "scrubbing"
      BY <2>4 DEF Scrubbed
    <3>1. run'[r].at = "empty" /\ run'[r].who = p
      BY <1>t, <2>0, <2>4 DEF Scrubbed, Waits, ErasureTypes, Deletion
    <3>2. Onward
      BY <2>u, <3>0 DEF Onward, Bare, forgets
    <3>3. Achieved(run[r])'
      BY <2>0, <2>u, <3>0, <3>1 DEF Achieved, Owed, forgets
    <3>4. Working'
      BY <2>m, <3>0, <3>2, <3>3, OneRunMoves
    <3> QED BY <1>a, <1>t, <2>n, <2>u, <3>0, <3>4, DeletionSteady DEF Vacant, forgets, Bare
  <2> QED BY <1>4, <2>1, <2>2, <2>3, <2>4 DEF Deletes
<1> QED BY <1>1, <1>2, <1>3, <1>4

(* The two steps that write the journal.                                   *)
LEMMA BeginKeeps == ErasureInv /\ BeginDeletion => ErasureInv'
<1> SUFFICES ASSUME ErasureInv, BeginDeletion PROVE ErasureInv'
  OBVIOUS
<1> DEFINE w == run["request"]
           p == w.who
<1>t. ErasureTypes /\ ErasureTypes'
  BY TypesOfDeletions DEF ErasureInv
<1>0. w \in Deletion /\ p \in People /\ w.at = "begin"
  BY <1>t DEF BeginDeletion, ErasureTypes, Runs, NoCall, Deletion
<1>1. ~Restoring
  BY <1>0, NoDeletionMeanwhile DEF NoCall
<1>2. account' = account /\ room' = room /\ purge' = purge /\ arriving' = arriving /\ UNCHANGED operator
  BY DEF BeginDeletion, operator
<1>3. run'["request"].at = "status" /\ run'["cron"] = run["cron"]
  BY <1>0, <1>t DEF BeginDeletion, Waits, ErasureTypes, Runs, Deletion
<1>4. CASE begun(governance, p)
  <2>1. governance' = governance /\ history' = history
    BY <1>4 DEF BeginDeletion, beginDeletion
  <2>2. Onward
    BY <1>2, <2>1 DEF Onward, Bare, forgets
  <2>3. Working'
    BY <1>2, <1>3, <2>2, OneRunMoves DEF Achieved, Runs
  <2> QED BY <1>1, <1>2, <1>t, <2>1, <2>3, DeletionSteady DEF ErasureInv, Vacant, Bare, forgets
<1>5. CASE ~begun(governance, p)
  <2> DEFINE e == [after |-> DOMAIN governance.journal, listed |-> w.row, done |-> FALSE]
             j == written(governance.journal, p, e)
  <2>1. governance' = [governance EXCEPT !.deleted = governance.deleted \cup {p}, !.journal = j]
    BY <1>5 DEF BeginDeletion, beginDeletion
  <2>2. DOMAIN j = DOMAIN governance.journal \cup {p} /\ j[p] = e /\ \A q \in DOMAIN governance.journal : j[q] = governance.journal[q]
    BY <1>5 DEF written, begun
  <2>3. e.listed = w.row /\ e.done = FALSE
    OBVIOUS
  <2>4. history' = IF w.row THEN [history EXCEPT !.promised = history.promised \cup {p}] ELSE history
    BY <1>5 DEF BeginDeletion
  <2> HIDE DEF j, e
  <2>5. governance'.journal = j /\ governance'.deleted = governance.deleted \cup {p} /\ governance'.purged = governance.purged
    BY <1>t, <2>1 DEF ErasureTypes, Governance
  <2>6. history'.late = history.late /\ history'.promised \subseteq history.promised \cup {p}
        /\ (p \in history'.promised => w.row \/ p \in history.promised)
    BY <1>t, <2>4 DEF ErasureTypes
  <2>7. Onward
    BY <1>2, <1>5, <2>2, <2>5, <2>6 DEF Onward, Bare, forgets
  <2>8. Working'
    BY <1>2, <1>3, <2>7, OneRunMoves DEF Achieved, Runs
  <2>9. Kept(governance) /\ Fulfilled
    BY DEF ErasureInv
  <2>10. p \in history.promised => begun(governance, p)
    BY <1>1 DEF ErasureInv, Promises, Restoring
  <2>11. Kept(governance)'
    BY <2>2, <2>3, <2>5, <2>6, <2>9, <2>10, <1>5 DEF Kept
  <2>12. Fulfilled'
    <3> SUFFICES ASSUME NEW q \in DOMAIN governance'.journal, governance'.journal[q].done
                 PROVE  Bare(q)' /\ (Owed(q)' => forgets(q)')
      BY DEF Fulfilled
    <3>1. q \in DOMAIN governance.journal /\ governance.journal[q].done /\ q # p
      BY <1>5, <2>2, <2>3, <2>5 DEF begun
    <3> QED BY <1>2, <2>6, <2>9, <3>1 DEF Fulfilled, Bare, forgets, Owed
  <2>13. Archived' /\ Restored'
    BY <1>1, <1>2, <1>t, <2>7, StaysArchived, StaysRestored DEF ErasureInv, operator
  <2>14. Vacant' /\ Exporting'
    BY <1>2, <2>5 DEF ErasureInv, Vacant, Exporting, Protects, operator
  <2>15. Promises'
    BY <1>2, <2>2, <2>5, <2>6 DEF ErasureInv, Promises, begun, operator
  <2> QED BY <1>t, <2>8, <2>11, <2>12, <2>13, <2>14, <2>15 DEF ErasureInv
<1> QED BY <1>4, <1>5

LEMMA CompleteKeeps == ErasureInv /\ (\E r \in Runs : CompleteDeletion(r)) => ErasureInv'
<1> SUFFICES ASSUME ErasureInv, NEW r \in Runs, CompleteDeletion(r) PROVE ErasureInv'
  OBVIOUS
<1> DEFINE w == run[r]
           p == w.who
<1>t. ErasureTypes /\ ErasureTypes'
  BY TypesOfDeletions DEF ErasureInv, Deletes
<1>0. w \in Deletion /\ p \in People /\ w.at = "complete" /\ Achieved(w)
  BY <1>t DEF CompleteDeletion, ErasureTypes, NoCall, Deletion, ErasureInv, Working
<1>1. account' = account /\ room' = room /\ purge' = purge /\ arriving' = arriving /\ history' = history /\ UNCHANGED operator
  BY DEF CompleteDeletion, operator
<1>2. run'[r].at \in {"idle", "status"} /\ \A q \in Runs \ {r} : run'[q] = run[q]
  BY <1>0, <1>t, GoesOnType DEF CompleteDeletion
<1>3. Restoring => run'["request"] = NoCall
  <2>1. ASSUME Restoring PROVE r = "cron"
    BY <1>0, <2>1, NoDeletionMeanwhile DEF Runs, NoCall, Deletion
  <2> QED BY <1>2, <2>1, NoDeletionMeanwhile DEF Runs
<1>4. CASE ~pending(governance, p)
  <2>1. governance' = governance
    BY <1>4 DEF CompleteDeletion, completeDeletion
  <2>2. Onward
    BY <1>1, <2>1 DEF Onward, Bare, forgets
  <2>3. Working'
    BY <1>1, <1>2, <2>2, OneRunMoves DEF Achieved
  <2> QED BY <1>1, <1>3, <1>t, <2>1, <2>3, DeletionSteady DEF ErasureInv, Vacant, Bare, forgets
<1>5. CASE pending(governance, p)
  <2> DEFINE e == [after |-> governance.journal[p].after, listed |-> FALSE, done |-> TRUE]
             j == written(governance.journal, p, e)
  <2>1. governance' = [governance EXCEPT !.users = governance.users \ {p}, !.journal = j]
    BY <1>5 DEF CompleteDeletion, completeDeletion
  <2>2. DOMAIN j = DOMAIN governance.journal /\ j[p] = e
        /\ \A q \in DOMAIN governance.journal : q # p => j[q] = governance.journal[q]
    BY <1>5 DEF written, pending, begun
  <2>3. e.done
    OBVIOUS
  <2> HIDE DEF j, e
  <2>5. governance'.journal = j /\ governance'.deleted = governance.deleted /\ governance'.purged = governance.purged
    BY <1>t, <2>1 DEF ErasureTypes, Governance
  <2>7. Onward
    BY <1>1, <2>2, <2>5 DEF Onward, Bare, forgets
  <2>8. Working'
    BY <1>1, <1>2, <2>7, OneRunMoves DEF Achieved
  <2>9. Kept(governance) /\ Fulfilled
    BY DEF ErasureInv
  <2>11. Kept(governance)'
    BY <1>1, <2>2, <2>3, <2>5, <2>9 DEF Kept
  <2>12. Fulfilled'
    <3> SUFFICES ASSUME NEW q \in DOMAIN governance'.journal, governance'.journal[q].done
                 PROVE  Bare(q)' /\ (Owed(q)' => forgets(q)')
      BY DEF Fulfilled
    <3>1. Bare(q) /\ (Owed(q) => forgets(q))
      BY <1>0, <2>2, <2>5, <2>9 DEF Fulfilled, Achieved
    <3> QED BY <1>1, <3>1 DEF Bare, forgets, Owed
  <2>13. Archived' /\ Restored'
    BY <1>1, <1>3, <1>t, <2>5, <2>7, NoDeletionMeanwhile, StaysArchived, StaysRestored DEF ErasureInv, operator
  <2>14. Vacant' /\ Exporting' /\ Promises'
    BY <1>1, <2>2, <2>5 DEF ErasureInv, Vacant, Exporting, Protects, Promises, begun, operator
  <2> QED BY <1>t, <2>8, <2>11, <2>12, <2>13, <2>14 DEF ErasureInv
<1> QED BY <1>4, <1>5

(* The restore looks around.                                               *)
LEMMA LooksKeep ==
  ErasureInv /\ (CheckAccount \/ CheckTrip \/ ReadStatuses \/ CompleteRestore \/ RestoreAgain) => ErasureInv'
<1> SUFFICES ASSUME ErasureInv, CheckAccount \/ CheckTrip \/ ReadStatuses \/ CompleteRestore \/ RestoreAgain
             PROVE  ErasureInv'
  OBVIOUS
<1>t. ErasureTypes /\ ErasureTypes'
  BY TypesOfRestores DEF ErasureInv
<1>g. PICK g : g = restore.data.governance
  OBVIOUS
<1>0. /\ governance' = governance /\ account' = account /\ room' = room /\ run' = run /\ purge' = purge
      /\ history' = history /\ arriving' = arriving /\ archives' = archives /\ export' = export
  BY DEF CheckAccount, CheckTrip, ReadStatuses, CompleteRestore, RestoreAgain, Restores, objects, others
<1>1. restore \in Restoration /\ Restoring /\ Returned
  <2>1. Restoring
    BY DEF CheckAccount, CheckTrip, ReadStatuses, CompleteRestore, RestoreAgain, Restoring
  <2> QED BY <1>t, <2>1 DEF ErasureTypes, ErasureInv, Restored, Restoring, NoCall
<1>2. Kept(governance)' /\ Fulfilled' /\ Vacant' /\ Working' /\ Archived' /\ Exporting'
  BY <1>0 DEF ErasureInv, Kept, Fulfilled, Vacant, Working, Achieved, Archived, Exporting, Bare, forgets, Owed, begun
<1>3. restore'.data = restore.data /\ restore'.at \in {"state", "users", "account", "trip", "store", "complete", "done"}
  BY <1>1, <1>t DEF CheckAccount, CheckTrip, ReadStatuses, CompleteRestore, RestoreAgain, Restores, Restoration, ErasureTypes
<1>4. Promises'
  <2>1. restore.at = "state" => restore'.at = "state"
    BY <1>1 DEF CheckAccount, CheckTrip, ReadStatuses, CompleteRestore, RestoreAgain, Restores, Restoration
  <2> QED BY <1>0, <1>3, <2>1 DEF ErasureInv, Promises, begun
<1>5. /\ Protects(g, restore.data.before) /\ DOMAIN g.journal \subseteq g.deleted
      /\ \A p \in g.deleted : Bare(p)' /\ forgets(p)'
      /\ ~arriving' /\ (g.purged => ~room'.live) /\ Kept(g)' /\ run'["request"] = NoCall
  BY <1>g, <1>0, <1>1 DEF Returned, Bare, forgets, Kept
<1>6. restore'.at # "state" => Protects(governance', [deleted |-> g.deleted, purged |-> g.purged])
  BY <1>g, <1>0, <1>1 DEF CheckAccount, CheckTrip, ReadStatuses, CompleteRestore, RestoreAgain, Restores, Returned, Restoration
<1>7. restore'.at = "account" => nextAccount' \notin governance'.deleted
  BY <1>0, <1>1 DEF CheckAccount, CheckTrip, ReadStatuses, CompleteRestore, RestoreAgain, Restores, Restoration, nextAccount
<1>8. restore'.at \in {"trip", "store"} => ~g.purged
  <2>1. CASE CheckTrip
    <3>1. restore'.at \in {"trip", "store"} => ~governance.purged
      BY <1>1, <2>1 DEF CheckTrip, Restores, Restoration
    <3>2. g.purged => governance.purged
      BY <1>g, <1>1, <2>1 DEF CheckTrip, Returned, Protects
    <3> QED BY <3>1, <3>2
  <2>2. CASE ReadStatuses
    BY <1>g, <1>1, <2>2 DEF ReadStatuses, Returned
  <2>3. CASE CheckAccount \/ CompleteRestore \/ RestoreAgain
    BY <1>1, <2>3 DEF CheckAccount, CompleteRestore, RestoreAgain, Restores, Restoration
  <2> QED BY <2>1, <2>2, <2>3
<1>9. restore'.at = "store" => restore'.deleted = governance'.deleted
  BY <1>0, <1>1 DEF CheckAccount, CheckTrip, ReadStatuses, CompleteRestore, RestoreAgain, Restores, Restoration
<1>10. Restored'
  BY <1>g, <1>3, <1>5, <1>6, <1>7, <1>8, <1>9 DEF Restored, Returned, Protects
<1> QED BY <1>t, <1>2, <1>4, <1>10 DEF ErasureInv

(* The protection is merged: whom it names is deleted, and gone already.   *)
LEMMA MergeKeeps == ErasureInv /\ RestoreState => ErasureInv'
<1> SUFFICES ASSUME ErasureInv, RestoreState PROVE ErasureInv'
  OBVIOUS
<1>t. ErasureTypes /\ ErasureTypes'
  BY TypesOfRestores DEF ErasureInv
<1>g. PICK g : g = restore.data.governance
  OBVIOUS
<1>0. /\ account' = account /\ room' = room /\ run' = run /\ purge' = purge
      /\ history' = history /\ arriving' = arriving /\ archives' = archives /\ export' = export
  BY DEF RestoreState, Restores, others
<1>1. restore \in Restoration /\ Restoring /\ Returned /\ restore.at = "state"
  BY <1>t DEF RestoreState, ErasureTypes, ErasureInv, Restored, Restoring, NoCall
<1>2. restore' = [restore EXCEPT !.at = "users", !.todo = restore.data.users]
  BY DEF RestoreState, Restores
<1>3. restore'.data = restore.data /\ restore'.at = "users"
  BY <1>1, <1>2 DEF Restoration
<1>4. /\ governance'.deleted = governance.deleted \cup g.deleted \cup DOMAIN g.journal
      /\ governance'.purged = (governance.purged \/ g.purged)
      /\ governance'.journal = [p \in DOMAIN governance.journal \cup DOMAIN g.journal |->
                                  IF begun(governance, p) THEN governance.journal[p] ELSE g.journal[p]]
  BY <1>g DEF RestoreState, restoreState
<1>5. DOMAIN governance'.journal = DOMAIN governance.journal \cup DOMAIN g.journal
      /\ \A p \in DOMAIN governance'.journal :
           \/ p \in DOMAIN governance.journal /\ governance'.journal[p] = governance.journal[p]
           \/ p \in DOMAIN g.journal /\ governance'.journal[p] = g.journal[p]
  BY <1>g, <1>4 DEF begun
<1>6. Kept(governance) /\ Kept(g) /\ Fulfilled
  BY <1>g, <1>1 DEF ErasureInv, Returned
<1>7. Kept(governance)'
  BY <1>0, <1>4, <1>5, <1>6 DEF Kept
<1>8. Promises'
  BY <1>g, <1>0, <1>1, <1>5 DEF ErasureInv, Promises, begun
<1>9. Onward
  BY <1>0, <1>4, <1>5 DEF Onward, Bare, forgets
<1>10. Fulfilled'
  <2> SUFFICES ASSUME NEW p \in DOMAIN governance'.journal, governance'.journal[p].done
               PROVE  Bare(p)' /\ (Owed(p)' => forgets(p)')
    BY <1>g DEF Fulfilled
  <2>1. CASE p \in DOMAIN governance.journal /\ governance'.journal[p] = governance.journal[p]
    BY <1>0, <1>6, <2>1 DEF Fulfilled, Bare, forgets, Owed
  <2>2. CASE p \in DOMAIN g.journal
    BY <1>g, <1>0, <1>1, <2>2 DEF Returned, Bare, forgets
  <2> QED BY <1>5, <2>1, <2>2
<1>11. Working' /\ Archived'
  BY <1>0, <1>9, SameRuns, StaysArchived DEF ErasureInv
<1>12. Vacant' /\ Exporting'
  BY <1>0, <1>9 DEF ErasureInv, Vacant, Exporting, Protects, Onward
<1>13. Restored'
  <2>1. /\ Protects(g, restore.data.before) /\ DOMAIN g.journal \subseteq g.deleted
        /\ \A p \in g.deleted : Bare(p)' /\ forgets(p)'
        /\ ~arriving' /\ (g.purged => ~room'.live) /\ Kept(g)' /\ run'["request"] = NoCall
    BY <1>g, <1>0, <1>1 DEF Returned, Bare, forgets, Kept
  <2>2. Protects(governance', [deleted |-> g.deleted, purged |-> g.purged])
    BY <1>g, <1>4 DEF Protects
  <2> QED BY <1>g, <1>3, <2>1, <2>2 DEF Restored, Returned, Protects
<1> QED BY <1>t, <1>7, <1>8, <1>10, <1>11, <1>12, <1>13 DEF ErasureInv

(* An account that governance does not report as deleted comes back.       *)
LEMMA AccountKeeps == ErasureInv /\ RestoreAccount => ErasureInv'
<1> SUFFICES ASSUME ErasureInv, RestoreAccount PROVE ErasureInv'
  OBVIOUS
<1>t. ErasureTypes /\ ErasureTypes'
  BY TypesOfRestores DEF ErasureInv
<1>g. PICK g : g = restore.data.governance
  OBVIOUS
<1>0. /\ governance' = governance /\ room' = room /\ run' = run /\ purge' = purge
      /\ history' = history /\ arriving' = arriving /\ archives' = archives /\ export' = export
  BY DEF RestoreAccount, Restores, others
<1>1. restore \in Restoration /\ Restoring /\ Returned /\ restore.at = "account"
  BY <1>t DEF RestoreAccount, ErasureTypes, ErasureInv, Restored, Restoring, NoCall
<1>2. restore'.data = restore.data /\ restore'.at = "users"
  BY <1>1 DEF RestoreAccount, Restores, Restoration
<1>3. nextAccount \notin governance.deleted
  BY <1>1 DEF Returned
<1>4. \A p \in People \ {nextAccount} : account'[p] = account[p]
  BY <1>t DEF RestoreAccount, ErasureTypes
<1>5. \A p \in governance.deleted : Bare(p) => Bare(p)'
  BY <1>3, <1>4, <1>t DEF Bare, ErasureTypes, Governance
<1>6. Kept(governance)' /\ Promises' /\ Vacant' /\ Archived' /\ Exporting'
  BY <1>0, <1>1, <1>2 DEF ErasureInv, Kept, Promises, Vacant, Archived, Exporting, begun
<1>7. Fulfilled'
  BY <1>0, <1>5 DEF ErasureInv, Fulfilled, Kept, Owed, forgets
<1>8. Working'
  <2> SUFFICES ASSUME NEW r \in Runs PROVE Achieved(run[r])'
    BY DEF Working
  <2>1. Achieved(run[r]) /\ DOMAIN governance.journal \subseteq governance.deleted
    BY DEF ErasureInv, Working, Kept
  <2> QED BY <1>0, <1>5, <2>1 DEF Achieved, begun, Owed, forgets
<1>9. Restored'
  <2>1. g.deleted \subseteq governance.deleted
    BY <1>g, <1>1 DEF Returned, Protects
  <2>2. /\ Protects(g, restore.data.before) /\ DOMAIN g.journal \subseteq g.deleted
        /\ \A p \in g.deleted : Bare(p)' /\ forgets(p)'
        /\ ~arriving' /\ (g.purged => ~room'.live) /\ Kept(g)' /\ run'["request"] = NoCall
        /\ Protects(governance', [deleted |-> g.deleted, purged |-> g.purged])
    BY <1>g, <1>0, <1>1, <1>5, <2>1 DEF Returned, forgets, Kept
  <2> QED BY <1>g, <1>2, <2>2 DEF Restored, Returned, Protects
<1> QED BY <1>t, <1>6, <1>7, <1>8, <1>9 DEF ErasureInv

(* So does the journey, without the member if they are deleted, and not at *)
(* all if its rider is.                                                    *)
LEMMA TripKeeps == ErasureInv /\ StoreTrip => ErasureInv'
<1> SUFFICES ASSUME ErasureInv, StoreTrip PROVE ErasureInv'
  OBVIOUS
<1>t. ErasureTypes /\ ErasureTypes'
  BY TypesOfRestores DEF ErasureInv
<1>g. PICK g : g = restore.data.governance
  OBVIOUS
<1>0. /\ account' = account /\ run' = run /\ purge' = purge
      /\ history' = history /\ arriving' = arriving /\ archives' = archives /\ export' = export
  BY DEF StoreTrip, Restores, others
<1>1. restore \in Restoration /\ Restoring /\ Returned /\ restore.at = "store"
  BY <1>t DEF StoreTrip, ErasureTypes, ErasureInv, Restored, Restoring, NoCall
<1>2. restore'.data = restore.data /\ restore'.at = "complete"
  BY <1>1 DEF StoreTrip, Restores, Restoration
<1>3. restore.deleted = governance.deleted /\ ~g.purged
  BY <1>g, <1>1 DEF Returned
<1>4. /\ governance'.journal = governance.journal /\ governance'.deleted = governance.deleted
      /\ governance.purged => governance'.purged
  BY <1>t DEF StoreTrip, recordDeletedTrip, ErasureTypes, Governance
<1>5. \A p \in governance.deleted : forgets(p) => forgets(p)'
  <2>1. CASE "rider" \in restore.deleted
    <3>1. room'.live = room.live /\ room'.member = room.member
      BY <1>t, <2>1 DEF StoreTrip, ErasureTypes
    <3> QED BY <3>1 DEF forgets, named
  <2>2. CASE "rider" \notin restore.deleted /\ room' = room
    BY <2>2 DEF forgets, named
  <2>3. CASE "rider" \notin restore.deleted /\ room' = stored(restore.data, restore.deleted)
    <3>1. "member" \in governance.deleted => ~named(room)'
      <4> DEFINE t == [NoRoom EXCEPT !.live = TRUE, !.closed = TRUE, !.unsynced = TRUE, !.member = restore.data.trip]
      <4>1. "member" \in governance.deleted => room' = scrubbed(t)
        BY <1>3, <2>3 DEF stored
      <4>2. t \in RoomType
        <5> DEFINE n == NoRoom
        <5>1. n \in RoomType
          BY DEF NoRoom, RoomType, Part
        <5>2. restore.data.trip \in Part
          BY <1>1 DEF Restoration, Archive
        <5> HIDE DEF n
        <5>3. [n EXCEPT !.live = TRUE, !.closed = TRUE, !.unsynced = TRUE, !.member = restore.data.trip] \in RoomType
          BY <5>1, <5>2 DEF RoomType
        <5> QED BY <5>3 DEF n
      <4> HIDE DEF t
      <4> QED BY <4>1, <4>2, ScrubbedType DEF named
    <3> QED BY <1>3, <1>t, <2>3, <3>1 DEF forgets, ErasureTypes, Governance, People
  <2> QED BY <2>1, <2>2, <2>3 DEF StoreTrip
<1>6. Vacant'
  <2>1. CASE "rider" \in restore.deleted
    <3>1. room'.live = room.live /\ room'.member = room.member
      BY <1>t, <2>1 DEF StoreTrip, ErasureTypes
    <3> QED BY <3>1 DEF ErasureInv, Vacant, named
  <2>2. CASE "rider" \notin restore.deleted /\ room' = room
    BY <2>2 DEF ErasureInv, Vacant, named
  <2>3. CASE "rider" \notin restore.deleted /\ room' = stored(restore.data, restore.deleted)
    <3>1. room'.live
      BY <2>3 DEF stored, scrubbed, NoRoom
    <3> QED BY <3>1 DEF Vacant
  <2> QED BY <2>1, <2>2, <2>3 DEF StoreTrip
<1>7. Kept(governance)' /\ Promises' /\ Archived' /\ Exporting'
  BY <1>0, <1>1, <1>2, <1>4 DEF ErasureInv, Kept, Promises, Archived, Exporting, begun, Protects
<1>8. Fulfilled'
  BY <1>0, <1>4, <1>5 DEF ErasureInv, Fulfilled, Kept, Owed, Bare
<1>9. Working'
  <2> SUFFICES ASSUME NEW r \in Runs PROVE Achieved(run[r])'
    BY DEF Working
  <2>1. Achieved(run[r]) /\ DOMAIN governance.journal \subseteq governance.deleted
    BY DEF ErasureInv, Working, Kept
  <2> QED BY <1>0, <1>4, <1>5, <2>1 DEF Achieved, begun, Owed, Bare
<1>10. Restored'
  <2>1. g.deleted \subseteq governance.deleted
    BY <1>g, <1>1 DEF Returned, Protects
  <2>2. /\ Protects(g, restore.data.before) /\ DOMAIN g.journal \subseteq g.deleted
        /\ \A p \in g.deleted : Bare(p)' /\ forgets(p)'
        /\ ~arriving' /\ ~g.purged /\ Kept(g)' /\ run'["request"] = NoCall
        /\ Protects(governance', [deleted |-> g.deleted, purged |-> g.purged])
    BY <1>g, <1>0, <1>1, <1>3, <1>4, <1>5, <2>1 DEF Returned, Bare, Kept, Protects
  <2> QED BY <1>g, <1>2, <2>2 DEF Restored, Returned, Protects
<1> QED BY <1>t, <1>6, <1>7, <1>8, <1>9, <1>10 DEF ErasureInv

(* The source is lost: nobody is anywhere, and whoever restores holds an   *)
(* archive.                                                                *)
LEMMA LossKeeps == ErasureInv /\ LoseSource => ErasureInv'
<1> SUFFICES ASSUME ErasureInv, LoseSource PROVE ErasureInv'
  OBVIOUS
<1>t. ErasureTypes /\ ErasureTypes'
  BY TypesOfRestores DEF ErasureInv
<1>1. PICK i \in DOMAIN archives, j \in DOMAIN archives :
        restore' = [at |-> "state", data |-> applyProtection(archives[i], archives[j]), todo |-> {}, deleted |-> {}]
  BY DEF LoseSource
<1>g. PICK g : g = archives[j].governance
  OBVIOUS
<1>2. restore'.data = applyProtection(archives[i], archives[j]) /\ restore'.at = "state"
  BY <1>1
<1>3. archives[i] \in Archive /\ archives[j] \in Archive
  BY <1>t, ElementOfSeq DEF ErasureTypes
<1>4. restore'.data.governance = g /\ restore'.data.before = archives[j].before
  BY <1>g, <1>2, <1>3 DEF applyProtection, Archive
<1>5. Protects(g, archives[j].before) /\ Kept(g)
  BY <1>g DEF ErasureInv, Archived
<1>6. /\ DOMAIN governance'.journal = {} /\ room' = NoRoom /\ \A p \in People : account'[p] = NoAccount
      /\ \A r \in Runs : run'[r] = NoCall
      /\ ~arriving' /\ export' = NoCall /\ archives' = <<>>
  BY NewType DEF LoseSource
<1>7. history'.promised = {p \in history.promised : begun(g, p)}
  BY <1>g, <1>4 DEF LoseSource
<1>8. \A p \in People : Bare(p)' /\ forgets(p)'
  BY <1>6 DEF Bare, forgets, NoAccount, NoRoom, named, People
<1>9. Kept(governance)' /\ Promises' /\ Fulfilled'
  BY <1>2, <1>4, <1>6, <1>7 DEF Kept, Promises, Fulfilled, begun
<1>10. Vacant' /\ Working' /\ Archived' /\ Exporting'
  BY <1>6 DEF Vacant, Working, Achieved, Archived, Exporting, NoCall, NoRoom, named
<1>11. Restored'
  <2>1. g.deleted \subseteq People
    BY <1>g, <1>3 DEF Archive, Governance
  <2>2. Kept(g)'
    BY <1>g, <1>5, <1>7 DEF Kept
  <2>3. run'["request"] = NoCall /\ ~room'.live
    BY <1>6 DEF Runs, NoRoom
  <2>4. DOMAIN g.journal \subseteq g.deleted
    BY <1>g, <1>5 DEF Kept
  <2>5. /\ Protects(g, archives[j].before) /\ \A p \in g.deleted : Bare(p)' /\ forgets(p)'
    BY <1>g, <1>5, <1>8, <2>1
  <2> QED BY <1>g, <1>2, <1>4, <1>6, <2>2, <2>3, <2>4, <2>5 DEF Restored, Returned, Protects
<1> QED BY <1>t, <1>9, <1>10, <1>11 DEF ErasureInv

LEMMA ErasureStarts == ErasureInit => ErasureInv
<1> SUFFICES ASSUME ErasureInit PROVE ErasureInv
  OBVIOUS
<1>1. ErasureTypes
  BY TypesStart
<1>2. DOMAIN governance.journal = {}
  <2>1. governance.journal = NewGovernance.journal
    BY DEF ErasureInit, NewGovernance
  <2> QED BY <2>1, NewType
<1>3. history.promised = {} /\ room.live /\ restore = NoCall /\ export = NoCall /\ archives = <<>>
      /\ \A r \in Runs : run[r] = NoCall
  BY DEF ErasureInit, NoRoom
<1> QED BY <1>1, <1>2, <1>3 DEF ErasureInv, Kept, Promises, Fulfilled, Vacant, Working, Achieved, Archived, Exporting,
                               Restored, NoCall

LEMMA ErasureStep == ErasureInv /\ [ErasureNext]_erasureVars => ErasureInv'
<1> SUFFICES ASSUME ErasureInv, [ErasureNext]_erasureVars PROVE ErasureInv'
  OBVIOUS
<1>1. CASE UNCHANGED erasureVars
  BY <1>1 DEF erasureVars, ErasureInv, ErasureTypes, Kept, Promises, Fulfilled, Vacant, Working, Achieved, Archived, Exporting,
              Restored, Returned, Restoring, nextAccount, Bare, forgets, Owed
<1>2. CASE ErasureNext
  BY <1>2, CallsKeep, ExportsKeep, DeletionsKeep, BeginKeeps, CompleteKeeps, LooksKeep, MergeKeeps, AccountKeeps,
     TripKeeps, LossKeeps
     DEF ErasureNext, Operates
<1> QED BY <1>1, <1>2

LEMMA ErasureInvariance == ErasureSpec => []ErasureInv
<1> QED BY ErasureStarts, ErasureStep, PTL DEF ErasureSpec

(* Whichever runs of a deletion were interrupted, and however they met:    *)
(* once governance records it as completed, the account is empty and the   *)
(* journey it had listed does not name the person.                         *)
THEOREM CompletedIsErasedHolds == ErasureSpec => []CompletedIsErased
<1>1. ErasureInv => CompletedIsErased
  BY DEF ErasureInv, CompletedIsErased, Fulfilled, pending, begun, Bare, Owed
<1> QED BY <1>1, ErasureInvariance, PTL

(* Whom governance protected when the export of the protection began does  *)
(* not come back with the restore, at any point of it and after it.        *)
THEOREM RestoreRespectsDeletionHolds == ErasureSpec => []RestoreRespectsDeletion
<1>1. ErasureInv => RestoreRespectsDeletion
  BY DEF ErasureInv, RestoreRespectsDeletion, Restored, Returned, Protects, Bare, NoCall
<1> QED BY <1>1, ErasureInvariance, PTL

=============================================================================
