--------------------------- MODULE DeliveryProofs ---------------------------
(***************************************************************************)
(* What a journey delivers to others: the contact's notifications          *)
(* (Notifications, here Notices), the thanks for the guardian (Gratitude,  *)
(* here Thanks) and the guardians' points (RewardSettlement); for any      *)
(* number of calls under way, of guardians, failures and rulings, and any  *)
(* pool.                                                                   *)
(***************************************************************************)
EXTENDS MCOutreach, RewardSettlement, SequenceTheorems, FiniteSetTheorems, TLAPS

(***************************************************************************)
(* Notifications.  A notification that was acknowledged has no job, so     *)
(* nobody sends it again; and who is about to send or has sent holds the   *)
(* number of one that exists.                                              *)
(***************************************************************************)
Causes == {"none", "concern", "timeout", "help"}
Notice == [cause: Causes, status: {"queued", "sent", "failed", "acknowledged"}, job: BOOLEAN,
           attempts: Nat, held: BOOLEAN]
ContactRoom == [open: BOOLEAN, monitored: BOOLEAN, policy: BOOLEAN, cause: Causes, missed: Nat,
                escalated: BOOLEAN, recent: BOOLEAN, notices: Seq(Notice)]
Sending(n) == [at: {"waking", "sending"}, notice: 1..n]

NoticeInv ==
  /\ room \in ContactRoom
  /\ send \in [Deliverers -> {Notices!Idle} \cup Sending(Len(room.notices))]
  /\ \A n \in DOMAIN room.notices: room.notices[n].status = "acknowledged" => ~room.notices[n].job

(* What follows when the notices of a room are r's and more.               *)
LEMMA NoticesOf ==
  ASSUME NEW r \in ContactRoom
  PROVE  /\ r.notices \in Seq(Notice) /\ Len(r.notices) \in Nat /\ DOMAIN r.notices = 1..Len(r.notices)
         /\ \A n \in 1..Len(r.notices): r.notices[n] \in Notice
<1>1. r.notices \in Seq(Notice)
  BY DEF ContactRoom
<1> QED BY <1>1, LenProperties, ElementOfSeq

(* A queued notice is new and has a job; the others are as they were.      *)
LEMMA Queued ==
  ASSUME NEW r \in ContactRoom
  PROVE  LET q == Notices!queueNotification(r) IN
         /\ q \in ContactRoom /\ Len(r.notices) <= Len(q.notices) /\ q.open = r.open
         /\ \A n \in 1..Len(r.notices): q.notices[n] = r.notices[n]
         /\ \A n \in 1..Len(q.notices): n \in 1..Len(r.notices) \/ q.notices[n].status = "queued"
<1> DEFINE fresh == [cause |-> r.cause, status |-> "queued", job |-> TRUE, attempts |-> 0, held |-> FALSE]
           more == Append(r.notices, fresh)
           q == [r EXCEPT !.recent = TRUE, !.notices = more]
<1>0. r.notices \in Seq(Notice) /\ Len(r.notices) \in Nat
  BY NoticesOf
<1>1. fresh \in Notice /\ fresh.status = "queued"
  BY DEF ContactRoom, Notice
<1> HIDE DEF fresh
<1>2. /\ more \in Seq(Notice) /\ Len(more) = Len(r.notices) + 1
      /\ \A n \in 1..Len(r.notices): more[n] = r.notices[n]
      /\ more[Len(r.notices) + 1] = fresh
  BY <1>0, <1>1, AppendProperties
<1> HIDE DEF more
<1>3. q \in ContactRoom /\ q.notices = more /\ q.open = r.open
  BY <1>2 DEF ContactRoom
<1>4. CASE Notices!notificationAuthorized(r, r.cause) /\ ~r.recent
  <2>1. Notices!queueNotification(r) = q
    BY <1>4 DEF Notices!queueNotification, fresh, more
  <2> HIDE DEF q
  <2> QED BY <1>0, <1>1, <1>2, <1>3, <2>1
<1>5. CASE ~(Notices!notificationAuthorized(r, r.cause) /\ ~r.recent)
  BY <1>0, <1>5 DEF Notices!queueNotification
<1> QED BY <1>4, <1>5

(* What SentWithAuthority and AcknowledgedStays say of one step.           *)
Authorized ==
  \A d \in Deliverers: send[d].at # "sending" /\ send'[d].at = "sending" =>
    room.open /\ Notices!notificationAuthorized(room, room.notices[send'[d].notice].cause)
Stays ==
  \A n \in DOMAIN room.notices: room.notices[n].status = "acknowledged" =>
    /\ room'.notices[n].status = "acknowledged" /\ ~room'.notices[n].job
    /\ \A d \in Deliverers: send'[d] # send[d] /\ send'[d] # Notices!Idle => send'[d].notice # n

(* People and the alarm change no notice and no call, and may queue one.   *)
LEMMA PeopleQueue ==
  ASSUME NoticeInv, NEW r \in ContactRoom, Notices!Acts(r),
         Len(room.notices) <= Len(r.notices),
         \A n \in 1..Len(room.notices): r.notices[n] = room.notices[n],
         \A n \in 1..Len(r.notices): n \in 1..Len(room.notices) \/ r.notices[n].status = "queued"
  PROVE  NoticeInv' /\ Authorized /\ Stays
<1>1. room' = r /\ send' = send
  BY DEF Notices!Acts
<1>2. /\ Len(room.notices) \in Nat /\ DOMAIN room.notices = 1..Len(room.notices)
      /\ Len(r.notices) \in Nat /\ DOMAIN r.notices = 1..Len(r.notices)
  BY NoticesOf DEF NoticeInv
<1>3. Sending(Len(room.notices)) \subseteq Sending(Len(r.notices))
  BY <1>2 DEF Sending
<1>4. send \in [Deliverers -> {Notices!Idle} \cup Sending(Len(r.notices))]
  BY <1>3 DEF NoticeInv
<1>5. \A n \in 1..Len(r.notices): r.notices[n].status = "acknowledged" => ~r.notices[n].job
  BY <1>2 DEF NoticeInv
<1>6. NoticeInv'
  BY <1>1, <1>2, <1>4, <1>5 DEF NoticeInv
<1>7. Authorized
  BY <1>1 DEF Authorized
<1>8. Stays
  BY <1>1, <1>2 DEF Stays, NoticeInv
<1> QED BY <1>6, <1>7, <1>8

(* Where the notices stay, nothing is to be shown of them.                 *)
LEMMA PeopleAct ==
  ASSUME NoticeInv, NEW r \in ContactRoom, Notices!Acts(r), r.notices = room.notices
  PROVE  NoticeInv' /\ Authorized /\ Stays
BY PeopleQueue, NoticesOf DEF NoticeInv

LEMMA PeopleKeep ==
  ASSUME NoticeInv, Notices!People
  PROVE  NoticeInv' /\ Authorized /\ Stays
<1>0. room \in ContactRoom
  BY DEF NoticeInv
<1> DEFINE a == Notices!answered(room)
<1>a. a \in ContactRoom /\ a.notices = room.notices
  BY <1>0 DEF Notices!answered, ContactRoom, Causes
<1>1. CASE Notices!CheckIn
  BY <1>1, <1>a, PeopleAct DEF Notices!CheckIn
<1>2. CASE Notices!Concern
  <2> DEFINE r == [a EXCEPT !.cause = "concern"]
  <2> HIDE DEF a
  <2>1. r \in ContactRoom /\ r.notices = room.notices
    BY <1>a DEF ContactRoom, Causes
  <2>2. Notices!Acts(r)
    BY <1>2 DEF Notices!Concern, a
  <2> QED BY <2>1, <2>2, PeopleAct
<1>3. CASE Notices!Help
  <2> DEFINE r == [room EXCEPT !.cause = "help"]
  <2>1. r \in ContactRoom /\ r.notices = room.notices
    BY <1>0 DEF ContactRoom, Causes
  <2>2. Notices!Acts(Notices!queueNotification(r))
    BY <1>3 DEF Notices!Help
  <2> HIDE DEF r
  <2> QED BY <2>1, <2>2, Queued, PeopleQueue
<1>4. CASE Notices!Resume
  <2>1. [room EXCEPT !.monitored = FALSE] \in ContactRoom /\ [room EXCEPT !.monitored = FALSE].notices = room.notices
    BY <1>0 DEF ContactRoom
  <2> QED BY <1>4, <2>1, PeopleAct DEF Notices!Resume
<1>5. CASE Notices!Takeover
  <2> DEFINE r == [room EXCEPT !.monitored = TRUE, !.missed = 0]
  <2>1. r \in ContactRoom /\ r.notices = room.notices
    BY <1>0 DEF ContactRoom
  <2> QED BY <1>5, <2>1, PeopleAct DEF Notices!Takeover
<1>6. CASE Notices!SetAssistance
  <2> DEFINE r == [room EXCEPT !.policy = ~room.policy]
  <2>0. (~room.policy) \in BOOLEAN
    OBVIOUS
  <2>1. r \in ContactRoom /\ r.notices = room.notices
    BY <1>0, <2>0 DEF ContactRoom
  <2> QED BY <1>6, <2>1, PeopleAct DEF Notices!SetAssistance
<1>7. CASE Notices!Close
  <2>1. [room EXCEPT !.open = FALSE] \in ContactRoom /\ [room EXCEPT !.open = FALSE].notices = room.notices
    BY <1>0 DEF ContactRoom
  <2> QED BY <1>7, <2>1, PeopleAct DEF Notices!Close
<1>8. CASE Notices!Missed
  <2> DEFINE m == IF room.missed < MissedAllowed THEN room.missed + 1 ELSE room.missed
             r == [room EXCEPT !.missed = m]
             c == IF r.cause = "help" THEN r.cause ELSE "timeout"
             e == [r EXCEPT !.escalated = TRUE, !.cause = c]
  <2>1. m \in Nat
    BY <1>0 DEF ContactRoom
  <2>2. r \in ContactRoom /\ r.notices = room.notices
    <3> HIDE DEF m
    <3> QED BY <1>0, <2>1 DEF ContactRoom
  <2>3. Notices!Acts(Notices!queueNotification(e)) \/ Notices!Acts(r)
    BY <1>8 DEF Notices!Missed
  <2> HIDE DEF r
  <2>4. c \in Causes
    BY DEF Causes
  <2> HIDE DEF c
  <2>5. e \in ContactRoom /\ e.notices = room.notices
    BY <2>2, <2>4 DEF ContactRoom
  <2> HIDE DEF e
  <2> QED BY <2>2, <2>3, <2>5, Queued, PeopleAct, PeopleQueue
<1>9. CASE Notices!QuietEnds
  <2>1. room' \in ContactRoom /\ room'.notices = room.notices /\ send' = send
    BY <1>0, <1>9 DEF Notices!QuietEnds, ContactRoom
  <2>2. NoticeInv'
    BY <2>1 DEF NoticeInv
  <2> QED BY <2>1, <2>2 DEF NoticeInv, Authorized, Stays
<1> QED BY <1>1, <1>2, <1>3, <1>4, <1>5, <1>6, <1>7, <1>8, <1>9 DEF Notices!People

(* One notice is written, which does not bring back a job.                 *)
LEMMA NoticeWritten ==
  ASSUME NoticeInv, NEW n \in 1..Len(room.notices), NEW notice \in Notice,
         notice.status = "acknowledged" => ~notice.job,
         room' = [room EXCEPT !.notices[n] = notice],
         send' \in [Deliverers -> {Notices!Idle} \cup Sending(Len(room.notices))]
  PROVE  /\ NoticeInv' /\ DOMAIN room'.notices = DOMAIN room.notices
         /\ \A k \in DOMAIN room.notices: room'.notices[k] = IF k = n THEN notice ELSE room.notices[k]
<1>0. room \in ContactRoom
  BY DEF NoticeInv
<1> DEFINE s == [room.notices EXCEPT ![n] = notice]
<1>1. /\ room.notices \in Seq(Notice) /\ Len(room.notices) \in Nat
      /\ DOMAIN room.notices = 1..Len(room.notices)
  BY <1>0, NoticesOf
<1>2. /\ s \in Seq(Notice) /\ Len(s) = Len(room.notices) /\ DOMAIN s = 1..Len(room.notices)
      /\ \A k \in 1..Len(room.notices): s[k] = IF k = n THEN notice ELSE room.notices[k]
  BY <1>1, ExceptSeq
<1>3. room' = [room EXCEPT !.notices = s]
  OBVIOUS
<1> HIDE DEF s
<1>4. room' \in ContactRoom /\ room'.notices = s
  BY <1>0, <1>2, <1>3 DEF ContactRoom
<1>5. \A k \in DOMAIN s: s[k].status = "acknowledged" => ~s[k].job
  BY <1>1, <1>2 DEF NoticeInv
<1> QED BY <1>1, <1>2, <1>4, <1>5 DEF NoticeInv

(* A notice that is dropped, settled or acknowledged.                      *)
LEMMA GoneNotice ==
  ASSUME NEW notice \in Notice, NEW status \in {"queued", "sent", "failed", "acknowledged"}
  PROVE  /\ Notices!gone(notice, status) \in Notice
         /\ Notices!gone(notice, status).status = status /\ ~Notices!gone(notice, status).job
BY DEF Notices!gone, Notice

(* The calls of deliverNotifications, seen from the stored notices.        *)
LEMMA SendTyped ==
  ASSUME NoticeInv, NEW d \in Deliverers, NEW w \in {Notices!Idle} \cup Sending(Len(room.notices)),
         Notices!Delivers(d, w)
  PROVE  /\ send' \in [Deliverers -> {Notices!Idle} \cup Sending(Len(room.notices))]
         /\ send'[d] = w /\ \A e \in Deliverers \ {d}: send'[e] = send[e]
BY DEF NoticeInv, Notices!Delivers

LEMMA PickUpKeeps ==
  ASSUME NoticeInv, NEW d \in Deliverers, NEW n, Notices!PickUp(d, n)
  PROVE  NoticeInv' /\ Authorized /\ Stays
<1> DEFINE notice == room.notices[n]
           picked == [notice EXCEPT !.attempts = notice.attempts + 1, !.held = TRUE]
           lost == Notices!gone(notice, "failed")
<1>0. /\ room \in ContactRoom /\ DOMAIN room.notices = 1..Len(room.notices)
      /\ n \in 1..Len(room.notices) /\ notice \in Notice /\ notice.job
      /\ notice.status # "acknowledged" /\ send \in [Deliverers -> {Notices!Idle} \cup Sending(Len(room.notices))]
  BY NoticesOf DEF NoticeInv, Notices!PickUp, Notices!due
<1>1. CASE /\ room' = [room EXCEPT !.notices[n].attempts = @ + 1, !.notices[n].held = TRUE]
           /\ Notices!Delivers(d, [at |-> "waking", notice |-> n])
  <2> DEFINE w == [at |-> "waking", notice |-> n]
  <2>1. picked \in Notice /\ picked.status = notice.status /\ picked.job = notice.job
    <3> DEFINE more == notice.attempts + 1
    <3>1. more \in Nat
      BY <1>0 DEF Notice
    <3> HIDE DEF notice
    <3>2. notice \in Notice
      BY <1>0
    <3>3. picked = [notice EXCEPT !.attempts = more, !.held = TRUE]
      OBVIOUS
    <3> HIDE DEF more, picked
    <3> QED BY <3>1, <3>2, <3>3 DEF Notice
  <2>2. room' = [room EXCEPT !.notices[n] = picked]
    <3> DEFINE counted == [notice EXCEPT !.attempts = notice.attempts + 1]
               first == [room EXCEPT !.notices[n] = counted]
    <3>1. first.notices[n] = counted
      BY <1>0 DEF ContactRoom
    <3>2. room' = [first EXCEPT !.notices[n].held = TRUE]
      BY <1>1
    <3>3. picked = [counted EXCEPT !.held = TRUE]
      OBVIOUS
    <3> HIDE DEF counted
    <3>4. room' = [first EXCEPT !.notices[n] = picked]
      <4> HIDE DEF first
      <4> QED BY <3>1, <3>2, <3>3
    <3> HIDE DEF picked
    <3> QED BY <1>0, <3>4 DEF ContactRoom
  <2>3. w \in Sending(Len(room.notices)) /\ w.at = "waking" /\ w.notice = n /\ w # Notices!Idle
    BY <1>0 DEF Sending, Notices!Idle
  <2> HIDE DEF picked, w
  <2>4. /\ send' \in [Deliverers -> {Notices!Idle} \cup Sending(Len(room.notices))]
        /\ send'[d] = w /\ \A e \in Deliverers \ {d}: send'[e] = send[e]
    BY <1>1, <2>3, SendTyped DEF w
  <2>5. /\ NoticeInv'
        /\ \A k \in 1..Len(room.notices): room'.notices[k] = IF k = n THEN picked ELSE room.notices[k]
    BY <1>0, <2>1, <2>2, <2>4, NoticeWritten
  <2>6. Authorized
    BY <2>3, <2>4 DEF Authorized
  <2>7. Stays
    BY <1>0, <2>3, <2>4, <2>5 DEF Stays, NoticeInv
  <2> QED BY <2>5, <2>6, <2>7
<1>2. CASE room' = Notices!drop(room, n) /\ UNCHANGED send
  <2>1. lost \in Notice /\ ~lost.job
    BY <1>0, GoneNotice
  <2>2. room' = [room EXCEPT !.notices[n] = lost]
    BY <1>2 DEF Notices!drop
  <2> HIDE DEF lost
  <2>3. /\ NoticeInv'
        /\ \A k \in 1..Len(room.notices): room'.notices[k] = IF k = n THEN lost ELSE room.notices[k]
    BY <1>0, <1>2, <2>1, <2>2, NoticeWritten
  <2>4. Authorized
    BY <1>2 DEF Authorized
  <2>5. Stays
    BY <1>0, <1>2, <2>3 DEF Stays, NoticeInv
  <2> QED BY <2>3, <2>4, <2>5
<1> QED BY <1>1, <1>2 DEF Notices!PickUp

LEMMA AbandonKeeps ==
  ASSUME NoticeInv, NEW d \in Deliverers, Notices!Abandon(d)
  PROVE  NoticeInv' /\ Authorized /\ Stays
<1> DEFINE left(n) == IF room.notices[n].status = "queued" THEN "failed" ELSE room.notices[n].status
           s == [n \in DOMAIN room.notices |-> Notices!gone(room.notices[n], left(n))]
<1>0. /\ room \in ContactRoom /\ DOMAIN room.notices = 1..Len(room.notices) /\ Len(room.notices) \in Nat
      /\ \A n \in 1..Len(room.notices): room.notices[n] \in Notice
  BY NoticesOf DEF NoticeInv
<1>1. room' = [room EXCEPT !.notices = s] /\ UNCHANGED send
  BY DEF Notices!Abandon
<1>2. \A n \in 1..Len(room.notices):
        Notices!gone(room.notices[n], left(n)) \in Notice
        /\ Notices!gone(room.notices[n], left(n)).status = left(n)
        /\ ~Notices!gone(room.notices[n], left(n)).job
  <2> TAKE n \in 1..Len(room.notices)
  <2>1. left(n) \in {"queued", "sent", "failed", "acknowledged"}
    BY <1>0 DEF Notice
  <2> HIDE DEF left
  <2> QED BY <1>0, <2>1, GoneNotice
<1>3. \A n \in 1..Len(room.notices): /\ s[n] \in Notice /\ s[n].status = left(n) /\ ~s[n].job
  BY <1>0, <1>2
<1>4. s \in Seq(Notice)
  BY <1>0, <1>2, IsASeq
<1>5. Len(s) = Len(room.notices) /\ DOMAIN s = 1..Len(room.notices)
  BY <1>0, <1>4, LenProperties
<1>6. \A n \in 1..Len(room.notices): room.notices[n].status = "acknowledged" => left(n) = "acknowledged"
  OBVIOUS
<1> HIDE DEF s, left
<1>7. room' \in ContactRoom /\ room'.notices = s
  BY <1>0, <1>1, <1>4 DEF ContactRoom
<1>8. NoticeInv'
  BY <1>1, <1>3, <1>5, <1>7 DEF NoticeInv
<1>9. Stays
  BY <1>0, <1>1, <1>3, <1>6, <1>7 DEF Stays
<1> QED BY <1>1, <1>8, <1>9 DEF Authorized

(* Nothing is sent that is not authorized at that moment.                  *)
LEMMA DispatchKeeps ==
  ASSUME NoticeInv, NEW d \in Deliverers, Notices!Dispatch(d)
  PROVE  NoticeInv' /\ Authorized /\ Stays
<1> DEFINE n == send[d].notice
           lost == Notices!gone(room.notices[n], "failed")
           w == [send[d] EXCEPT !.at = "sending"]
<1>0. /\ room \in ContactRoom /\ DOMAIN room.notices = 1..Len(room.notices)
      /\ \A k \in 1..Len(room.notices): room.notices[k] \in Notice
      /\ send \in [Deliverers -> {Notices!Idle} \cup Sending(Len(room.notices))]
  BY NoticesOf DEF NoticeInv
<1>1. send[d].at = "waking" /\ send[d] \in Sending(Len(room.notices)) /\ n \in 1..Len(room.notices)
  BY <1>0 DEF Notices!Dispatch, Notices!Idle, Sending
<1>i. Notices!Idle.at # "sending"
  BY DEF Notices!Idle
<1>2. CASE UNCHANGED <<room, reached>> /\ Notices!Delivers(d, Notices!Idle)
  <2>1. /\ send' \in [Deliverers -> {Notices!Idle} \cup Sending(Len(room.notices))]
        /\ send'[d] = Notices!Idle /\ \A e \in Deliverers \ {d}: send'[e] = send[e]
    BY <1>2, SendTyped
  <2>2. NoticeInv' /\ Authorized /\ Stays
    BY <1>i, <1>2, <2>1 DEF NoticeInv, Authorized, Stays
  <2> QED BY <2>2
<1>3. CASE room' = Notices!drop(room, n) /\ Notices!Delivers(d, Notices!Idle) /\ room.notices[n].job
  <2>0. lost \in Notice /\ ~lost.job
    BY <1>0, <1>1, GoneNotice
  <2>1. /\ send' \in [Deliverers -> {Notices!Idle} \cup Sending(Len(room.notices))]
        /\ send'[d] = Notices!Idle /\ \A e \in Deliverers \ {d}: send'[e] = send[e]
    BY <1>3, SendTyped
  <2>2. room' = [room EXCEPT !.notices[n] = lost]
    BY <1>3 DEF Notices!drop
  <2> HIDE DEF lost, n
  <2>3. /\ NoticeInv'
        /\ \A k \in 1..Len(room.notices): room'.notices[k] = IF k = n THEN lost ELSE room.notices[k]
    BY <1>0, <1>1, <2>0, <2>1, <2>2, NoticeWritten
  <2>4. Authorized
    BY <1>i, <2>1 DEF Authorized
  <2>5. Stays
    BY <1>0, <1>1, <1>3, <2>1, <2>3 DEF Stays, NoticeInv
  <2> QED BY <2>3, <2>4, <2>5
<1>4. CASE /\ room.open /\ room.notices[n].job /\ Notices!notificationAuthorized(room, room.notices[n].cause)
           /\ UNCHANGED room /\ Notices!Delivers(d, w)
  <2>0. w \in Sending(Len(room.notices)) /\ w.notice = n
    BY <1>1 DEF Sending
  <2> HIDE DEF w
  <2>1. /\ send' \in [Deliverers -> {Notices!Idle} \cup Sending(Len(room.notices))]
        /\ send'[d] = w /\ \A e \in Deliverers \ {d}: send'[e] = send[e]
    BY <1>4, <2>0, SendTyped
  <2>2. NoticeInv'
    BY <1>4, <2>1 DEF NoticeInv
  <2>3. Authorized
    BY <1>4, <2>0, <2>1 DEF Authorized
  <2>4. Stays
    BY <1>0, <1>1, <1>4, <2>0, <2>1 DEF Stays, NoticeInv
  <2> QED BY <2>2, <2>3, <2>4
<1> QED BY <1>2, <1>3, <1>4 DEF Notices!Dispatch

(* The answer of a send does not bring back what was acknowledged.         *)
LEMMA DeliveredKeeps ==
  ASSUME NoticeInv, NEW d \in Deliverers, NEW ok \in BOOLEAN, Notices!Delivered(d, ok)
  PROVE  NoticeInv' /\ Authorized /\ Stays
<1> DEFINE n == send[d].notice
           s == Notices!settle(room.notices[n], ok)
           again == ~ok /\ room.notices[n].job /\ room.notices[n].attempts < MaxAttempts
           notice == IF again THEN [s EXCEPT !.held = FALSE] ELSE Notices!gone(s, s.status)
<1>0. /\ room \in ContactRoom /\ DOMAIN room.notices = 1..Len(room.notices)
      /\ \A k \in 1..Len(room.notices): room.notices[k] \in Notice
      /\ send \in [Deliverers -> {Notices!Idle} \cup Sending(Len(room.notices))]
  BY NoticesOf DEF NoticeInv
<1>1. send[d].at = "sending" /\ n \in 1..Len(room.notices)
  BY <1>0 DEF Notices!Delivered, Notices!Idle, Sending
<1>2. room' = [room EXCEPT !.notices[n] = notice] /\ Notices!Delivers(d, Notices!Idle)
  BY DEF Notices!Delivered
<1>3. /\ s \in Notice /\ s.job = room.notices[n].job
      /\ s.status = "acknowledged" <=> room.notices[n].status = "acknowledged"
  BY <1>0, <1>1 DEF Notices!settle, Notice
<1>4. room.notices[n].status = "acknowledged" => ~again
  BY <1>0, <1>1 DEF NoticeInv
<1> HIDE DEF again
<1>5. /\ notice \in Notice /\ notice.status = s.status
      /\ s.status = "acknowledged" => ~notice.job
  <2> HIDE DEF s
  <2>1. CASE again
    BY <1>3, <1>4, <2>1 DEF Notice
  <2>2. CASE ~again
    <3>1. s.status \in {"queued", "sent", "failed", "acknowledged"}
      BY <1>3 DEF Notice
    <3> QED BY <1>3, <2>2, <3>1, GoneNotice
  <2> QED BY <2>1, <2>2
<1>6. /\ send' \in [Deliverers -> {Notices!Idle} \cup Sending(Len(room.notices))]
      /\ send'[d] = Notices!Idle /\ \A e \in Deliverers \ {d}: send'[e] = send[e]
  BY <1>2, SendTyped
<1> HIDE DEF notice, s, n
<1>7. /\ NoticeInv'
      /\ \A k \in 1..Len(room.notices): room'.notices[k] = IF k = n THEN notice ELSE room.notices[k]
  BY <1>0, <1>1, <1>2, <1>5, <1>6, NoticeWritten
<1>8. Authorized
  BY <1>6 DEF Authorized, Notices!Idle
<1>9. Stays
  BY <1>0, <1>1, <1>3, <1>5, <1>6, <1>7 DEF Stays, NoticeInv
<1> QED BY <1>7, <1>8, <1>9

LEMMA ReportsKeep ==
  ASSUME NoticeInv, NEW n \in DOMAIN room.notices, Notices!HoldEnds(n) \/ Notices!Acknowledge(n)
  PROVE  NoticeInv' /\ Authorized /\ Stays
<1>0. /\ room \in ContactRoom /\ DOMAIN room.notices = 1..Len(room.notices)
      /\ room.notices[n] \in Notice /\ send \in [Deliverers -> {Notices!Idle} \cup Sending(Len(room.notices))]
      /\ room.notices[n].status = "acknowledged" => ~room.notices[n].job
  BY NoticesOf DEF NoticeInv
<1>1. UNCHANGED send
  BY DEF Notices!HoldEnds, Notices!Acknowledge
<1>2. PICK notice \in Notice: /\ room' = [room EXCEPT !.notices[n] = notice]
                              /\ notice.status = "acknowledged" => ~notice.job
                              /\ room.notices[n].status = "acknowledged" => notice.status = "acknowledged"
  <2>1. CASE Notices!HoldEnds(n)
    <3> DEFINE notice == [room.notices[n] EXCEPT !.held = FALSE]
    <3>1. notice \in Notice /\ notice.status = room.notices[n].status /\ notice.job = room.notices[n].job
      BY <1>0 DEF Notice
    <3>2. room' = [room EXCEPT !.notices[n] = notice]
      BY <2>1 DEF Notices!HoldEnds
    <3> HIDE DEF notice
    <3> QED BY <1>0, <3>1, <3>2
  <2>2. CASE Notices!Acknowledge(n)
    <3> DEFINE notice == Notices!gone(room.notices[n], "acknowledged")
    <3>1. notice \in Notice /\ notice.status = "acknowledged" /\ ~notice.job
      BY <1>0, GoneNotice
    <3>2. room' = [room EXCEPT !.notices[n] = notice]
      BY <2>2 DEF Notices!Acknowledge
    <3> HIDE DEF notice
    <3> QED BY <1>0, <3>1, <3>2
  <2> QED BY <2>1, <2>2
<1>3. /\ NoticeInv'
      /\ \A k \in 1..Len(room.notices): room'.notices[k] = IF k = n THEN notice ELSE room.notices[k]
  BY <1>0, <1>1, <1>2, NoticeWritten
<1>4. Authorized /\ Stays
  BY <1>0, <1>1, <1>2, <1>3 DEF Authorized, Stays, NoticeInv
<1> QED BY <1>3, <1>4

LEMMA RestartKeeps ==
  ASSUME NoticeInv, Notices!Restart \/ UNCHANGED noticeVars
  PROVE  NoticeInv' /\ Authorized /\ Stays
<1>1. room' = room
  BY DEF Notices!Restart, noticeVars
<1>2. CASE Notices!Restart
  <2>1. send' = [d \in Deliverers |-> Notices!Idle]
    BY <1>2 DEF Notices!Restart
  <2>2. NoticeInv'
    BY <1>1, <2>1 DEF NoticeInv
  <2>3. Authorized /\ Stays
    BY <1>1, <2>1 DEF NoticeInv, Authorized, Stays, Notices!Idle
  <2> QED BY <2>2, <2>3
<1>3. CASE UNCHANGED noticeVars
  <2>1. send' = send
    BY <1>3 DEF noticeVars
  <2>2. NoticeInv'
    BY <1>1, <2>1 DEF NoticeInv
  <2> QED BY <1>1, <2>1, <2>2 DEF NoticeInv, Authorized, Stays
<1> QED BY <1>2, <1>3

LEMMA NoticesBegin == Outreach => NoticeInv
<1> SUFFICES ASSUME Notices!Init PROVE NoticeInv
  BY DEF Outreach
<1>1. room.notices = <<>> /\ <<>> \in Seq(Notice)
  BY DEF Notices!Init
<1>2. room \in ContactRoom
  BY <1>1 DEF Notices!Init, ContactRoom, Causes
<1> QED BY <1>1, <1>2 DEF NoticeInv, Notices!Init

LEMMA NoticeStep ==
  ASSUME NoticeInv, Notices!Next \/ UNCHANGED noticeVars
  PROVE  NoticeInv' /\ Authorized /\ Stays
<1>1. CASE Notices!People
  BY <1>1, PeopleKeep
<1>2. ASSUME NEW d \in Deliverers, Notices!Carries(d)
      PROVE  NoticeInv' /\ Authorized /\ Stays
  BY <1>2, AbandonKeeps, DispatchKeeps, PickUpKeeps, DeliveredKeeps DEF Notices!Carries
<1>3. CASE Notices!Restart \/ UNCHANGED noticeVars
  BY <1>3, RestartKeeps
<1>4. CASE \E n \in DOMAIN room.notices: Notices!HoldEnds(n) \/ Notices!Acknowledge(n)
  BY <1>4, ReportsKeep
<1> QED BY <1>1, <1>2, <1>3, <1>4 DEF Notices!Next

(* Of the composition with the thanks, which leave the notices alone.      *)
Both == /\ UNCHANGED underWay
        /\ \/ underWay /\ Notices!Next /\ UNCHANGED thanksVars
           \/ ~underWay /\ Thanks!Next /\ UNCHANGED noticeVars

(* The outbox of the contact is well formed, and nothing acknowledged is   *)
(* in it.                                                                  *)
THEOREM NoticesKept == Outreach => []NoticeInv
<1>1. NoticeInv /\ [Both]_<<underWay, noticeVars, thanksVars>> => NoticeInv'
  BY NoticeStep DEF Both
<1> QED BY <1>1, NoticesBegin, PTL DEF Outreach, Both

(* A request to the contact leaves only on an authority that holds then    *)
(* (deliverNotifications of src/worker/src/trips.ts).                      *)
THEOREM AuthorityAtSending == Outreach => SentWithAuthority
<1>1. NoticeInv /\ [Both]_<<underWay, noticeVars, thanksVars>> => [Authorized]_noticeVars
  BY NoticeStep DEF Both
<1> QED BY <1>1, NoticesKept, PTL DEF Outreach, Both, SentWithAuthority, Notices!SentWithAuthority, Authorized, Notices!vars, noticeVars

(* What was acknowledged stays so and is not sent again (acknowledge).     *)
THEOREM AcknowledgedForGood == Outreach => AcknowledgedStays
<1>1. NoticeInv /\ [Both]_<<underWay, noticeVars, thanksVars>> => [Stays]_noticeVars
  BY NoticeStep DEF Both
<1> QED BY <1>1, NoticesKept, PTL DEF Outreach, Both, AcknowledgedStays, Notices!AcknowledgedStays, Stays, Notices!vars, noticeVars

----------------------------------------------------------------------------
(***************************************************************************)
(* Thanks.  A journey has at most one receipt, the banner of the account   *)
(* is of its kind, and a call that was accepted has left that banner: so   *)
(* has a receipt that is recorded, unless the account was erased since.    *)
(***************************************************************************)
Receipt == [kind: Kinds, status: {"pending", "recorded", "cancelled", "removed"}, held: BOOLEAN]
Closed == [eligible: BOOLEAN, receipts: Seq(Receipt)]
Call == {Thanks!Idle}
        \cup [at: {"asking", "choosing"}, kind: Kinds, seen: Nat]
        \cup [at: {"status", "allowed", "refused", "accepted", "declined"}, id: {1}]
        \cup [at: {"recording"}, id: {1}, kind: Kinds]
Delivering == {"status", "allowed", "refused", "recording", "accepted", "declined"}

Thanked == ~account.active \/ 1 \in DOMAIN account.banners
ReceiptsOK ==
  /\ journey \in Closed /\ Len(journey.receipts) <= 1
  /\ account \in [active: BOOLEAN, banners: [{} -> Kinds \cup {"none"}] \cup [{1} -> Kinds]]
  /\ 1 \in DOMAIN account.banners =>
       1 \in DOMAIN journey.receipts /\ account.banners[1] = journey.receipts[1].kind
  /\ \A i \in DOMAIN journey.receipts: journey.receipts[i].status = "recorded" => Thanked
Follows(w) ==
  /\ w.at \in Delivering => 1 \in DOMAIN journey.receipts
  /\ w.at = "recording" => w.kind = journey.receipts[1].kind
  /\ w.at = "accepted" => Thanked
CallsOK == caller \in [Callers -> Call] /\ \A c \in Callers: Follows(caller[c])

(* What a step leaves to the calls that are under way.                     *)
Grows ==
  /\ 1 \in DOMAIN journey.receipts =>
       1 \in DOMAIN journey'.receipts /\ journey'.receipts[1].kind = journey.receipts[1].kind
  /\ Thanked => Thanked'

LEMMA ReceiptsOf ==
  ASSUME ReceiptsOK
  PROVE  /\ journey.receipts \in Seq(Receipt) /\ Len(journey.receipts) \in 0..1
         /\ DOMAIN journey.receipts = 1..Len(journey.receipts)
         /\ \A i \in DOMAIN journey.receipts: i = 1 /\ journey.receipts[i] \in Receipt
<1>1. journey.receipts \in Seq(Receipt) /\ Len(journey.receipts) <= 1
  BY DEF ReceiptsOK, Closed
<1>2. /\ Len(journey.receipts) \in Nat /\ DOMAIN journey.receipts = 1..Len(journey.receipts)
      /\ \A i \in 1..Len(journey.receipts): journey.receipts[i] \in Receipt
  BY <1>1, LenProperties, ElementOfSeq
<1>3. Len(journey.receipts) \in 0..1
  <2>1. Len(journey.receipts) \in Nat /\ Len(journey.receipts) <= 1
    BY <1>1, <1>2
  <2> DEFINE n == Len(journey.receipts)
  <2> HIDE DEF n
  <2>2. n \in Nat /\ n <= 1 => n \in 0..1
    OBVIOUS
  <2> QED BY <2>1, <2>2 DEF n
<1>4. \A i \in DOMAIN journey.receipts: i = 1
  BY <1>2, <1>3
<1> QED BY <1>1, <1>2, <1>3, <1>4

LEMMA CallMoves ==
  ASSUME CallsOK, Grows, NEW c \in Callers, NEW w \in Call, Thanks!Waits(c, w), Follows(w)'
  PROVE  CallsOK'
<1>1. caller' \in [Callers -> Call] /\ caller'[c] = w /\ \A e \in Callers \ {c}: caller'[e] = caller[e]
  BY DEF CallsOK, Thanks!Waits
<1>2. ASSUME NEW e \in Callers PROVE Follows(caller[e])' 
  <2>1. CASE e = c
    BY <1>1, <2>1 DEF Follows
  <2>2. CASE e # c
    BY <1>1, <2>2 DEF Follows, Grows, CallsOK, Delivering, Thanked
  <2> QED BY <2>1, <2>2
<1> QED BY <1>1, <1>2 DEF CallsOK

LEMMA CallsStay ==
  ASSUME CallsOK, Grows, UNCHANGED caller
  PROVE  CallsOK'
BY DEF CallsOK, Grows, Follows, Delivering, Thanked

LEMMA NothingWritten ==
  ASSUME ReceiptsOK, UNCHANGED <<journey, account>>
  PROVE  ReceiptsOK' /\ Grows
BY DEF ReceiptsOK, Grows, Thanked

(* One receipt is written and keeps its kind.                              *)
LEMMA ReceiptWritten ==
  ASSUME ReceiptsOK, NEW i \in DOMAIN journey.receipts, NEW receipt \in Receipt,
         receipt.kind = journey.receipts[i].kind, receipt.status = "recorded" => Thanked,
         Thanks!Receipts([journey.receipts EXCEPT ![i] = receipt]), UNCHANGED account
  PROVE  ReceiptsOK' /\ Grows
<1> DEFINE s == [journey.receipts EXCEPT ![i] = receipt]
<1>1. i = 1 /\ i \in 1..Len(journey.receipts) /\ journey.receipts \in Seq(Receipt) /\ Len(journey.receipts) \in 0..1
  BY ReceiptsOf
<1>2. /\ s \in Seq(Receipt) /\ Len(s) = Len(journey.receipts) /\ DOMAIN s = 1..Len(journey.receipts)
      /\ s[1] = receipt
  BY <1>1, ExceptSeq
<1>3. journey' = [journey EXCEPT !.receipts = s]
  BY DEF Thanks!Receipts
<1> HIDE DEF s
<1>4. journey' \in Closed /\ journey'.receipts = s
  BY <1>2, <1>3 DEF ReceiptsOK, Closed
<1>5. \A k \in DOMAIN s: s[k] = receipt
  BY <1>1, <1>2
<1>6. Thanked <=> Thanked'
  BY DEF Thanked
<1>7. ReceiptsOK'
  BY <1>1, <1>2, <1>4, <1>5, <1>6 DEF ReceiptsOK
<1> QED BY <1>1, <1>2, <1>4, <1>6, <1>7 DEF Grows

LEMMA Settled ==
  ASSUME ReceiptsOK, NEW i \in DOMAIN journey.receipts,
         NEW status \in {"pending", "recorded", "cancelled", "removed"}, status = "recorded" => Thanked,
         Thanks!Receipts(Thanks!settled(i, status)), UNCHANGED account
  PROVE  ReceiptsOK' /\ Grows
<1> DEFINE receipt == [journey.receipts[i] EXCEPT !.status = status, !.held = FALSE]
<1>1. journey.receipts[i] \in Receipt
  BY ReceiptsOf
<1>2. receipt \in Receipt /\ receipt.kind = journey.receipts[i].kind /\ receipt.status = status
  BY <1>1 DEF Receipt
<1>3. Thanks!Receipts([journey.receipts EXCEPT ![i] = receipt])
  BY DEF Thanks!settled
<1> HIDE DEF receipt
<1> QED BY <1>2, <1>3, ReceiptWritten

LEMMA Held ==
  ASSUME ReceiptsOK, NEW i \in DOMAIN journey.receipts, NEW h \in BOOLEAN, journey.receipts[i].status = "pending",
         Thanks!Receipts([journey.receipts EXCEPT ![i].held = h]), UNCHANGED account
  PROVE  ReceiptsOK' /\ Grows
<1> DEFINE receipt == [journey.receipts[i] EXCEPT !.held = h]
<1>1. journey.receipts[i] \in Receipt
  BY ReceiptsOf
<1>2. receipt \in Receipt /\ receipt.kind = journey.receipts[i].kind /\ receipt.status = "pending"
  BY <1>1 DEF Receipt
<1>3. Thanks!Receipts([journey.receipts EXCEPT ![i] = receipt])
  OBVIOUS
<1> HIDE DEF receipt
<1> QED BY <1>2, <1>3, ReceiptWritten

(* A call that is under way goes on, and what is stored is not touched.    *)
LEMMA CallOnly ==
  ASSUME ReceiptsOK, CallsOK, UNCHANGED <<journey, account>>, NEW c \in Callers, NEW w \in Call,
         Thanks!Waits(c, w), Follows(w)
  PROVE  ReceiptsOK' /\ CallsOK'
<1>1. ReceiptsOK' /\ Grows
  BY NothingWritten
<1>2. Follows(w)'
  BY DEF Follows, Thanked
<1> QED BY <1>1, <1>2, CallMoves

LEMMA IdleFollows == Thanks!Idle \in Call /\ Follows(Thanks!Idle) /\ Follows(Thanks!Idle)'
BY DEF Call, Follows, Thanks!Idle, Delivering

LEMMA CallShape ==
  ASSUME CallsOK, NEW c \in Callers
  PROVE  /\ caller[c] \in Call /\ Follows(caller[c])
         /\ caller[c].at \in Delivering => caller[c].id = 1 /\ 1 \in DOMAIN journey.receipts
BY DEF CallsOK, Call, Follows, Delivering, Thanks!Idle

(* sendGratitude: a receipt is added to none.                              *)
LEMMA Asking ==
  ASSUME ReceiptsOK, CallsOK, NEW c \in Callers, NEW k \in Kinds,
         Thanks!Ask(c, k) \/ Thanks!Answered(c)
  PROVE  ReceiptsOK' /\ CallsOK'
<1>1. CASE Thanks!Ask(c, k)
  <2> DEFINE w == [at |-> "asking", kind |-> k, seen |-> Len(journey.receipts)]
  <2>1. Len(journey.receipts) \in Nat
    BY ReceiptsOf
  <2>2. w \in Call /\ Follows(w)
    BY <2>1 DEF Call, Follows, Delivering
  <2>3. Thanks!Waits(c, w) /\ UNCHANGED <<journey, account>>
    BY <1>1 DEF Thanks!Ask
  <2> QED BY <2>2, <2>3, CallOnly
<1>2. CASE Thanks!Answered(c)
  <2> DEFINE w == [caller[c] EXCEPT !.at = "choosing"]
  <2>1. caller[c].at = "asking" /\ caller[c] \in Call
    BY <1>2, CallShape DEF Thanks!Answered
  <2>2. w \in Call /\ w.at = "choosing"
    BY <2>1 DEF Call, Thanks!Idle
  <2>3. Follows(w)
    BY <2>2 DEF Follows, Delivering
  <2>4. UNCHANGED <<journey, account>> /\ (Thanks!Waits(c, w) \/ Thanks!Waits(c, Thanks!Idle))
    BY <1>2 DEF Thanks!Answered
  <2> QED BY <2>2, <2>3, <2>4, IdleFollows, CallOnly
<1> QED BY <1>1, <1>2

LEMMA Choosing ==
  ASSUME ReceiptsOK, CallsOK, NEW c \in Callers, Thanks!Choose(c)
  PROVE  ReceiptsOK' /\ CallsOK'
<1> DEFINE receipt == [kind |-> caller[c].kind, status |-> "pending", held |-> FALSE]
           s == Append(journey.receipts, receipt)
<1>1. Thanks!Waits(c, Thanks!Idle) /\ UNCHANGED account /\ caller[c].at = "choosing"
  BY DEF Thanks!Choose
<1>2. CASE UNCHANGED journey
  BY <1>1, <1>2, IdleFollows, CallOnly
<1>3. CASE Thanks!Receipts(s) /\ journey.receipts = <<>>
  <2>1. receipt \in Receipt /\ receipt.status # "recorded"
    <3>1. caller[c].kind \in Kinds
      BY <1>1, CallShape DEF Call, Thanks!Idle
    <3> QED BY <3>1 DEF Receipt
  <2> HIDE DEF receipt
  <2>2. s = <<receipt>> /\ <<receipt>> \in Seq(Receipt)
    BY <1>3, <2>1
  <2>3. Len(<<receipt>>) = 1 /\ DOMAIN <<receipt>> = {1} /\ <<receipt>>[1] = receipt
    OBVIOUS
  <2>4. journey' = [journey EXCEPT !.receipts = s]
    BY <1>3 DEF Thanks!Receipts
  <2>5. Len(s) = 1 /\ DOMAIN s = {1} /\ s[1] = receipt /\ s \in Seq(Receipt)
    BY <2>2, <2>3
  <2> HIDE DEF s
  <2>6. journey' \in Closed /\ journey'.receipts = s
    BY <2>4, <2>5 DEF ReceiptsOK, Closed
  <2>7. 1 \notin DOMAIN journey.receipts
    BY <1>3
  <2>8. ReceiptsOK'
    <3>1. 1 \notin DOMAIN account'.banners /\ account' = account
      BY <1>1, <2>7 DEF ReceiptsOK
    <3>2. \A i \in DOMAIN s: s[i].status # "recorded"
      BY <2>1, <2>5
    <3>3. journey' \in Closed /\ Len(journey'.receipts) <= 1
      <4>1. Len(journey'.receipts) = 1
        BY <2>5, <2>6, Zenon
      <4> QED BY <2>6, <4>1
    <3>4. \A i \in DOMAIN journey'.receipts: journey'.receipts[i].status # "recorded"
      BY <2>6, <3>2
    <3>5. account' \in [active: BOOLEAN, banners: [{} -> Kinds \cup {"none"}] \cup [{1} -> Kinds]]
      BY <3>1 DEF ReceiptsOK
    <3> HIDE DEF Closed
    <3> QED BY <3>1, <3>3, <3>4, <3>5 DEF ReceiptsOK
  <2>9. Grows
    BY <1>1, <2>7 DEF Grows, Thanked
  <2> QED BY <1>1, <2>8, <2>9, IdleFollows, CallMoves
<1> QED BY <1>2, <1>3 DEF Thanks!Choose, Thanks!thanked

(* deliverGratitude: a receipt is held, checked, recorded and settled.     *)
LEMMA PickingUp ==
  ASSUME ReceiptsOK, CallsOK, NEW c \in Callers, NEW i \in DOMAIN journey.receipts, Thanks!PickUp(c, i)
  PROVE  ReceiptsOK' /\ CallsOK'
<1>1. /\ UNCHANGED account /\ i = 1 /\ journey.receipts[i].status = "pending"
  BY ReceiptsOf DEF Thanks!PickUp, Thanks!pending
<1>2. CASE Thanks!Receipts([journey.receipts EXCEPT ![i].held = TRUE]) /\ Thanks!Waits(c, [at |-> "status", id |-> i])
  <2> DEFINE w == [at |-> "status", id |-> i]
  <2>1. ReceiptsOK' /\ Grows
    BY <1>1, <1>2, Held
  <2>2. w \in Call /\ w.at = "status"
    BY <1>1 DEF Call
  <2> HIDE DEF w
  <2>3. Follows(w)'
    BY <1>1, <2>1, <2>2 DEF Follows, Grows
  <2> QED BY <1>2, <2>1, <2>2, <2>3, CallMoves DEF w
<1>3. CASE Thanks!Receipts(Thanks!settled(i, "cancelled")) /\ UNCHANGED caller
  BY <1>1, <1>3, Settled, CallsStay
<1> QED BY <1>2, <1>3 DEF Thanks!PickUp

LEMMA Checking ==
  ASSUME ReceiptsOK, CallsOK, NEW c \in Callers, Thanks!Status(c) \/ Thanks!Proceed(c)
  PROVE  ReceiptsOK' /\ CallsOK'
<1>1. /\ caller[c].at \in {"status", "allowed", "refused"} /\ caller[c].id = 1 /\ 1 \in DOMAIN journey.receipts
      /\ UNCHANGED account
  BY CallShape DEF Thanks!Status, Thanks!Proceed, Delivering
<1>2. CASE Thanks!Status(c)
  <2> DEFINE w == [at |-> IF deleted = {} THEN "allowed" ELSE "refused", id |-> caller[c].id]
  <2>1. w \in Call /\ Follows(w)
    BY <1>1 DEF Call, Follows
  <2> QED BY <1>2, <2>1, CallOnly DEF Thanks!Status
<1>3. CASE Thanks!Proceed(c)
  <2> DEFINE w == [at |-> "recording", id |-> 1, kind |-> journey.receipts[1].kind]
  <2>1. w \in Call /\ Follows(w)
    BY <1>1, ReceiptsOf DEF Call, Follows, Receipt
  <2>2. CASE UNCHANGED journey
    <3>1. Thanks!Waits(c, w) \/ Thanks!Waits(c, Thanks!Idle)
      BY <1>1, <1>3 DEF Thanks!Proceed
    <3> QED BY <1>1, <2>1, <2>2, <3>1, IdleFollows, CallOnly
  <2>3. CASE Thanks!Receipts(Thanks!settled(1, "cancelled")) /\ Thanks!Waits(c, Thanks!Idle)
    BY <1>1, <2>3, Settled, IdleFollows, CallMoves
  <2> QED BY <1>1, <1>3, <2>2, <2>3 DEF Thanks!Proceed
<1> QED BY <1>2, <1>3

(* recordGratitude: the account knows the receipt by its number.           *)
LEMMA Recording ==
  ASSUME ReceiptsOK, CallsOK, NEW c \in Callers, Thanks!Record(c)
  PROVE  ReceiptsOK' /\ CallsOK'
<1> DEFINE k == caller[c].kind
           b == [j \in DOMAIN account.banners \cup {1} |-> IF j \in DOMAIN account.banners THEN account.banners[j] ELSE k]
<1>1. /\ caller[c].id = 1 /\ 1 \in DOMAIN journey.receipts /\ k = journey.receipts[1].kind
      /\ caller[c].at = "recording" /\ UNCHANGED journey
  BY CallShape DEF Thanks!Record, Follows, Delivering
<1>2. k \in Kinds
  BY <1>1, CallShape DEF Call, Thanks!Idle
<1>3. account \in [active: BOOLEAN, banners: [{} -> Kinds \cup {"none"}] \cup [{1} -> Kinds]]
  BY DEF ReceiptsOK
<1>4. DOMAIN account.banners \in {{}, {1}}
  BY <1>3
<1>5. /\ b \in [{1} -> Kinds] /\ DOMAIN b = {1} /\ b[1] = k
  BY <1>1, <1>2, <1>3, <1>4 DEF ReceiptsOK
<1>6. account' = IF account.active THEN [account EXCEPT !.banners = b] ELSE account
  BY <1>1 DEF Thanks!Record, Thanks!recordGratitude
<1> HIDE DEF b, k
<1>7. /\ account' \in [active: BOOLEAN, banners: [{} -> Kinds \cup {"none"}] \cup [{1} -> Kinds]]
      /\ account'.active = account.active
      /\ account.active => account'.banners = b
      /\ ~account.active => account' = account
  BY <1>3, <1>5, <1>6
<1>8. Thanked'
  BY <1>5, <1>7 DEF Thanked
<1>9. ReceiptsOK'
  BY <1>1, <1>5, <1>7, <1>8 DEF ReceiptsOK
<1>10. Grows
  BY <1>1, <1>8 DEF Grows
<1>11. \E w \in [at: {"accepted", "declined"}, id: {1}]: Thanks!Waits(c, w)
  BY <1>1 DEF Thanks!Record
<1>12. \A w \in [at: {"accepted", "declined"}, id: {1}]: w \in Call /\ Follows(w)'
  BY <1>1, <1>8 DEF Call, Follows
<1> QED BY <1>9, <1>10, <1>11, <1>12, CallMoves

LEMMA Concluding ==
  ASSUME ReceiptsOK, CallsOK, NEW c \in Callers, Thanks!Recorded(c) \/ Thanks!Fail(c)
  PROVE  ReceiptsOK' /\ CallsOK'
<1>1. /\ caller[c].id = 1 /\ 1 \in DOMAIN journey.receipts /\ UNCHANGED account
      /\ Thanks!Waits(c, Thanks!Idle)
  BY CallShape DEF Thanks!Recorded, Thanks!Fail, Delivering
<1>2. Thanks!conclude(c) \in {"recorded", "cancelled"} /\ (Thanks!conclude(c) = "recorded" => Thanked)
  BY CallShape DEF Thanks!conclude, Follows
<1>3. \/ UNCHANGED journey
      \/ Thanks!Receipts(Thanks!settled(1, Thanks!conclude(c)))
      \/ Thanks!Receipts(Thanks!settled(1, "pending"))
  BY <1>1 DEF Thanks!Recorded, Thanks!Fail, Thanks!failed
<1>4. ReceiptsOK' /\ Grows
  BY <1>1, <1>2, <1>3, Settled, NothingWritten
<1> QED BY <1>1, <1>4, IdleFollows, CallMoves

(* Deletion: a deleted guardian's account has nothing to show.             *)
LEMMA Forgetting ==
  ASSUME ReceiptsOK, CallsOK, Thanks!EraseAccount \/ Thanks!Scrub
  PROVE  ReceiptsOK' /\ CallsOK'
<1>0. UNCHANGED caller
  BY DEF Thanks!EraseAccount, Thanks!Scrub
<1>1. CASE Thanks!EraseAccount
  <2>1. /\ UNCHANGED journey /\ account' = [active |-> FALSE, banners |-> Thanks!Nobody]
        /\ Thanks!Nobody \in [{} -> Kinds \cup {"none"}]
    BY <1>1 DEF Thanks!EraseAccount, Thanks!Nobody
  <2>2. DOMAIN Thanks!Nobody = {}
    BY DEF Thanks!Nobody
  <2> QED BY <1>0, <2>1, <2>2, CallsStay DEF ReceiptsOK, Grows, Thanked
<1>2. CASE Thanks!Scrub
  <2> DEFINE s == Thanks!removed(journey.receipts)
  <2>1. /\ journey.receipts \in Seq(Receipt) /\ Len(journey.receipts) \in Nat /\ Len(journey.receipts) <= 1
        /\ DOMAIN journey.receipts = 1..Len(journey.receipts)
        /\ \A i \in DOMAIN journey.receipts: journey.receipts[i] \in Receipt
    BY ReceiptsOf DEF ReceiptsOK
  <2>2. \A i \in DOMAIN journey.receipts:
          [journey.receipts[i] EXCEPT !.status = "removed", !.held = FALSE] \in Receipt
    BY <2>1 DEF Receipt
  <2>3. /\ DOMAIN s = 1..Len(journey.receipts)
        /\ \A i \in DOMAIN s: s[i] \in Receipt /\ s[i].status = "removed" /\ s[i].kind = journey.receipts[i].kind
    BY <2>1, <2>2 DEF Thanks!removed, Receipt
  <2>4. s \in Seq(Receipt)
    <3> DEFINE t == [i \in 1..Len(journey.receipts) |-> s[i]]
    <3>1. t \in Seq(Receipt)
      BY <2>1, <2>3, IsASeq
    <3>2. s = t
      BY <2>1, <2>3 DEF Thanks!removed
    <3> QED BY <3>1, <3>2
  <2>5. Len(s) = Len(journey.receipts)
    BY <2>1, <2>3, <2>4, LenProperties
  <2> HIDE DEF s
  <2>6. journey' = [eligible |-> FALSE, receipts |-> s] /\ UNCHANGED account
    BY <1>2 DEF Thanks!Scrub, s
  <2>7. journey' \in Closed /\ journey'.receipts = s
    BY <2>4, <2>6 DEF Closed
  <2>8. ReceiptsOK'
    BY <2>1, <2>3, <2>5, <2>6, <2>7 DEF ReceiptsOK
  <2>9. Grows
    BY <2>1, <2>3, <2>6, <2>7 DEF Grows, Thanked
  <2> QED BY <1>0, <2>8, <2>9, CallsStay
<1> QED BY <1>1, <1>2

LEMMA ThanksStep ==
  ASSUME ReceiptsOK, CallsOK, Thanks!Next \/ UNCHANGED thanksVars
  PROVE  ReceiptsOK' /\ CallsOK'
<1>1. ASSUME NEW c \in Callers, Thanks!Works(c) \/ Thanks!Fail(c) \/ \E k \in Kinds: Thanks!Ask(c, k)
      PROVE  ReceiptsOK' /\ CallsOK'
  <2>1. CASE Thanks!Answered(c)
    <3>1. PICK k \in Kinds: TRUE
      BY <2>1, CallShape DEF Thanks!Answered, Call, Thanks!Idle
    <3> QED BY <2>1, Asking
  <2> QED BY <1>1, <2>1, Asking, Choosing, PickingUp, Checking, Recording, Concluding DEF Thanks!Works
<1>2. CASE Thanks!Time
  <2>1. PICK i \in DOMAIN journey.receipts: Thanks!HoldEnds(i)
    BY <1>2 DEF Thanks!Time
  <2>2. ReceiptsOK' /\ Grows /\ UNCHANGED caller
    BY <2>1, Held DEF Thanks!HoldEnds, Thanks!pending
  <2> QED BY <2>2, CallsStay
<1>3. CASE Thanks!Restart
  <2>1. ReceiptsOK' /\ caller' = [c \in Callers |-> Thanks!Idle]
    BY <1>3, NothingWritten DEF Thanks!Restart
  <2> QED BY <2>1, IdleFollows DEF CallsOK
<1>4. CASE (\E p \in Thanks!People: Thanks!Delete(p)) \/ Thanks!Withdraw \/ UNCHANGED thanksVars
  <2>1. UNCHANGED <<journey, account, caller>>
    BY <1>4 DEF Thanks!Delete, Thanks!Withdraw, thanksVars
  <2> QED BY <2>1, NothingWritten, CallsStay
<1>5. CASE Thanks!EraseAccount \/ Thanks!Scrub
  BY <1>5, Forgetting
<1> QED BY <1>1, <1>2, <1>3, <1>4, <1>5 DEF Thanks!Next

LEMMA ThanksBegin == Outreach => ReceiptsOK /\ CallsOK
<1> SUFFICES ASSUME Thanks!Init PROVE ReceiptsOK /\ CallsOK
  BY DEF Outreach
<1>1. journey = [eligible |-> TRUE, receipts |-> <<>>] /\ <<>> \in Seq(Receipt) /\ Len(<<>>) = 0 /\ DOMAIN <<>> = {}
  BY DEF Thanks!Init
<1>2. journey \in Closed /\ journey.receipts = <<>>
  BY <1>1 DEF Closed
<1>3. /\ account.banners = Thanks!Nobody /\ DOMAIN Thanks!Nobody = {}
      /\ account \in [active: BOOLEAN, banners: [{} -> Kinds \cup {"none"}] \cup [{1} -> Kinds]]
  BY DEF Thanks!Init, Thanks!Nobody
<1>4. ReceiptsOK
  BY <1>1, <1>2, <1>3 DEF ReceiptsOK
<1>5. CallsOK
  BY IdleFollows DEF CallsOK, Thanks!Init
<1> QED BY <1>4, <1>5

(* The journey says recorded of what the guardian's account holds, and of  *)
(* that one banner only (deliverGratitude, recordGratitude).               *)
THEOREM OneBannerEver == Outreach => []OneBanner
<1>1. ReceiptsOK /\ CallsOK /\ [Both]_<<underWay, noticeVars, thanksVars>> => (ReceiptsOK /\ CallsOK)'
  BY ThanksStep DEF Both
<1>2. ReceiptsOK => OneBanner
  <2> SUFFICES ASSUME ReceiptsOK PROVE OneBanner
    OBVIOUS
  <2>1. DOMAIN account.banners = {} \/ DOMAIN account.banners = {1}
    BY DEF ReceiptsOK
  <2>2. \A i, j \in DOMAIN account.banners: i = j
    BY <2>1
  <2>3. ASSUME NEW i \in DOMAIN journey.receipts, journey.receipts[i].status = "recorded"
        PROVE  ~account.active \/ (i \in DOMAIN account.banners /\ account.banners[i] = journey.receipts[i].kind)
    <3>1. i = 1 /\ Thanked
      BY <2>3, ReceiptsOf DEF ReceiptsOK
    <3> QED BY <3>1 DEF ReceiptsOK, Thanked
  <2> QED BY <2>2, <2>3 DEF OneBanner, Thanks!OneBanner
<1> QED BY <1>1, <1>2, ThanksBegin, PTL DEF Outreach, Both

----------------------------------------------------------------------------
(***************************************************************************)
(* Points.  A share reaches an account once, a deleted account earns       *)
(* nothing, and nobody is forgotten.  The inductive invariant, in parts.   *)
(***************************************************************************)

Visiting == {"asking", "answered", "crediting", "returned"}
PCs == {"idle", "called"} \cup Visiting

Entry == [checkedIn: BOOLEAN, rewardStatus: {"pending", "credited", "ineligible"}, points: Nat]
Journey == [status: {"active", "arrived", "cancelled"},
            reward: {"pending", "credited", "ineligible"}, contributions: [Guardians -> Entry]]
RunShape == [pc: PCs, ids: SUBSET Guardians, guardian: Guardians \cup {-1}, amount: Nat,
             restricted: BOOLEAN]
CreditShape == [guardian: Guardians, amount: Nat]

(* TypeOK without the bounds on shares and counters.                       *)
Shape ==
  /\ trip \in Journey \cup {Erased}
  /\ accounts \in [Guardians -> Account]
  /\ governance \in [Guardians -> [suspended: BOOLEAN, deleted: BOOLEAN]]
  /\ runs \in [Runs -> RunShape]
  /\ orphans \subseteq CreditShape
  /\ allocation \in [Guardians -> Nat]
  /\ barred \subseteq Guardians

(* Nothing is under way, and nothing is credited, before the journey       *)
(* closes and the shares are fixed.                                        *)
Quiet ==
  trip.status = "active" =>
    /\ \A p \in Runs: runs[p].pc = "idle"
    /\ orphans = {}
    /\ \A g \in Guardians: ~accounts[g].credited

(* Whoever holds an amount holds the share: an entry that is not settled,  *)
(* a settlement between its calls, a credit call that outlived its caller. *)
OpenEntries(t) ==
  t.status \in {"arrived", "cancelled"} =>
    \A g \in Guardians: t.contributions[g].rewardStatus = "pending"
                          => t.contributions[g].points = allocation[g]

RunAmount(r) ==
  r.pc \in Visiting => r.guardian \in Guardians /\ r.amount = allocation[r.guardian]

Amounts ==
  /\ OpenEntries(trip)
  /\ \A p \in Runs: RunAmount(runs[p])
  /\ \A c \in orphans: c.amount = allocation[c.guardian]

PurgedInactive == \A g \in Guardians: accounts[g].purged => ~accounts[g].active

(* Whoever earns nothing was suspended or deleted.                         *)
Ruled ==
  \A g \in Guardians:
    /\ ~accounts[g].active => governance[g].deleted
    /\ governance[g].deleted \/ governance[g].suspended => g \in barred

done(g) == accounts[g].credited \/ g \in barred

(* A settled entry, and a settlement that is about to settle one, have the *)
(* account's credit or a ruling behind them.                               *)
Entries(t) ==
  t.status = "arrived" =>
    \A g \in Guardians:
      /\ t.contributions[g].rewardStatus = "credited" => done(g)
      /\ t.contributions[g].checkedIn /\ t.contributions[g].rewardStatus = "ineligible"
           => g \in barred

RunKnows(r) ==
  /\ r.pc = "answered" /\ r.restricted => r.guardian \in barred
  /\ r.pc = "returned" => done(r.guardian)

Known == Entries(trip) /\ \A p \in Runs: RunKnows(runs[p])

Completed(t) ==
  t.status = "arrived" /\ t.reward = "credited" =>
    \A g \in Guardians: t.contributions[g].rewardStatus # "pending"

IInv == /\ Shape /\ Quiet /\ Amounts /\ PurgedInactive /\ Ruled /\ Known
        /\ Completed(trip) /\ CreditedOnce

----------------------------------------------------------------------------
(* Shares, and what the writes to the stored journey leave in it.          *)

(* A share of the pool is a number of points.                              *)
LEMMA ShareNat ==
  ASSUME NEW S \in SUBSET Guardians, NEW g \in S
  PROVE  share(g, S) \in Nat
<1>1. Cardinality(S) \in Nat /\ Cardinality(S) # 0
  BY RewardAssumption, FS_Subset, FS_CardinalityType, FS_EmptySet
<1>2. \A n \in Nat: n # 0 => Pool \div n \in Nat
  BY RewardAssumption
<1>3. Pool \div Cardinality(S) \in Nat
  BY <1>1, <1>2
<1> QED BY <1>3 DEF share

(* Refusing an entry settles it, and touches nothing else.                 *)
LEMMA RefusedFields ==
  ASSUME NEW t \in Journey, NEW g \in Guardians
  PROVE  /\ refused(t, g) \in Journey
         /\ refused(t, g).status = t.status
         /\ refused(t, g).reward = t.reward
         /\ refused(t, g).contributions[g].rewardStatus = "ineligible"
         /\ \A h \in Guardians \ {g}: refused(t, g).contributions[h] = t.contributions[h]
BY DEF refused, Journey, Entry

(* Recording a credit settles an open entry, and touches nothing else.     *)
LEMMA RecordedFields ==
  ASSUME NEW t \in Journey, NEW g \in Guardians
  PROVE  /\ recorded(t, g) \in Journey
         /\ recorded(t, g).status = t.status
         /\ recorded(t, g).reward = t.reward
         /\ recorded(t, g).contributions[g].checkedIn = t.contributions[g].checkedIn
         /\ recorded(t, g).contributions[g].rewardStatus =
              IF t.contributions[g].rewardStatus = "pending" THEN "credited"
              ELSE t.contributions[g].rewardStatus
         /\ \A h \in Guardians \ {g}: recorded(t, g).contributions[h] = t.contributions[h]
BY DEF recorded, Journey, Entry

(* Completing changes the journey's reward alone, when no entry is open.   *)
LEMMA CompletedFields ==
  ASSUME NEW t \in Journey
  PROVE  /\ completed(t) \in Journey
         /\ completed(t).status = t.status
         /\ completed(t).contributions = t.contributions
         /\ completed(t).reward = t.reward \/ Unsettled(t) = {}
BY DEF completed, Journey, Entry

----------------------------------------------------------------------------
(* The loop, from any journey a settlement may find after a call: what it  *)
(* stores and where it leaves the run are covered by the invariant.        *)

Found(t) ==
  /\ t \in Journey \cup {Erased}
  /\ t.status # "active"
  /\ OpenEntries(t) /\ Entries(t) /\ Completed(t)

LEMMA LoopKeeps ==
  ASSUME NEW p \in Runs, NEW t, NEW ids \in SUBSET Guardians,
         Found(t), Loop(p, t, ids),
         runs \in [Runs -> RunShape],
         UNCHANGED <<allocation, accounts, barred>>
  PROVE  /\ Found(trip)'
         /\ \E r \in RunShape: /\ runs' = [runs EXCEPT ![p] = r]
                               /\ RunAmount(r)' /\ RunKnows(r)'
<1>1. \A r \in RunShape: r.pc = "idle" => RunAmount(r)' /\ RunKnows(r)'
  BY DEF RunAmount, RunKnows, Visiting
<1>2. Idle \in RunShape /\ Idle.pc = "idle"
  BY DEF Idle, RunShape, PCs
<1>3. Found(t)'
  BY DEF Found, OpenEntries, Entries, Completed, done
<1>4. CASE t = Erased
  BY <1>1, <1>2, <1>3, <1>4 DEF Loop, Found
<1>5. CASE t # Erased
  <2>1. t \in Journey
    BY <1>5 DEF Found
  <2>2. ASSUME NEW g \in ids \cap Unsettled(t), trip' = t,
               runs' = [runs EXCEPT ![p] =
                 [pc |-> "asking", ids |-> ids \ {g}, guardian |-> g,
                  amount |-> t.contributions[g].points, restricted |-> FALSE]]
        PROVE  /\ Found(trip)'
               /\ \E r \in RunShape: /\ runs' = [runs EXCEPT ![p] = r]
                                     /\ RunAmount(r)' /\ RunKnows(r)'
    <3> DEFINE r == [pc |-> "asking", ids |-> ids \ {g}, guardian |-> g,
                     amount |-> t.contributions[g].points, restricted |-> FALSE]
    <3>1. g \in Guardians /\ t.contributions[g].rewardStatus = "pending"
      BY DEF Unsettled
    <3>2. t.contributions[g] \in Entry
      BY <2>1, <3>1 DEF Journey
    <3>3. r \in RunShape
      BY <3>1, <3>2 DEF RunShape, PCs, Visiting, Entry
    <3>4. t.status \in {"arrived", "cancelled"}
      BY <2>1 DEF Found, Journey
    <3>5. t.contributions[g].points = allocation[g]
      BY <3>1, <3>4 DEF Found, OpenEntries
    <3>6. RunAmount(r)' /\ RunKnows(r)'
      BY <3>1, <3>5 DEF RunAmount, RunKnows
    <3>7. Found(trip)'
      BY <1>3, <2>2
    <3> QED BY <2>2, <3>3, <3>6, <3>7
  <2>3. CASE trip' = completed(t) /\ runs' = [runs EXCEPT ![p] = Idle]
    <3>1. Found(trip)'
      <4>1. /\ completed(t) \in Journey
            /\ completed(t).status = t.status
            /\ completed(t).contributions = t.contributions
            /\ completed(t).reward = t.reward \/ Unsettled(t) = {}
        BY <2>1, CompletedFields
      <4>2. OpenEntries(trip)' /\ Entries(trip)'
        BY <1>3, <2>3, <4>1 DEF Found, OpenEntries, Entries, done
      <4>3. Completed(trip)'
        BY <1>3, <2>3, <4>1 DEF Found, Completed, Unsettled
      <4> QED BY <2>3, <4>1, <4>2, <4>3 DEF Found
    <3> QED BY <1>1, <1>2, <2>3, <3>1
  <2> QED BY <1>5, <2>2, <2>3 DEF Loop
<1> QED BY <1>4, <1>5

----------------------------------------------------------------------------
(* When one run moves, the other keeps what it holds and knows.            *)
LEMMA OneRunMoves ==
  ASSUME NEW p \in Runs, NEW r \in RunShape,
         runs \in [Runs -> RunShape], runs' = [runs EXCEPT ![p] = r],
         allocation' = allocation, barred \subseteq barred',
         \A g \in Guardians: done(g) => done(g)',
         \A q \in Runs: RunAmount(runs[q]) /\ RunKnows(runs[q]),
         RunAmount(r)', RunKnows(r)'
  PROVE  /\ runs' \in [Runs -> RunShape]
         /\ \A q \in Runs: RunAmount(runs[q])' /\ RunKnows(runs[q])'
<1>1. ASSUME NEW q \in Runs
      PROVE  RunAmount(runs[q])' /\ RunKnows(runs[q])'
  <2>1. CASE q = p
    BY <2>1
  <2>2. CASE q # p
    BY <2>2 DEF RunAmount, RunKnows, Visiting
  <2> QED BY <2>1, <2>2
<1> QED BY <1>1

(* Moving a settlement along, with no change to accounts or rulings.       *)
LEMMA SettlementMoves ==
  ASSUME IInv, NEW p \in Runs, NEW r \in RunShape,
         runs' = [runs EXCEPT ![p] = r], RunAmount(r)', RunKnows(r)',
         Found(trip)',
         UNCHANGED <<allocation, accounts, governance, barred>>,
         orphans' \subseteq CreditShape,
         \A c \in orphans': c.amount = allocation[c.guardian]
  PROVE  IInv'
<1>1. /\ runs' \in [Runs -> RunShape]
      /\ \A q \in Runs: RunAmount(runs[q])' /\ RunKnows(runs[q])'
  <2>1. \A g \in Guardians: done(g) => done(g)'
    BY DEF done
  <2> QED BY <2>1, OneRunMoves DEF IInv, Shape, Amounts, Known
<1>2. Shape'
  BY <1>1 DEF IInv, Shape, Found
<1>3. Quiet'
  BY DEF Quiet, Found
<1>4. Amounts'
  BY <1>1 DEF Amounts, Found
<1>5. Known' /\ Completed(trip)'
  BY <1>1 DEF Known, Found
<1>6. PurgedInactive' /\ Ruled' /\ CreditedOnce'
  BY DEF IInv, PurgedInactive, Ruled, CreditedOnce
<1> QED BY <1>2, <1>3, <1>4, <1>5, <1>6 DEF IInv

(* While a settlement runs the journey is closed, and covered as Loop asks.*)
LEMMA RunningFound ==
  ASSUME IInv, NEW p \in Runs, runs[p].pc # "idle"
  PROVE  Found(trip)
BY DEF IInv, Quiet, Found, Shape, Amounts, Known

(* Initially.                                                              *)
LEMMA InitInv == Init => IInv
<1> SUFFICES ASSUME Init PROVE IInv
  OBVIOUS
<1>1. PICK checked \in SUBSET Guardians:
        trip = [status |-> "active", reward |-> "pending",
                contributions |-> [g \in Guardians |->
                  [checkedIn |-> g \in checked, rewardStatus |-> "pending", points |-> 0]]]
  BY DEF Init
<1>2. trip \in Journey
  BY <1>1 DEF Journey, Entry
<1>3. \A p \in Runs: runs[p] = Idle
  BY DEF Init
<1>4. Idle \in RunShape
  BY DEF Idle, RunShape, PCs
<1>5. Shape
  BY <1>2, <1>4 DEF Init, Shape, Account
<1>6. Quiet
  BY <1>3 DEF Quiet, Init, Idle
<1>7. Amounts /\ Known /\ Completed(trip)
  BY <1>1, <1>3 DEF Init, Amounts, OpenEntries, RunAmount, Visiting, Known, Entries, RunKnows,
                    Completed, Idle
<1>8. PurgedInactive /\ Ruled /\ CreditedOnce
  BY DEF Init, PurgedInactive, Ruled, CreditedOnce
<1> QED BY <1>5, <1>6, <1>7, <1>8 DEF IInv

----------------------------------------------------------------------------
(* The journey and its settlements.                                        *)

LEMMA CloseInv == ASSUME IInv, NEW outcome \in {"arrived", "cancelled"}, Close(outcome) PROVE IInv'
<1> DEFINE t == allocateContributions(trip, outcome)
           rewarded == IF outcome = "arrived" THEN eligible(trip) ELSE {}
<1>1. /\ trip \in Journey /\ trip.status = "active"
      /\ trip' = t
      /\ allocation' = [g \in Guardians |-> t.contributions[g].points]
      /\ runs' = [runs EXCEPT !["act"].pc = IF outcome = "arrived" THEN "called" ELSE "idle"]
      /\ UNCHANGED <<accounts, governance, orphans, barred>>
  BY DEF Close, People, IInv, Shape
<1>2. rewarded \in SUBSET Guardians
  BY DEF eligible
<1>3. \A g \in rewarded: share(g, rewarded) \in Nat
  BY <1>2, ShareNat
<1>4. t = [status |-> outcome,
           reward |-> IF rewarded # {} THEN "pending" ELSE "ineligible",
           contributions |-> [g \in Guardians |->
             [checkedIn |-> trip.contributions[g].checkedIn,
              rewardStatus |-> IF g \in rewarded THEN "pending" ELSE "ineligible",
              points |-> IF g \in rewarded THEN share(g, rewarded) ELSE 0]]]
  BY DEF allocateContributions
<1> HIDE DEF t
<1>5. \A g \in Guardians: trip.contributions[g].checkedIn \in BOOLEAN
  BY <1>1 DEF Journey, Entry
<1>6. t \in Journey
  BY <1>3, <1>4, <1>5 DEF Journey, Entry
<1>7. \A p \in Runs: /\ runs[p].pc = "idle"
                     /\ runs'[p].pc \in {"idle", "called"}
                     /\ runs'[p] \in RunShape
  <2>1. \A p \in Runs: runs[p] \in RunShape /\ runs[p].pc = "idle"
    BY <1>1 DEF IInv, Shape, Quiet
  <2>2. runs \in [Runs -> RunShape]
    BY DEF IInv, Shape
  <2> QED BY <1>1, <2>1, <2>2 DEF RunShape, PCs, Runs
<1>8. orphans = {} /\ \A g \in Guardians: ~accounts[g].credited
  BY <1>1 DEF IInv, Quiet
<1>9. \A g \in Guardians: t.contributions[g].points \in Nat
  BY <1>6 DEF Journey, Entry
<1>10. runs' \in [Runs -> RunShape]
  BY <1>1, <1>7 DEF IInv, Shape
<1>11. Shape'
  BY <1>1, <1>6, <1>9, <1>10 DEF IInv, Shape
<1>12. Quiet'
  BY <1>1, <1>4 DEF Quiet
<1>13. Amounts'
  BY <1>1, <1>7, <1>8 DEF Amounts, OpenEntries, RunAmount, Visiting
<1>14. Entries(trip)'
  <2>1. ASSUME NEW g \in Guardians, outcome = "arrived", t.contributions[g].checkedIn
        PROVE  t.contributions[g].rewardStatus = "pending"
    BY <1>4, <2>1 DEF eligible
  <2>2. \A g \in Guardians: t.contributions[g].rewardStatus \in {"pending", "ineligible"}
    BY <1>4
  <2> QED BY <1>1, <1>4, <2>1, <2>2 DEF Entries
<1>15. Known'
  BY <1>7, <1>14 DEF Known, RunKnows
<1>16. Completed(trip)'
  BY <1>1, <1>4 DEF Completed
<1>17. PurgedInactive' /\ Ruled' /\ CreditedOnce'
  BY <1>1, <1>8 DEF IInv, PurgedInactive, Ruled, CreditedOnce
<1> QED BY <1>11, <1>12, <1>13, <1>15, <1>16, <1>17 DEF IInv

LEMMA AlarmFiresInv == ASSUME IInv, AlarmFires PROVE IInv'
<1>1. "alarm" \in Runs /\ runs["alarm"] \in RunShape
  BY DEF Runs, IInv, Shape
<1>2. PICK r: r = [runs["alarm"] EXCEPT !.pc = "called"]
  OBVIOUS
<1>3. /\ runs' = [runs EXCEPT !["alarm"] = r]
      /\ UNCHANGED <<trip, allocation, accounts, governance, orphans, barred>>
  BY <1>2 DEF AlarmFires, People
<1>4. r \in RunShape /\ r.pc = "called"
  BY <1>1, <1>2 DEF RunShape, PCs
<1>5. RunAmount(r)' /\ RunKnows(r)'
  BY <1>4 DEF RunAmount, RunKnows, Visiting
<1>6. trip \in Journey /\ trip.status # "active"
  BY DEF AlarmFires, settlementDue, settling, IInv, Shape
<1>7. Found(trip)'
  BY <1>3, <1>6 DEF IInv, Amounts, Known, Found, OpenEntries, Entries, Completed, done
<1>8. orphans' \subseteq CreditShape /\ \A c \in orphans': c.amount = allocation[c.guardian]
  BY <1>3 DEF IInv, Shape, Amounts
<1> QED BY <1>1, <1>3, <1>4, <1>5, <1>7, <1>8, SettlementMoves

(* The loop, entered with a journey that is covered, keeps the invariant.  *)
LEMMA LoopInv ==
  ASSUME IInv, NEW p \in Runs, NEW t, NEW ids \in SUBSET Guardians,
         Found(t), Loop(p, t, ids), UNCHANGED <<allocation, People>>
  PROVE  IInv'
<1>1. /\ Found(trip)'
      /\ \E r \in RunShape: /\ runs' = [runs EXCEPT ![p] = r]
                            /\ RunAmount(r)' /\ RunKnows(r)'
  BY LoopKeeps DEF IInv, Shape, People
<1>2. PICK r \in RunShape: runs' = [runs EXCEPT ![p] = r] /\ RunAmount(r)' /\ RunKnows(r)'
  BY <1>1
<1>3. orphans' \subseteq CreditShape /\ \A c \in orphans': c.amount = allocation[c.guardian]
  BY DEF IInv, Shape, Amounts, People
<1> QED BY <1>1, <1>2, <1>3, SettlementMoves DEF People

LEMMA SettleInv == ASSUME IInv, NEW p \in Runs, Settle(p) PROVE IInv'
<1>1. Found(trip)
  BY RunningFound DEF Settle
<1>2. CASE settling(trip)
  <2>1. Unsettled(trip) \cap eligible(trip) \in SUBSET Guardians
    BY DEF Unsettled
  <2>2. Loop(p, trip, Unsettled(trip) \cap eligible(trip)) /\ UNCHANGED <<allocation, People>>
    BY <1>2 DEF Settle
  <2> QED BY <1>1, <2>1, <2>2, LoopInv
<1>3. CASE ~settling(trip)
  <2>1. /\ runs' = [runs EXCEPT ![p] = Idle]
        /\ UNCHANGED <<trip, allocation, accounts, governance, orphans, barred>>
    BY <1>3 DEF Settle, People
  <2>2. Idle \in RunShape /\ RunAmount(Idle)' /\ RunKnows(Idle)'
    BY DEF Idle, RunShape, PCs, RunAmount, RunKnows, Visiting
  <2>3. Found(trip)'
    BY <1>1, <2>1 DEF Found, OpenEntries, Entries, Completed, done
  <2>4. orphans' \subseteq CreditShape /\ \A c \in orphans': c.amount = allocation[c.guardian]
    BY <2>1 DEF IInv, Shape, Amounts
  <2> QED BY <2>1, <2>2, <2>3, <2>4, SettlementMoves
<1> QED BY <1>2, <1>3

LEMMA AnswerStatusInv == ASSUME IInv, NEW p \in Runs, AnswerStatus(p) PROVE IInv'
<1> DEFINE status == governance[runs[p].guardian]
<1>1. runs[p] \in RunShape /\ runs[p].pc = "asking"
  BY DEF IInv, Shape, AnswerStatus
<1>2. runs[p].guardian \in Guardians /\ runs[p].amount = allocation[runs[p].guardian]
  BY <1>1 DEF IInv, Amounts, RunAmount, Visiting
<1>3. PICK r: r = [[runs[p] EXCEPT !.pc = "answered"]
                   EXCEPT !.restricted = status.suspended \/ status.deleted]
  OBVIOUS
<1>4. /\ r \in RunShape /\ r.pc = "answered"
      /\ r.guardian = runs[p].guardian /\ r.amount = runs[p].amount
      /\ r.restricted <=> status.suspended \/ status.deleted
  BY <1>1, <1>2, <1>3 DEF RunShape, PCs, Visiting, IInv, Shape
<1>5. /\ runs' = [runs EXCEPT ![p] = r]
      /\ UNCHANGED <<trip, allocation, accounts, governance, orphans, barred>>
  <2>1. runs' = [[runs EXCEPT ![p] = [runs[p] EXCEPT !.pc = "answered"]]
                 EXCEPT ![p] = [[runs[p] EXCEPT !.pc = "answered"]
                                EXCEPT !.restricted = status.suspended \/ status.deleted]]
    BY DEF AnswerStatus, IInv, Shape
  <2>2. runs \in [Runs -> RunShape]
    BY DEF IInv, Shape
  <2> HIDE DEF status
  <2>3. runs' = [runs EXCEPT ![p] = r]
    BY <1>3, <2>1, <2>2
  <2> QED BY <2>3 DEF AnswerStatus, People
<1>6. RunAmount(r)' /\ RunKnows(r)'
  <2>1. status.suspended \/ status.deleted => runs[p].guardian \in barred
    BY <1>2 DEF IInv, Ruled
  <2> QED BY <1>2, <1>4, <1>5, <2>1 DEF RunAmount, RunKnows
<1>7. Found(trip)'
  BY <1>1, <1>5, RunningFound DEF Found, OpenEntries, Entries, Completed, done
<1>8. orphans' \subseteq CreditShape /\ \A c \in orphans': c.amount = allocation[c.guardian]
  BY <1>5 DEF IInv, Shape, Amounts
<1> QED BY <1>4, <1>5, <1>6, <1>7, <1>8, SettlementMoves

LEMMA RefuseInv == ASSUME IInv, NEW p \in Runs, Refuse(p) PROVE IInv'
<1> DEFINE g == runs[p].guardian
<1>1. runs[p] \in RunShape /\ runs[p].pc = "answered" /\ runs[p].restricted
  BY DEF IInv, Shape, Refuse
<1>2. g \in Guardians /\ g \in barred
  BY <1>1 DEF IInv, Amounts, RunAmount, Visiting, Known, RunKnows
<1>3. Found(trip)
  BY <1>1, RunningFound
<1>4. ASSUME trip # Erased
      PROVE  Found(refused(trip, g))
  <2>1. trip \in Journey
    BY <1>3, <1>4 DEF Found
  <2>2. /\ refused(trip, g) \in Journey
        /\ refused(trip, g).status = trip.status
        /\ refused(trip, g).reward = trip.reward
        /\ refused(trip, g).contributions[g].rewardStatus = "ineligible"
        /\ \A h \in Guardians \ {g}: refused(trip, g).contributions[h] = trip.contributions[h]
    BY <1>2, <2>1, RefusedFields
  <2> HIDE DEF g
  <2> QED BY <1>2, <1>3, <2>2 DEF Found, OpenEntries, Entries, Completed
<1>5. PICK t: t = IF trip = Erased THEN trip ELSE refused(trip, g)
  OBVIOUS
<1>6. Found(t)
  BY <1>3, <1>4, <1>5
<1>7. Loop(p, t, runs[p].ids) /\ UNCHANGED <<allocation, People>>
  BY <1>5 DEF Refuse
<1>8. runs[p].ids \in SUBSET Guardians
  BY <1>1 DEF RunShape
<1> QED BY <1>6, <1>7, <1>8, LoopInv

LEMMA RecordInv == ASSUME IInv, NEW p \in Runs, Record(p) PROVE IInv'
<1> DEFINE g == runs[p].guardian
<1>1. runs[p] \in RunShape /\ runs[p].pc = "returned"
  BY DEF IInv, Shape, Record
<1>2. g \in Guardians /\ done(g)
  BY <1>1 DEF IInv, Amounts, RunAmount, Visiting, Known, RunKnows
<1>3. Found(trip)
  BY <1>1, RunningFound
<1>4. ASSUME trip # Erased
      PROVE  Found(recorded(trip, g))
  <2>1. trip \in Journey
    BY <1>3, <1>4 DEF Found
  <2>2. /\ recorded(trip, g) \in Journey
        /\ recorded(trip, g).status = trip.status
        /\ recorded(trip, g).reward = trip.reward
        /\ recorded(trip, g).contributions[g].checkedIn = trip.contributions[g].checkedIn
        /\ recorded(trip, g).contributions[g].rewardStatus =
             IF trip.contributions[g].rewardStatus = "pending" THEN "credited"
             ELSE trip.contributions[g].rewardStatus
        /\ \A h \in Guardians \ {g}: recorded(trip, g).contributions[h] = trip.contributions[h]
    BY <1>2, <2>1, RecordedFields
  <2> HIDE DEF g
  <2> QED BY <1>2, <1>3, <2>2 DEF Found, OpenEntries, Entries, Completed
<1>5. PICK t: t = IF trip = Erased THEN trip ELSE recorded(trip, g)
  OBVIOUS
<1>6. Found(t)
  BY <1>3, <1>4, <1>5
<1>7. Loop(p, t, runs[p].ids) /\ UNCHANGED <<allocation, People>>
  BY <1>5 DEF Record
<1>8. runs[p].ids \in SUBSET Guardians
  BY <1>1 DEF RunShape
<1> QED BY <1>6, <1>7, <1>8, LoopInv

LEMMA CallCreditInv == ASSUME IInv, NEW p \in Runs, CallCredit(p) PROVE IInv'
<1>1. runs[p] \in RunShape /\ runs[p].pc = "answered"
  BY DEF IInv, Shape, CallCredit
<1>2. RunAmount(runs[p])
  BY DEF IInv, Amounts
<1>3. PICK r: r = [runs[p] EXCEPT !.pc = "crediting"]
  OBVIOUS
<1>4. /\ runs' = [runs EXCEPT ![p] = r]
      /\ UNCHANGED <<trip, allocation, accounts, governance, orphans, barred>>
  BY <1>3 DEF CallCredit, People
<1>5. /\ r \in RunShape /\ r.pc = "crediting"
      /\ r.guardian = runs[p].guardian /\ r.amount = runs[p].amount
  BY <1>1, <1>3 DEF RunShape, PCs, Visiting
<1>6. RunAmount(r)' /\ RunKnows(r)'
  BY <1>1, <1>2, <1>4, <1>5 DEF RunAmount, RunKnows, Visiting
<1>7. Found(trip)'
  BY <1>1, <1>4, RunningFound DEF Found, OpenEntries, Entries, Completed, done
<1>8. orphans' \subseteq CreditShape /\ \A c \in orphans': c.amount = allocation[c.guardian]
  BY <1>4 DEF IInv, Shape, Amounts
<1> QED BY <1>4, <1>5, <1>6, <1>7, <1>8, SettlementMoves

LEMMA FailInv == ASSUME IInv, NEW p \in Runs, Fail(p) PROVE IInv'
<1>1. runs[p] \in RunShape /\ runs[p].pc # "idle" /\ RunAmount(runs[p])
  BY DEF IInv, Shape, Fail, Amounts
<1>2. /\ runs' = [runs EXCEPT ![p] = Idle]
      /\ UNCHANGED <<trip, allocation, accounts, governance, barred>>
  BY DEF Fail
<1>3. Idle \in RunShape /\ RunAmount(Idle)' /\ RunKnows(Idle)'
  BY DEF Idle, RunShape, PCs, RunAmount, RunKnows, Visiting
<1>4. Found(trip)'
  BY <1>1, <1>2, RunningFound DEF Found, OpenEntries, Entries, Completed, done
<1>5. orphans \subseteq CreditShape /\ \A c \in orphans: c.amount = allocation[c.guardian]
  BY DEF IInv, Shape, Amounts
<1>6. ASSUME runs[p].pc = "crediting"
      PROVE  /\ [guardian |-> runs[p].guardian, amount |-> runs[p].amount] \in CreditShape
             /\ runs[p].amount = allocation[runs[p].guardian]
  BY <1>1, <1>6 DEF RunAmount, Visiting, RunShape, CreditShape
<1>7. orphans' \subseteq CreditShape /\ \A c \in orphans': c.amount = allocation[c.guardian]
  BY <1>5, <1>6 DEF Fail
<1> QED BY <1>2, <1>3, <1>4, <1>7, SettlementMoves

LEMMA EraseForRiderInv == ASSUME IInv, EraseForRider PROVE IInv'
<1>1. trip' = Erased /\ UNCHANGED <<allocation, runs, accounts, governance, orphans, barred>>
  BY DEF EraseForRider, People
<1>2. Shape' /\ Quiet'
  BY <1>1 DEF IInv, Shape, Quiet, Erased
<1>3. Amounts' /\ Completed(trip)'
  BY <1>1 DEF IInv, Amounts, OpenEntries, Erased, Completed, RunAmount
<1>4. Known'
  BY <1>1 DEF IInv, Known, Entries, Erased, RunKnows, done
<1>5. PurgedInactive' /\ Ruled' /\ CreditedOnce'
  BY <1>1 DEF IInv, PurgedInactive, Ruled, CreditedOnce
<1> QED BY <1>2, <1>3, <1>4, <1>5 DEF IInv

----------------------------------------------------------------------------
(* The accounts.                                                           *)

(* A credit pays an active account that has none, and no other.            *)
LEMMA CreditFields ==
  ASSUME NEW acc \in Account, NEW amount \in Nat
  PROVE  /\ credit(acc, amount) \in Account
         /\ credit(acc, amount).active = acc.active
         /\ credit(acc, amount).purged = acc.purged
         /\ IF acc.active /\ ~acc.credited
            THEN /\ credit(acc, amount).credited
                 /\ credit(acc, amount).points = acc.points + amount
            ELSE credit(acc, amount) = acc
<1>1. acc.points + amount \in Nat
  BY DEF Account
<1>2. CASE acc.active /\ ~acc.credited
  BY <1>1, <1>2 DEF credit, Account
<1>3. CASE ~(acc.active /\ ~acc.credited)
  BY <1>3 DEF credit
<1> QED BY <1>2, <1>3

(* A credit of the share, now or late, keeps what accounts promise, and    *)
(* leaves the guardian credited or known to be deleted.                    *)
LEMMA CreditAccount ==
  ASSUME IInv, NEW g \in Guardians, NEW amount, amount = allocation[g],
         accounts' = [accounts EXCEPT ![g] = credit(@, amount)],
         UNCHANGED <<trip, allocation, governance, barred>>
  PROVE  /\ accounts' \in [Guardians -> Account]
         /\ PurgedInactive' /\ Ruled' /\ CreditedOnce'
         /\ done(g)' /\ \A h \in Guardians: done(h) => done(h)'
         /\ \A h \in Guardians \ {g}: accounts'[h] = accounts[h]
<1>1. PICK a: a = credit(accounts[g], amount)
  OBVIOUS
<1>2. /\ accounts \in [Guardians -> Account] /\ accounts[g] \in Account
      /\ allocation[g] \in Nat
  BY DEF IInv, Shape
<1>3. accounts' = [accounts EXCEPT ![g] = a]
  BY <1>1
<1>4. /\ a \in Account
      /\ a.active = accounts[g].active /\ a.purged = accounts[g].purged
      /\ IF accounts[g].active /\ ~accounts[g].credited
         THEN a.credited /\ a.points = accounts[g].points + allocation[g]
         ELSE a = accounts[g]
  BY <1>1, <1>2, CreditFields
<1>5. accounts' \in [Guardians -> Account]
  BY <1>2, <1>3, <1>4
<1>6. PurgedInactive' /\ Ruled'
  BY <1>2, <1>3, <1>4 DEF IInv, PurgedInactive, Ruled
<1>7. a.points = IF a.credited /\ ~a.purged THEN allocation[g] ELSE 0
  <2>1. /\ accounts[g].points =
             IF accounts[g].credited /\ ~accounts[g].purged THEN allocation[g] ELSE 0
        /\ accounts[g].purged => ~accounts[g].active
    BY DEF IInv, CreditedOnce, PurgedInactive
  <2> QED BY <1>2, <1>4, <2>1
<1>8. CreditedOnce'
  BY <1>2, <1>3, <1>7 DEF IInv, CreditedOnce
<1>9. done(g)'
  BY <1>2, <1>3, <1>4 DEF IInv, Ruled, done
<1>10. \A h \in Guardians \ {g}: accounts'[h] = accounts[h]
  BY <1>2, <1>3
<1>11. ASSUME NEW h \in Guardians, done(h) PROVE done(h)'
  <2>1. CASE h = g
    BY <1>9, <2>1
  <2>2. CASE h # g
    BY <1>2, <1>3, <1>11, <2>2 DEF done
  <2> QED BY <2>1, <2>2
<1> QED BY <1>5, <1>6, <1>8, <1>9, <1>10, <1>11

LEMMA AnswerCreditInv == ASSUME IInv, NEW p \in Runs, AnswerCredit(p) PROVE IInv'
<1>1. runs[p] \in RunShape /\ runs[p].pc = "crediting"
  BY DEF IInv, Shape, AnswerCredit
<1>2. /\ runs[p].guardian \in Guardians
      /\ runs[p].amount = allocation[runs[p].guardian]
  BY <1>1 DEF IInv, Amounts, RunAmount, Visiting
<1>3. PICK r: r = [runs[p] EXCEPT !.pc = "returned"]
  OBVIOUS
<1>4. r \in RunShape /\ r.pc = "returned" /\ r.guardian = runs[p].guardian /\ r.amount = runs[p].amount
  BY <1>1, <1>3 DEF RunShape, PCs, Visiting
<1>5. PICK g \in Guardians: g = r.guardian
  BY <1>2, <1>4
<1>6. PICK amount: amount = r.amount
  OBVIOUS
<1>7. /\ runs' = [runs EXCEPT ![p] = r]
      /\ accounts' = [accounts EXCEPT ![g] = credit(@, amount)]
      /\ UNCHANGED <<trip, allocation, governance, orphans, barred>>
  BY <1>3, <1>4, <1>5, <1>6 DEF AnswerCredit
<1>8. amount = allocation[g]
  BY <1>2, <1>4, <1>5, <1>6
<1>9. /\ accounts' \in [Guardians -> Account]
      /\ PurgedInactive' /\ Ruled' /\ CreditedOnce'
      /\ done(g)' /\ \A h \in Guardians: done(h) => done(h)'
  BY <1>7, <1>8, CreditAccount
<1>10. RunAmount(r)' /\ RunKnows(r)'
  BY <1>4, <1>5, <1>6, <1>7, <1>8, <1>9 DEF RunAmount, RunKnows
<1>11. /\ runs' \in [Runs -> RunShape]
       /\ \A q \in Runs: RunAmount(runs[q])' /\ RunKnows(runs[q])'
  BY <1>4, <1>7, <1>9, <1>10, OneRunMoves DEF IInv, Shape, Amounts, Known
<1>12. Shape'
  BY <1>7, <1>9, <1>11 DEF IInv, Shape
<1>13. Found(trip)
  BY <1>1, RunningFound
<1>14. Quiet' /\ Amounts'
  BY <1>7, <1>11, <1>13 DEF IInv, Amounts, Found, Quiet, OpenEntries
<1>15. Known' /\ Completed(trip)'
  BY <1>7, <1>9, <1>11, <1>13 DEF Known, Found, Entries, Completed
<1> QED BY <1>9, <1>12, <1>14, <1>15 DEF IInv

(* A step of the accounts and the rulings alone, after which whoever was   *)
(* settled still is.                                                       *)
LEMMA PeopleMove ==
  ASSUME IInv, UNCHANGED <<trip, allocation, runs>>,
         accounts' \in [Guardians -> Account],
         governance' \in [Guardians -> [suspended: BOOLEAN, deleted: BOOLEAN]],
         barred \subseteq barred', barred' \subseteq Guardians,
         orphans' \subseteq orphans,
         trip.status = "active" => \A g \in Guardians: ~accounts'[g].credited,
         \A g \in Guardians: done(g) => done(g)',
         PurgedInactive', Ruled', CreditedOnce'
  PROVE  IInv'
<1>1. Shape' /\ Quiet'
  BY DEF IInv, Shape, Quiet
<1>2. Amounts' /\ Completed(trip)'
  BY DEF IInv, Amounts, OpenEntries, RunAmount, Completed
<1>3. Known'
  BY DEF IInv, Known, Entries, RunKnows, Amounts, RunAmount, Visiting
<1> QED BY <1>1, <1>2, <1>3 DEF IInv

LEMMA LateCreditInv == ASSUME IInv, NEW c \in orphans, LateCredit(c) PROVE IInv'
<1>1. c \in CreditShape /\ c.amount = allocation[c.guardian]
  BY DEF IInv, Shape, Amounts
<1>2. PICK g \in Guardians: g = c.guardian
  BY <1>1 DEF CreditShape
<1>3. PICK amount: amount = c.amount
  OBVIOUS
<1>4. /\ accounts' = [accounts EXCEPT ![g] = credit(@, amount)] /\ amount = allocation[g]
      /\ UNCHANGED <<trip, allocation, governance, runs, barred>>
      /\ orphans' \subseteq orphans
  BY <1>1, <1>2, <1>3 DEF LateCredit
<1>5. /\ accounts' \in [Guardians -> Account]
      /\ PurgedInactive' /\ Ruled' /\ CreditedOnce'
      /\ \A h \in Guardians: done(h) => done(h)'
  BY <1>4, CreditAccount
<1>6. trip.status # "active"
  BY DEF IInv, Quiet
<1> QED BY <1>4, <1>5, <1>6, PeopleMove DEF IInv, Shape

LEMMA SetSuspendedInv ==
  ASSUME IInv, NEW g \in Guardians, NEW suspended \in BOOLEAN, SetSuspended(g, suspended)
  PROVE  IInv'
<1>1. /\ governance' = [governance EXCEPT ![g].suspended = suspended]
      /\ barred' = IF suspended THEN barred \cup {g} ELSE barred
      /\ UNCHANGED <<trip, allocation, accounts, runs, orphans>>
  BY DEF SetSuspended
<1>2. governance \in [Guardians -> [suspended: BOOLEAN, deleted: BOOLEAN]]
  BY DEF IInv, Shape
<1>3. governance' \in [Guardians -> [suspended: BOOLEAN, deleted: BOOLEAN]]
  BY <1>1, <1>2
<1>4. /\ \A h \in Guardians: governance'[h].deleted = governance[h].deleted
      /\ \A h \in Guardians \ {g}: governance'[h] = governance[h]
      /\ governance'[g].suspended = suspended
  BY <1>1, <1>2
<1>5. barred \subseteq barred' /\ barred' \subseteq Guardians /\ (suspended => g \in barred')
  BY <1>1 DEF IInv, Shape
<1>6. Ruled'
  BY <1>1, <1>4, <1>5 DEF IInv, Ruled
<1>7. PurgedInactive' /\ CreditedOnce' /\ \A h \in Guardians: done(h) => done(h)'
  BY <1>1, <1>5 DEF IInv, PurgedInactive, CreditedOnce, done
<1> QED BY <1>1, <1>3, <1>5, <1>6, <1>7, PeopleMove DEF IInv, Shape, Quiet

LEMMA BeginDeletionInv == ASSUME IInv, NEW g \in Guardians, BeginDeletion(g) PROVE IInv'
<1>1. /\ governance' = [governance EXCEPT ![g].deleted = TRUE]
      /\ barred' = barred \cup {g}
      /\ UNCHANGED <<trip, allocation, accounts, runs, orphans>>
  BY DEF BeginDeletion
<1>2. governance \in [Guardians -> [suspended: BOOLEAN, deleted: BOOLEAN]]
  BY DEF IInv, Shape
<1>3. governance' \in [Guardians -> [suspended: BOOLEAN, deleted: BOOLEAN]]
  BY <1>1, <1>2
<1>4. /\ governance'[g].deleted
      /\ \A h \in Guardians \ {g}: governance'[h] = governance[h]
  BY <1>1, <1>2
<1>5. barred \subseteq barred' /\ barred' \subseteq Guardians /\ g \in barred'
  BY <1>1 DEF IInv, Shape
<1>6. Ruled'
  BY <1>1, <1>4, <1>5 DEF IInv, Ruled
<1>7. PurgedInactive' /\ CreditedOnce' /\ \A h \in Guardians: done(h) => done(h)'
  BY <1>1, <1>5 DEF IInv, PurgedInactive, CreditedOnce, done
<1> QED BY <1>1, <1>3, <1>5, <1>6, <1>7, PeopleMove DEF IInv, Shape, Quiet

LEMMA DeactivateInv == ASSUME IInv, NEW g \in Guardians, Deactivate(g) PROVE IInv'
<1>1. /\ governance[g].deleted
      /\ accounts' = [accounts EXCEPT ![g].active = FALSE]
      /\ UNCHANGED <<trip, allocation, governance, runs, orphans, barred>>
  BY DEF Deactivate
<1>2. accounts \in [Guardians -> Account]
  BY DEF IInv, Shape
<1>3. accounts' \in [Guardians -> Account]
  BY <1>1, <1>2 DEF Account
<1>4. /\ \A h \in Guardians \ {g}: accounts'[h] = accounts[h]
      /\ \A h \in Guardians: /\ accounts'[h].credited = accounts[h].credited
                             /\ accounts'[h].purged = accounts[h].purged
                             /\ accounts'[h].points = accounts[h].points
      /\ ~accounts'[g].active
  BY <1>1, <1>2 DEF Account
<1>5. PurgedInactive' /\ Ruled' /\ CreditedOnce'
  BY <1>1, <1>4 DEF IInv, PurgedInactive, Ruled, CreditedOnce
<1>6. ASSUME NEW h \in Guardians, done(h) PROVE done(h)'
  BY <1>1, <1>4, <1>6 DEF done
<1> QED BY <1>1, <1>3, <1>4, <1>5, <1>6, PeopleMove DEF IInv, Shape, Quiet

LEMMA PurgePrivateInv == ASSUME IInv, NEW g \in Guardians, PurgePrivate(g) PROVE IInv'
<1>1. /\ ~accounts[g].active
      /\ accounts' = [accounts EXCEPT ![g].purged = TRUE, ![g].points = 0]
      /\ UNCHANGED <<trip, allocation, governance, runs, orphans, barred>>
  BY DEF PurgePrivate
<1>2. accounts \in [Guardians -> Account]
  BY DEF IInv, Shape
<1>3. accounts' \in [Guardians -> Account]
  BY <1>1, <1>2 DEF Account
<1>4. /\ \A h \in Guardians \ {g}: accounts'[h] = accounts[h]
      /\ \A h \in Guardians: /\ accounts'[h].credited = accounts[h].credited
                             /\ accounts'[h].active = accounts[h].active
      /\ accounts'[g].purged /\ accounts'[g].points = 0
  BY <1>1, <1>2 DEF Account
<1>5. PurgedInactive' /\ Ruled' /\ CreditedOnce'
  BY <1>1, <1>4 DEF IInv, PurgedInactive, Ruled, CreditedOnce
<1>6. ASSUME NEW h \in Guardians, done(h) PROVE done(h)'
  BY <1>1, <1>4, <1>6 DEF done
<1> QED BY <1>1, <1>3, <1>4, <1>5, <1>6, PeopleMove DEF IInv, Shape, Quiet

----------------------------------------------------------------------------
(* The theorems.                                                           *)

LEMMA NextInv == IInv /\ [Next]_vars => IInv'
<1> SUFFICES ASSUME IInv, [Next]_vars PROVE IInv'
  OBVIOUS
<1>1. ASSUME NEW outcome \in {"arrived", "cancelled"}, Close(outcome) PROVE IInv'
  BY <1>1, CloseInv
<1>2. CASE AlarmFires
  BY <1>2, AlarmFiresInv
<1>3. ASSUME NEW p \in Runs, Step(p) PROVE IInv'
  BY <1>3, SettleInv, AnswerStatusInv, RefuseInv, CallCreditInv, AnswerCreditInv, RecordInv DEF Step
<1>4. ASSUME NEW p \in Runs, Fail(p) PROVE IInv'
  BY <1>4, FailInv
<1>5. ASSUME NEW c \in orphans, LateCredit(c) PROVE IInv'
  BY <1>5, LateCreditInv
<1>6. ASSUME NEW g \in Guardians, NEW suspended \in BOOLEAN, SetSuspended(g, suspended) PROVE IInv'
  BY <1>6, SetSuspendedInv
<1>7. ASSUME NEW g \in Guardians, BeginDeletion(g) \/ Deactivate(g) \/ PurgePrivate(g) PROVE IInv'
  BY <1>7, BeginDeletionInv, DeactivateInv, PurgePrivateInv
<1>8. CASE EraseForRider
  BY <1>8, EraseForRiderInv
<1>9. CASE UNCHANGED vars
  <2>1. Shape' /\ Quiet' /\ Amounts'
    BY <1>9 DEF vars, IInv, Shape, Quiet, Amounts, OpenEntries, RunAmount
  <2>2. PurgedInactive' /\ Ruled' /\ CreditedOnce'
    BY <1>9 DEF vars, IInv, PurgedInactive, Ruled, CreditedOnce
  <2>3. Known' /\ Completed(trip)'
    BY <1>9 DEF vars, IInv, Known, Entries, RunKnows, done, Completed
  <2> QED BY <2>1, <2>2, <2>3 DEF IInv
<1> QED BY <1>1, <1>2, <1>3, <1>4, <1>5, <1>6, <1>7, <1>8, <1>9 DEF Next

(* IInv is an invariant of the program.                                    *)
LEMMA Invariant == Spec => []IInv
BY InitInv, NextInv, PTL DEF Spec

(* settleReward and UserAccount.credit together never credit a share       *)
(* twice, nor another amount than allocateContributions fixed, however     *)
(* calls fail, are repeated or outlive their caller.                       *)
THEOREM CreditSafety == Spec => []CreditedOnce
<1>1. IInv => CreditedOnce
  BY DEF IInv
<1> QED BY <1>1, Invariant, PTL

(* A pool that settleReward marks as credited has reached every guardian   *)
(* who checked in, those suspended or deleted at some time excepted.       *)
THEOREM SettlementSafety == Spec => []NobodyForgotten
<1>1. IInv => NobodyForgotten
  <2> SUFFICES ASSUME IInv, trip # Erased, trip.status = "arrived", trip.reward = "credited",
                      NEW g \in eligible(trip)
               PROVE  done(g)
    BY DEF NobodyForgotten, done
  <2>1. trip \in Journey /\ g \in Guardians /\ trip.contributions[g].checkedIn
    BY DEF IInv, Shape, eligible
  <2>2. trip.contributions[g].rewardStatus \in {"credited", "ineligible"}
    BY <2>1 DEF IInv, Completed, Journey, Entry
  <2> QED BY <2>1, <2>2 DEF IInv, Known, Entries, done
<1> QED BY <1>1, Invariant, PTL

(* No call that was under way when an account was deleted adds points to   *)
(* it: credit refuses an inactive account, and nothing reactivates one.    *)
THEOREM DeletionSafety == Spec => DeletedEarnNothing
<1>1. IInv /\ [Next]_vars =>
        [\A g \in Guardians: ~accounts[g].active => accounts'[g].points <= accounts[g].points]_vars
  <2> SUFFICES ASSUME IInv, Next, NEW g \in Guardians, ~accounts[g].active
               PROVE  accounts'[g].points <= accounts[g].points
    OBVIOUS
  <2>1. /\ accounts \in [Guardians -> Account] /\ accounts[g] \in Account
        /\ accounts[g].points \in Nat
    BY DEF IInv, Shape, Account
  <2>2. ASSUME NEW h, NEW amount, accounts' = [accounts EXCEPT ![h] = credit(@, amount)]
        PROVE  accounts'[g] = accounts[g]
    BY <2>1, <2>2 DEF credit
  <2>3. ASSUME NEW p \in Runs, AnswerCredit(p)
        PROVE  accounts'[g] = accounts[g]
    <3>1. PICK h, amount: h = runs[p].guardian /\ amount = runs[p].amount
      OBVIOUS
    <3> QED BY <2>2, <2>3, <3>1 DEF AnswerCredit
  <2>4. ASSUME NEW c \in orphans, LateCredit(c)
        PROVE  accounts'[g] = accounts[g]
    <3>1. PICK h, amount: h = c.guardian /\ amount = c.amount
      OBVIOUS
    <3> QED BY <2>2, <2>4, <3>1 DEF LateCredit
  <2>5. ASSUME NEW h \in Guardians, Deactivate(h) \/ PurgePrivate(h)
        PROVE  accounts'[g].points <= accounts[g].points
    BY <2>1, <2>5 DEF Deactivate, PurgePrivate, Account
  <2>6. \/ accounts' = accounts
        \/ \E p \in Runs: AnswerCredit(p)
        \/ \E c \in orphans: LateCredit(c)
        \/ \E h \in Guardians: Deactivate(h) \/ PurgePrivate(h)
    BY DEF Next, Step, Close, AlarmFires, Settle, AnswerStatus, Refuse, CallCredit, Record, Fail,
           SetSuspended, BeginDeletion, EraseForRider, People
  <2> QED BY <2>1, <2>3, <2>4, <2>5, <2>6
<1> QED BY <1>1, Invariant, PTL DEF Spec, DeletedEarnNothing
=============================================================================
