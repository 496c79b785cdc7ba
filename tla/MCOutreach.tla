----------------------------- MODULE MCOutreach -----------------------------
(***************************************************************************)
(* Both outboxes of a journey for TLC: the contact's notifications while   *)
(* it is under way, the thanks for its guardian once it has ended.  They   *)
(* share no state but that end, which stops the one (Close) and starts the *)
(* other, so a behaviour shows one of them.                                *)
(***************************************************************************)
EXTENDS Naturals, FiniteSets

CONSTANTS Deliverers, MaxAttempts, MissedAllowed, MaxActs, MaxLapses, MaxRestarts,
          Kinds, Callers, MaxRequests
ASSUME OutreachAssumption ==
  /\ IsFiniteSet(Deliverers) /\ IsFiniteSet(Kinds) /\ IsFiniteSet(Callers)
  /\ {MaxAttempts, MissedAllowed, MaxActs, MaxLapses, MaxRestarts, MaxRequests} \subseteq Nat
VARIABLES underWay, room, send, reached, acts, lapses, restarts,
          journey, account, deleted, withdrawn, caller, requests, setbacks

Notices == INSTANCE Notifications WITH failures <- lapses, MaxFailures <- MaxLapses
noticeVars == <<room, send, reached, acts, lapses, restarts>>
Thanks == INSTANCE Gratitude WITH failures <- setbacks, MaxFailures <- MaxLapses
thanksVars == <<journey, account, deleted, withdrawn, caller, requests, setbacks>>

Outreach ==
  /\ underWay \in BOOLEAN /\ Notices!Init /\ Thanks!Init
  /\ [][/\ UNCHANGED underWay
        /\ \/ underWay /\ Notices!Next /\ UNCHANGED thanksVars
           \/ ~underWay /\ Thanks!Next /\ UNCHANGED noticeVars]_<<underWay, noticeVars, thanksVars>>
  /\ Notices!Fairness /\ Thanks!Fairness

(* Notifications!SentWithAuthority, Notifications!AcknowledgedStays and    *)
(* Notifications!EventuallyCarried, of the notifications.                  *)
SentWithAuthority == Notices!SentWithAuthority
AcknowledgedStays == Notices!AcknowledgedStays
EventuallyCarried == Notices!EventuallyCarried

(* Gratitude!OneBanner and Gratitude!EventuallyThanked, of the thanks.     *)
OneBanner == Thanks!OneBanner
EventuallyThanked == Thanks!EventuallyThanked
=============================================================================
