------------------------------ MODULE Custody ------------------------------
(***************************************************************************)
(* What a private journey promises about who has access to it, free of     *)
(* clocks, alarms and relays: an abstraction of TripRoom in                *)
(* src/worker/src/trips.ts that Journey implements.                        *)
(*                                                                         *)
(* At most one guardian at a time; only a person who is a candidate at     *)
(* that moment can be made guardian, and doing so dismisses every other    *)
(* candidate; being made guardian is never implied by volunteering, by a   *)
(* missed check-in or by a new replacement request; and after closure no   *)
(* one new gains access.                                                   *)
(***************************************************************************)
CONSTANTS People, Nobody

VARIABLES phase, guardian, candidates

vars == <<phase, guardian, candidates>>

Running == phase \in {"open", "active"}

Init == /\ phase = "open"
        /\ guardian = Nobody
        /\ candidates = {}

Volunteer(g) ==
  /\ Running /\ g # guardian /\ g \notin candidates
  /\ candidates' = candidates \cup {g}
  /\ UNCHANGED <<phase, guardian>>

(* Withdrawal, refusal, expiry, or the end of a round of recruitment.      *)
Drop(remaining) ==
  /\ Running
  /\ remaining \subseteq candidates /\ candidates' = remaining
  /\ UNCHANGED <<phase, guardian>>

Assign(g) ==
  /\ Running /\ g \in candidates
  /\ phase' = "active" /\ guardian' = g /\ candidates' = {}

(* Monitoring begins with nobody assigned; who had applied must re-apply.  *)
BeginAlone ==
  /\ phase = "open"
  /\ phase' = "active" /\ guardian' = guardian /\ candidates' = {}

(* The guardian's account is gone.  The journey carries on; the remaining  *)
(* candidates may have to re-apply.                                        *)
Vacate(remaining) ==
  /\ phase \in {"active", "closed"} /\ guardian # Nobody
  /\ guardian' = Nobody /\ phase' = phase
  /\ remaining \subseteq candidates /\ candidates' = remaining

Close ==
  /\ Running
  /\ phase' = "closed" /\ guardian' = guardian /\ candidates' = {}

Erase ==
  /\ phase # "erased"
  /\ phase' = "erased" /\ guardian' = Nobody /\ candidates' = {}

Next == \/ \E g \in People: Volunteer(g) \/ Assign(g)
        \/ \E remaining \in SUBSET candidates: Drop(remaining) \/ Vacate(remaining)
        \/ BeginAlone \/ Close \/ Erase

Spec == Init /\ [][Next]_vars

=============================================================================
