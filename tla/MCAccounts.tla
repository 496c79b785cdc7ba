----------------------------- MODULE MCAccounts -----------------------------
(* For TLC: accounts and their registries; the page that signs in to them;  *)
(* the reports of their conduct; and the operators' page, which reads these *)
(* or rules on an account.  People, wallets and calls are alike in any.     *)
EXTENDS Accounts, JourneyPage, OperatorDesk

VARIABLE scene

Alike == Permutations(People) \cup Permutations(Wallets) \cup Permutations(Callers)

(* The operator reads while two reports are written, with one key, and      *)
(* until the first is forgotten.                                            *)
WhilePaging ==
  \/ \E s \in Requests, u \in Users, input \in ReportInput : Submit(s, u, 1, input)
  \/ \E s \in Requests : RoomAnswers(s) \/ Records(s)
  \/ \E j \in Trips, u \in Users : CreateTrip(j, u, FALSE) \/ ChangeGuardian(j, u)
  \/ \E r \in reports, resolution \in {"dismissed", "actioned"} : ResolveReport(r, resolution)
  \/ Alarm
  \/ clock < Retention /\ Tick
Pages ==
  /\ \/ AtThePage /\ UNCHANGED moderationVars
     \/ RulesOnReport \/ RuledBefore
     \/ WhilePaging /\ UNCHANGED deskVars
  /\ request' # NoRequest => request'.first.kind # "suspend"
  /\ issued' \subseteq {1, 2}
(* Keys are alike: a submission takes one that was used, or the next.       *)
NextKey == \A s \in Requests : submissions'[s] # NoSubmission => submissions'[s].key <= Cardinality(issued) + 1
Rulings ==
  \/ AtThePage /\ UNCHANGED moderationVars
  \/ RulesOnAccount
  \/ (Operating \/ Alarm \/ Tick) /\ UNCHANGED deskVars

Scenes == /\ scene \in {"server", "page", "submissions", "pages", "rulings"}
          /\ PageInit /\ Init /\ ModerationInit /\ DeskInit
MCNext == /\ UNCHANGED scene
          /\ \/ scene = "server" /\ Next /\ UNCHANGED <<pageVars, moderationVars, deskVars>>
             \/ scene = "page" /\ PageNext /\ UNCHANGED <<vars, moderationVars, deskVars>>
             \/ scene = "submissions" /\ (Reporting \/ Elsewhere) /\ NextKey /\ UNCHANGED <<vars, pageVars, deskVars>>
             \/ scene = "pages" /\ Pages /\ UNCHANGED <<vars, pageVars>>
             \/ scene = "rulings" /\ Rulings /\ UNCHANGED <<vars, pageVars>>
MCSpec == Scenes /\ [][MCNext]_<<vars, pageVars, moderationVars, deskVars, scene>>
=============================================================================
