----------------------------- MODULE OperatorDesk -----------------------------
(***************************************************************************)
(* The operators' page (src/web/app/admin/page.tsx) over Moderation: an    *)
(* operator reads the open reports page by page, newest first, and rules   *)
(* on what is shown.                                                       *)
(*                                                                         *)
(* One call is under way at a time, which may lose its answer; meanwhile   *)
(* the operator can still change the credential or disconnect.  Reports    *)
(* are written, resolved and forgotten between two pages.                  *)
(***************************************************************************)
EXTENDS Moderation

CONSTANT PageSize   \* 50

ASSUME DeskAssumption == PageSize \in Nat \ {0}

VARIABLES
  given,        \* whether a credential is typed in; with a wrong one calls fail
  connected,
  displayed,    \* the rows on the page
  request,      \* what the page waits for
  pass          \* history: the reports there were when the first page was read, and those shown since

deskVars == <<given, connected, displayed, request, pass>>

Row == [id : ReportIds, created : Nat]
Top == [id |-> 0, created |-> -1]   \* the page begins with the newest

(* signed: with a credential; first: a ruling to be made before the list   *)
(* is read; rows, there: what was read, and (history) all that could have  *)
(* been read then.                                                         *)
NoRuling == [kind |-> "none"]
RulingOnReport == [kind : {"resolve"}, id : ReportIds, resolution : {"dismissed", "actioned"}]
RulingOnAccount == [kind : {"suspend"}, user : Users, suspended : BOOLEAN]
DeskRequest == [stage : {"ruling", "asked", "listed"}, signed : BOOLEAN, first : {NoRuling} \cup RulingOnReport \cup RulingOnAccount,
            before : Row \cup {Top}, rows : SUBSET Row, there : SUBSET ReportIds]
NoRequest == [stage |-> "none"]
Pass == [there : SUBSET ReportIds, seen : SUBSET ReportIds]

DeskInit ==
  /\ given = FALSE /\ connected = FALSE /\ displayed = {}
  /\ request = NoRequest
  /\ pass = [there |-> {}, seen |-> {}]

(* listReports: open and recent ones after the cursor, in the order of     *)
(* creation and, of those of one moment, of their identifiers.             *)
row(r) == [id |-> r.id, created |-> r.created]
Below(r, s) == r.created < s.created \/ (r.created = s.created /\ r.id < s.id)
listable == {row(r) : r \in {s \in reports : s.status = "open" /\ recent(s.created, Retention)}}
after(before) == IF before = Top THEN listable ELSE {r \in listable : Below(r, before)}
firstOf(S, n) == {r \in S : Cardinality({s \in S : Below(r, s)}) < n}
lastOf(S) == CHOOSE r \in S : \A s \in S \ {r} : Below(r, s)
\* Mutant: the limit is one less than the number by which the page knows a full one.
listFewer(before) == firstOf(after(before), PageSize - 1)
listReports(before) == firstOf(after(before), PageSize)
idsOf(S) == {r.id : r \in S}

----------------------------------------------------------------------------
waiting == request # NoRequest
Type(some) ==
  /\ given' = some /\ connected' = FALSE /\ displayed' = {}
  /\ UNCHANGED <<request, pass>>
Disconnect == connected /\ Type(FALSE)

sends(stage, first, before) ==
  request' = [stage |-> stage, signed |-> given, first |-> first, before |-> before, rows |-> {}, there |-> {}]
Refresh ==
  /\ ~waiting /\ given
  /\ sends("asked", NoRuling, Top)
  /\ UNCHANGED <<given, connected, displayed, pass>>
Older ==
  /\ ~waiting /\ connected /\ Cardinality(displayed) = PageSize
  /\ sends("asked", NoRuling, lastOf(displayed))
  /\ UNCHANGED <<given, connected, displayed, pass>>
Rule(first) ==
  /\ ~waiting /\ connected
  /\ first.kind = "resolve" => first.id \in idsOf(displayed)
  /\ sends("ruling", first, Top)
  /\ UNCHANGED <<given, connected, displayed, pass>>

(* The server rules, or refuses: another operator was there before.  Then  *)
(* the page reads the newest again.                                        *)
proceeds(stage) == request' = [request EXCEPT !.stage = stage]
reportOf(id) == {r \in reports : r.id = id}
RulesOnReport ==
  /\ request.stage = "ruling" /\ request.signed /\ request.first.kind = "resolve"
  /\ \E r \in reportOf(request.first.id) : ResolveReport(r, request.first.resolution)
  /\ proceeds("asked")
  /\ UNCHANGED <<given, connected, displayed, pass>>
RuledBefore ==
  /\ request.stage = "ruling" /\ request.signed /\ request.first.kind = "resolve"
  /\ \E r \in reportOf(request.first.id) : ResolvedBefore(r, request.first.resolution)
  /\ proceeds("asked")
  /\ UNCHANGED <<given, connected, displayed, pass>>
RulesOnAccount ==
  /\ request.stage = "ruling" /\ request.signed /\ request.first.kind = "suspend"
  /\ SetSuspended(request.first.user, request.first.suspended)
  /\ proceeds("asked")
  /\ UNCHANGED <<given, connected, displayed, pass>>

Lists ==
  /\ request.stage = "asked" /\ request.signed
  /\ request' = [request EXCEPT !.stage = "listed", !.rows = listReports(request.before), !.there = idsOf(listable)]
  /\ UNCHANGED <<given, connected, displayed, pass>>

(* The answer is shown, whoever is connected by now.                       *)
Shows ==
  /\ request.stage = "listed"
  /\ displayed' = request.rows /\ connected' = TRUE
  /\ pass' = IF request.before = Top THEN [there |-> request.there, seen |-> idsOf(request.rows)]
             ELSE [pass EXCEPT !.seen = @ \cup idsOf(request.rows)]
  /\ request' = NoRequest
  /\ UNCHANGED given
CallFails ==
  /\ waiting
  /\ request' = NoRequest
  /\ UNCHANGED <<given, connected, displayed, pass>>

AtThePage ==
  \/ \E some \in BOOLEAN : Type(some)
  \/ Disconnect \/ Refresh \/ Older
  \/ \E first \in RulingOnReport \cup RulingOnAccount : Rule(first)
  \/ Lists \/ Shows \/ CallFails
DeskNext ==
  \/ AtThePage /\ UNCHANGED moderationVars
  \/ RulesOnReport \/ RuledBefore \/ RulesOnAccount
  \/ ModerationNext /\ UNCHANGED deskVars
DeskSpec == ModerationInit /\ DeskInit /\ [][DeskNext]_<<moderationVars, deskVars>>

----------------------------------------------------------------------------
(* When a page is not full, the operator has been through all there was:   *)
(* every report that was open when the first page was read, and still is,  *)
(* has been on a page, whatever was written, resolved or forgotten between *)
(* two pages and although several may be of one moment (listReports, the   *)
(* buttons "Newest open reports" and "Older open reports").                *)
PagesMissNothing ==
  connected /\ Cardinality(displayed) < PageSize =>
    \A r \in listable : r.id \in pass.there => r.id \in pass.seen
=============================================================================
