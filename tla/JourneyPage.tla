----------------------------- MODULE JourneyPage -----------------------------
(***************************************************************************)
(* The page of the web client: the session of its tab, the answers it      *)
(* keeps and shows (TanStack Query), the polls that renew them, and the    *)
(* calls under way when a session ends and another one begins              *)
(* (src/web/app/page.tsx and the components it shows).                     *)
(*                                                                         *)
(* A call answers at its own time.  Its continuation then runs with the    *)
(* user and the journey of the render that made it, whatever the page      *)
(* shows by then.  Left out: keys the session does not decide about        *)
(* (config, the community's records), and calls that change nothing here   *)
(* (an export, a report).                                                  *)
(***************************************************************************)
EXTENDS Naturals, FiniteSets

CONSTANTS Members, Journeys,
          Calls,     \* calls that can be under way at once
          NoOne

ASSUME PageAssumption == NoOne \notin Members /\ NoOne \notin Journeys /\ IsFiniteSet(Members)

VARIABLES
  session,   \* who the tab is signed in as
  refused,   \* the last answer about the signed-in user was that the session is not accepted
  chosen,    \* the journey that was selected, if one was
  cache,     \* query key -> for whom its data was read, and whether a change overtook it
  polls,     \* the same of the reading under way
  calls      \* what each call waits for, and the part of the page that made it

pageVars == <<session, refused, chosen, cache, polls, calls>>
shown == <<session, refused, chosen, cache, polls>>

Page == "page"
Panel == "panel"
Card == "card"
AtRest == [by |-> NoOne, at |-> "idle", user |-> NoOne, journey |-> NoOne]
Empty == <<>>

\* Mutant: what is read is kept under the journey alone.
sharedKey(kind, user, journey) == <<kind, NoOne, journey>>

queryKey(kind, user, journey) == <<kind, user, journey>>
reading(user) == [for |-> user, overtaken |-> FALSE]

(* The user, the list, and whatever journey is selected: the chosen one,   *)
(* or that of the link, or the first of the list.  A commitment is shown   *)
(* with its journey or among those the user signed.                        *)
watched ==
  IF session = NoOne THEN {}
  ELSE {queryKey("me", session, NoOne), queryKey("trips", session, NoOne)}
       \cup {queryKey("trip", session, j) : j \in IF chosen = NoOne THEN Journeys ELSE {chosen}}
       \cup {queryKey("chain", session, j) : j \in Journeys}

PageInit ==
  /\ session = NoOne /\ refused = FALSE /\ chosen = NoOne /\ cache = Empty /\ polls = Empty
  /\ calls = [c \in Calls |-> AtRest]

-----------------------------------------------------------------------------
(***************************************************************************)
(* Queries: one reading of a key at a time, whoever asks for it again.     *)
(***************************************************************************)
without(f, keys) == [k \in DOMAIN f \ keys |-> f[k]]
with(f, keys, r) == [k \in DOMAIN f \cup keys |-> IF k \in keys THEN r ELSE f[k]]
setQueryData(k, user) == with(cache, {k}, reading(user))
cancelQueries(keys) == without(polls, keys)
(* Invalidated, a key that is shown is read anew; a reading under way is   *)
(* given up for it if there is an older answer to show.                    *)
invalidated(readings, keys) ==
  with(readings, {k \in keys \cap watched : k \in DOMAIN readings => k \in DOMAIN cache}, reading(session))
ofKind(kinds) == {k \in watched : k[1] \in kinds}
(* A change is shown; whatever is still being read of the same is older.   *)
overtaking(readings, k) ==
  [q \in DOMAIN readings |-> IF q = k THEN [readings[q] EXCEPT !.overtaken = TRUE] ELSE readings[q]]

Poll(k) ==
  /\ k \in watched \ DOMAIN polls /\ polls' = with(polls, {k}, reading(session))
  /\ UNCHANGED <<session, refused, chosen, cache, calls>>
PollEnds(k, answered) ==
  /\ k \in DOMAIN polls /\ polls' = without(polls, {k})
  /\ cache' = IF answered THEN with(cache, {k}, polls[k]) ELSE cache
  /\ IF k[1] = "me" THEN refused' \in IF answered THEN {FALSE} ELSE BOOLEAN ELSE UNCHANGED refused
  /\ UNCHANGED <<session, chosen, calls>>

(***************************************************************************)
(* Calls.  The page makes one at a time, and so does the account panel;    *)
(* both stay.  A card goes and comes back, and what it waited for with it. *)
(***************************************************************************)
Waits(c, job) == calls' = [calls EXCEPT ![c] = job]
Over(c) == Waits(c, AtRest)
busy(part) == \E c \in Calls : calls[c].by = part
Asks(c, part, at, user, j) ==
  /\ calls[c] = AtRest /\ (part # Card => ~busy(part))
  /\ Waits(c, [by |-> part, at |-> at, user |-> user, journey |-> j]) /\ UNCHANGED shown
ForSession(c, part, at, j) == session # NoOne /\ Asks(c, part, at, session, j)

(***************************************************************************)
(* The session.  A form signs in, or saves a login for its user; the panel *)
(* signs in with a wallet or a recovery code, renews the session (a wallet *)
(* linked or replaced, a new password, others signed out), and can delete  *)
(* the account.  They answer whatever happened to the session meanwhile.   *)
(***************************************************************************)
updateSession(user) == session' = user /\ chosen' = NoOne /\ cache' = Empty /\ polls' = Empty /\ refused' = FALSE

Enter(c, user) == session \in {NoOne, user} /\ Asks(c, Card, "entering", user, NoOne)
Identify(c, user) == session = NoOne /\ Asks(c, Panel, "entering", user, NoOne)
Renew(c) == ForSession(c, Panel, "entering", NoOne)
RemoveAccount(c) == ForSession(c, Panel, "removing", NoOne)
Entered(c) == calls[c].at = "entering" /\ updateSession(calls[c].user) /\ Over(c)
AccountRemoved(c) == calls[c].at = "removing" /\ updateSession(NoOne) /\ Over(c)

(* An account with neither wallet nor name to return by is not signed out. *)
LogOut(c) == ForSession(c, Page, "leaving", NoOne)
LoggedOut(c) == calls[c].at = "leaving" /\ updateSession(NoOne) /\ Over(c)
(* The server no longer accepts the session.                               *)
Leave == session # NoOne /\ refused /\ updateSession(NoOne) /\ UNCHANGED calls
(* A reloaded tab knows its session and nothing else.                      *)
Reload == /\ chosen' = NoOne /\ cache' = Empty /\ polls' = Empty /\ refused' = FALSE
          /\ calls' = [c \in Calls |-> AtRest] /\ UNCHANGED session

(***************************************************************************)
(* What an action came to is shown, and selected, on whatever page there   *)
(* is now; a poll of it under way is not called off.  So is an entry of    *)
(* the list that is selected, until the journey itself is read.            *)
(***************************************************************************)
choose(user, journey, for) ==
  chosen' = journey /\ cache' = setQueryData(queryKey("trip", user, journey), for) /\ UNCHANGED <<session, refused>>
Select(j) ==
  LET list == queryKey("trips", session, NoOne)
  IN /\ list \in watched \cap DOMAIN cache /\ choose(session, j, cache[list].for)
     /\ polls' = invalidated(polls, ofKind({"trips"})) /\ UNCHANGED calls

Act(c, j) == ForSession(c, Page, "acting", j)
Acted(c) ==
  LET job == calls[c]
  IN /\ job.at = "acting" /\ choose(job.user, job.journey, job.user)
     /\ polls' = invalidated(polls, ofKind({"trips", "me"})) /\ Over(c)
Create(c, j) == ForSession(c, Card, "creating", j)
Created(c) ==
  LET job == calls[c]
  IN /\ job.at = "creating" /\ choose(job.user, job.journey, job.user)
     /\ polls' = invalidated(polls, ofKind({"trips"})) /\ Over(c)

(* Settings and the demo: the reading under way is called off, and the     *)
(* answer shown in its place.  A handoff may also change the list.         *)
Change(c, j) == ~busy(Page) /\ ForSession(c, Card, "changing", j)
HandOver(c, j) == ~busy(Page) /\ ForSession(c, Card, "handing", j)
Changes(c, at) ==
  LET k == queryKey("trip", calls[c].user, calls[c].journey)
      left == overtaking(cancelQueries({k}), k)
  IN /\ calls[c].at = at /\ Over(c) /\ cache' = setQueryData(k, calls[c].user)
     /\ polls' = IF at = "handing" THEN invalidated(left, ofKind({"trips"})) ELSE left
     /\ UNCHANGED <<session, refused, chosen>>
Changed(c) == Changes(c, "changing")
HandedOver(c) == Changes(c, "handing")

(* The list is read anew once the journey has been.                        *)
Delete(c, j) == ForSession(c, Card, "deleting", j)
Deleted(c) ==
  /\ calls[c].at = "deleting" /\ polls' = invalidated(polls, ofKind({"trip"})) /\ Waits(c, [calls[c] EXCEPT !.at = "tripTold"])
  /\ UNCHANGED <<session, refused, chosen, cache>>

(***************************************************************************)
(* Chain operations: prepared, signed in the wallet, sent; what was not    *)
(* signed is discarded.  The page proposes a guardian; the commitment's    *)
(* card does the others, and asks for confirmation or withdraws one.       *)
(* A call that fails is not repeated.                                      *)
(***************************************************************************)
Prepare(c, part, j) == part # Panel /\ ForSession(c, part, "preparing", j)
Ask(c, j) == ForSession(c, Card, "asking", j)
nextStep(at) == CASE at = "preparing" -> {"signing"} [] at = "signing" -> {"submitting", "discarding"} [] OTHER -> {}
Advances(c) == /\ \E at \in nextStep(calls[c].at) : Waits(c, [calls[c] EXCEPT !.at = at])
               /\ UNCHANGED shown
(* The commitment is read anew, then the journey and its user.             *)
Submitted(c) ==
  /\ calls[c].at \in {"submitting", "asking"}
  /\ polls' = invalidated(polls, ofKind({"chain"})) /\ Waits(c, [calls[c] EXCEPT !.at = "chainTold"])
  /\ UNCHANGED <<session, refused, chosen, cache>>
Told(c) ==
  LET job == calls[c]
  IN /\ job.at \in {"chainTold", "tripTold"} /\ Over(c) /\ UNCHANGED <<session, refused, chosen, cache>>
     /\ polls' = invalidated(polls, ofKind(IF job.at = "tripTold" THEN {"trips"} ELSE IF job.by = Page THEN {} ELSE {"trip", "me"}))

commitmentCall(job) == job.by = Card /\ job.at \in {"preparing", "discarding", "submitting", "asking"}
Fails(c) ==
  LET job == calls[c]
  IN /\ job.at \notin {"idle", "signing", "chainTold", "tripTold"}
     /\ IF commitmentCall(job) THEN Waits(c, [job EXCEPT !.at = "chainTold"]) ELSE Over(c)
     /\ polls' = IF commitmentCall(job) THEN invalidated(polls, ofKind({"chain"}))
                 ELSE IF job.by = Page /\ job.at # "leaving"
                 THEN invalidated(polls, ofKind({"trips"}) \cup {queryKey("trip", job.user, job.journey)})
                 ELSE polls
     /\ UNCHANGED <<session, refused, chosen, cache>>

PageNext ==
  \/ \E k \in watched : Poll(k)
  \/ \E k \in DOMAIN polls, b \in BOOLEAN : PollEnds(k, b)
  \/ Leave \/ Reload
  \/ \E j \in Journeys : Select(j)
  \/ \E c \in Calls :
       \/ \E u \in Members : Enter(c, u) \/ Identify(c, u)
       \/ Renew(c) \/ RemoveAccount(c) \/ LogOut(c)
       \/ \E j \in Journeys : \/ Act(c, j) \/ Create(c, j) \/ Change(c, j) \/ HandOver(c, j)
                             \/ Delete(c, j) \/ Ask(c, j) \/ \E part \in {Page, Card} : Prepare(c, part, j)
       \/ Entered(c) \/ AccountRemoved(c) \/ LoggedOut(c) \/ Acted(c) \/ Created(c) \/ Changed(c) \/ HandedOver(c)
       \/ Deleted(c) \/ Advances(c) \/ Submitted(c) \/ Told(c) \/ Fails(c)
PageSpec == PageInit /\ [][PageNext]_pageVars

-----------------------------------------------------------------------------
(* What is shown was read for who is signed in now, however late the       *)
(* answers to an earlier session come; and no reading of a journey begun   *)
(* before a change that a card has shown takes its place.  (An entry       *)
(* picked from the list, or an action's late answer, may be older.)        *)
ShownToItsReader ==
  \A k \in watched \cap DOMAIN cache : cache[k].for = session /\ ~cache[k].overtaken
=============================================================================
