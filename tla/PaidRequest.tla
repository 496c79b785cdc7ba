----------------------------- MODULE PaidRequest -----------------------------
(***************************************************************************)
(* One request to the paid model: runOpenAIAssessmentWithDeadline of       *)
(* src/worker/src/openai-provider.ts, around requestOpenAIAssessment,      *)
(* around fetch and a stream that may both ignore their signal.            *)
(*                                                                         *)
(* The timer and the network come in only while the code waits for the     *)
(* network; the owner of the request, other code of the same object, may   *)
(* abort it between any two continuations.                                 *)
(***************************************************************************)
EXTENDS Naturals, Sequences

CONSTANT MaxChunks   \* OPENAI_MAX_RESPONSE_BYTES, one byte to a chunk
ASSUME ChunksAssumption == MaxChunks \in Nat

VARIABLES
  owner,    \* the caller's signal: live or aborted
  listener, \* on it: on or off
  timer,    \* the deadline: off, set or rung
  at,       \* how far requestOpenAIAssessment has come
  result,   \* what it returned or threw
  answer,   \* what the caller was told
  fetch,    \* of the platform: unsent, pending, replied or failed
  reply,    \* the response
  body,     \* its stream: none, open, locked by a reader, read to the end, cancelled
  chunks    \* how many of the stream's chunks were read

requestVars == <<owner, listener, timer, at, result, answer, fetch, reply, body, chunks>>
caller == <<owner, listener, timer, answer>>
network == <<fetch, reply, body, chunks>>

(* What can be wrong with a response that came whole, in the order in      *)
(* which readResponse and parseResponse look.                              *)
Checks == <<"json", "usage", "status", "output", "refusal", "call", "assessment", "model", "metadata">>
Flaws == {Checks[i] : i \in DOMAIN Checks}
BeforeUsage == {"json", "usage"}
told(code) == [code |-> code, usage |-> "unknown"]
NoReply == [kind |-> "none", declared |-> FALSE, streams |-> FALSE, size |-> 0, flaws |-> {}]
Replies == [kind : {"ok"}, declared : BOOLEAN, streams : BOOLEAN, size : 0..MaxChunks + 1, flaws : SUBSET Flaws]
           \cup [kind : {"redirect", "refused"}, declared : {FALSE}, streams : BOOLEAN, size : {0}, flaws : {{}}]

RequestInit ==
  /\ owner = "live" /\ listener = "off" /\ timer = "off" /\ at = "uncalled"
  /\ result = told("none") /\ answer = told("none")
  /\ fetch = "unsent" /\ reply = NoReply /\ body = "none" /\ chunks = 0

-----------------------------------------------------------------------------
(***************************************************************************)
(* runOpenAIAssessmentWithDeadline, and abortable: the first of abort,     *)
(* value and error settles the whole and whatever part it waits for.       *)
(***************************************************************************)
answered == answer.code # "none"

(* A caller that has aborted is turned away at once.                       *)
Call ==
  /\ at = "uncalled"
  /\ IF owner = "aborted" THEN at' = "over" /\ answer' = told("aborted") /\ UNCHANGED <<listener, timer>>
     ELSE at' = "deferred" /\ timer' = "set" /\ listener' = "on" /\ UNCHANGED answer
  /\ UNCHANGED <<owner, result, network>>

Suspended == {"deferred", "prepared", "asking", "reading"}
Waiting == {"asking", "reading"}

(* The controller's abort: what waits lets go of its stream; a             *)
(* continuation already due finds out by itself.                           *)
letGo == body' = IF at = "reading" THEN "cancelled" ELSE body
aborts(code, rung) ==
  /\ answer' = told(code) /\ timer' = rung /\ letGo
  /\ at' = IF at \in Suspended THEN "over" ELSE at
  /\ UNCHANGED <<result, fetch, reply, chunks>>
Abort ==
  /\ owner = "live" /\ owner' = "aborted" /\ listener' = "off"
  /\ IF listener = "on" THEN aborts("aborted", "off") ELSE UNCHANGED <<timer, at, result, answer, network>>
Deadline ==
  /\ timer = "set" /\ at \in Waiting /\ listener' = "off" /\ UNCHANGED owner /\ aborts("timeout", "rung")
Deliver ==
  /\ at = "ended" /\ at' = "over" /\ UNCHANGED <<owner, result, network>>
  /\ IF answered THEN UNCHANGED caller ELSE answer' = result /\ timer' = "off" /\ listener' = "off"

-----------------------------------------------------------------------------
(***************************************************************************)
(* requestOpenAIAssessment.  Once the caller has its answer, and only      *)
(* then, its signal is aborted while it goes on.                           *)
(***************************************************************************)
signalled == answered
Ends(r) == at' = "ended" /\ result' = r
Goes(to) == at' = to /\ UNCHANGED result

(* The input is checked and put into words, and the key looked at.         *)
Prepare(flaw) ==
  /\ at = "deferred" /\ UNCHANGED <<caller, network>>
  /\ IF flaw = "none" THEN Goes("prepared") ELSE Ends(told(flaw))
InputFlaws == {"none", "model_not_allowed", "invalid_input", "too_large", "key_missing"}
Ask == at = "prepared" /\ Goes("asking") /\ fetch' = "pending" /\ UNCHANGED <<caller, reply, body, chunks>>

\* Mutant: a response that comes too late is left as it is.
disposeNever(r) == IF r.streams THEN "open" ELSE "none"

disposeLate(r) == IF r.streams THEN "cancelled" ELSE "none"
(* A response, perhaps long after the request was given up; or none.       *)
Respond(r) ==
  /\ fetch = "pending" /\ fetch' = "replied" /\ reply' = r
  /\ IF at = "asking" THEN Goes("replied") /\ body' = (IF r.streams THEN "open" ELSE "none")
     ELSE body' = disposeLate(r) /\ UNCHANGED <<at, result>>
  /\ UNCHANGED <<caller, chunks>>
FetchFails ==
  /\ fetch = "pending" /\ fetch' = "failed" /\ UNCHANGED <<caller, reply, body, chunks>>
  /\ IF at = "asking" THEN Ends(told("network_error")) ELSE UNCHANGED <<at, result>>

cancelBody == body' = IF body = "open" THEN "cancelled" ELSE body
Open ==
  /\ at = "replied" /\ UNCHANGED <<caller, fetch, reply, chunks>>
  /\ \/ (reply.kind # "ok" \/ reply.declared) /\ cancelBody /\ Ends(told("refused"))
     \/ reply.kind = "ok" /\ ~reply.declared /\ ~reply.streams /\ UNCHANGED body /\ Ends(told("invalid_response"))
     \/ /\ reply.kind = "ok" /\ ~reply.declared /\ reply.streams
        /\ IF signalled THEN body' = "cancelled" /\ Ends(told("aborted")) ELSE body' = "locked" /\ Goes("reading")

(* The stream of a reader that waits: a chunk, its end, or an error.       *)
Streams ==
  /\ at = "reading" /\ UNCHANGED <<caller, fetch, reply>>
  /\ \/ chunks < reply.size /\ chunks' = chunks + 1 /\ Goes("chunk") /\ UNCHANGED body
     \/ chunks = reply.size /\ Goes("done") /\ UNCHANGED <<chunks, body>>
     \/ body' = "cancelled" /\ Ends(told("invalid_response")) /\ UNCHANGED chunks
Read ==
  /\ at \in {"chunk", "done"} /\ UNCHANGED <<caller, fetch, reply, chunks>>
  /\ \/ signalled /\ body' = "cancelled" /\ Ends(told("aborted"))
     \/ ~signalled /\ at = "chunk" /\ chunks <= MaxChunks /\ Goes("reading") /\ UNCHANGED body
     \/ ~signalled /\ at = "chunk" /\ chunks > MaxChunks /\ body' = "cancelled" /\ Ends(told("too_large"))
     \/ ~signalled /\ at = "done" /\ body' = "read" /\ Goes("read")

(* The first flaw rejects; the usage is read before what it was spent on.  *)
parseResponse(flaws) ==
  LET first == {i \in DOMAIN Checks : Checks[i] \in flaws /\ \A j \in 1..i - 1 : Checks[j] \notin flaws}
  IN [code |-> IF flaws = {} THEN "assessment" ELSE "rejected",
      usage |-> IF \A i \in first : Checks[i] \notin BeforeUsage THEN "known" ELSE "unknown"]
Parse == /\ at = "read" /\ Ends(IF signalled THEN told("aborted") ELSE parseResponse(reply.flaws))
         /\ UNCHANGED <<caller, network>>

RequestNext ==
  \/ Call \/ Abort \/ Deadline \/ Deliver
  \/ \E flaw \in InputFlaws : Prepare(flaw)
  \/ Ask \/ FetchFails \/ Open \/ Streams \/ Read \/ Parse
  \/ \E r \in Replies : Respond(r)
RequestSpec == RequestInit /\ [][RequestNext]_requestVars

-----------------------------------------------------------------------------
Usages == {"known", "unknown"}
Codes == {"none", "aborted", "timeout", "network_error", "refused", "invalid_response", "too_large", "assessment", "rejected"}
         \cup InputFlaws
RequestTypeOK ==
  /\ owner \in {"live", "aborted"} /\ listener \in {"on", "off"} /\ timer \in {"off", "set", "rung"}
  /\ at \in Suspended \cup {"uncalled", "replied", "chunk", "done", "read", "ended", "over"}
  /\ result \in [code : Codes, usage : Usages] /\ answer \in [code : Codes, usage : Usages]
  /\ fetch \in {"unsent", "pending", "replied", "failed"} /\ reply \in Replies \cup {NoReply}
  /\ body \in {"none", "open", "locked", "read", "cancelled"} /\ chunks \in 0..MaxChunks + 1

(* Whatever the network does, a request whose owner gave up or whose time  *)
(* is up has been answered, in that same event; and once it is answered    *)
(* and no continuation is due it holds nothing: no timer, no listener on   *)
(* the owner's signal, no response that is neither read nor cancelled.     *)
NeverOutlivesItsCaller ==
  at \in Waiting \cup {"over"} =>
    /\ answered \/ (timer = "set" /\ listener = "on" /\ owner = "live")
    /\ answered => at = "over" /\ timer # "set" /\ listener = "off" /\ body \notin {"open", "locked"}

(* What a response cost is told with whatever answer was made of it, an    *)
(* assessment or a refusal; and nothing else costs anything.               *)
UsageReported ==
  answered => (answer.usage = "known" <=> /\ answer.code \in {"assessment", "rejected"}
                                          /\ reply.flaws \cap BeforeUsage = {})
=============================================================================
