# StillHere in TLA+

StillHere lets the rider of a journey find a guardian who checks in on them,
with a server that takes over when the guardian falls silent. The application is
a Cloudflare worker (`worker/src`), whose state lives in durable objects, three
Solana programs (`contracts/programs`), a web client (`web`) and scripts for
guardians and operators (`scripts`). This directory
holds TLA+ modules that model the stateful parts, TLC configurations that check
them on small instances, and theorems that TLAPS checks for every instance.
Paths below are relative to the repository.

A durable object runs one request at a time *between two awaits*. At an `await`
of another object, of the network or of a hash, other requests of the same
object run; a call may fail, or take effect although its answer is lost; the
object may restart with nothing but its storage. The modules of single objects
therefore take a handler up to its save as one step, and the modules about
several objects take as one step what happens between two awaits.

## Inventory

| Part | State | Operations | Correct when | Modelled in |
| --- | --- | --- | --- | --- |
| TripRoom, one per journey (`trips.ts`) | `trip_state`: guardian, applications, relay, monitoring mode and deadlines, risk, contributions; one alarm | accept, withdraw, approve, reject, relays, check-in, takeover, resume, arrive, cancel, help, settings, alarm, purge, scrub | only applicants of the open request can be approved; someone is always due; the alarm is never late; limits are never extended; private data goes away | `Journey`, `Custody` |
| Notifications of the trusted contact (`trips.ts`, `assistance.ts`, `integrations.ts`) | notices, jobs with leases and attempts, cause of the escalation | queue, deliver, acknowledge | nothing sent without authority, no acknowledgement lost, everything due is carried out | `Notifications` |
| Gratitude (`trips.ts`, `accounts.ts`) | receipts of the journey, banners of the guardian's account | choose, deliver, scrub | one banner, in one kind, and not lost | `Gratitude` |
| Personal agents (`trips.ts`, `personal-agent.ts`, `scripts/personal-agent-watch.ts`) | delegation, token, jobs and deadlines; the runtime's loop | request, approve, connect, accept, heartbeat, updates, assess, release, end | authority does not outlive its delegation; a silent runtime loses its coverage and somebody takes it over; a job is answered once | `PersonalAgent`, `AgentWatch` |
| Model on the guardian's machine (`scripts/codex-demo.ts`) | processes, their output, timers, a temporary directory | preflight, run, collect, clean up | an assessment comes from one whole turn; nothing is left behind unsaid | `ModelRunner` |
| Agent harness, AI budget, Codex demo bridge (`trips.ts`, `agent.ts`, `governance.ts`, `codex-demo.ts`) | runs with leases, attempts and steps; the day's budget; the demo snapshot | queue, claim, decide, step, assess, import | effects once; paid once; nothing done for a journey that changed | `AgentHarness` |
| Evidence of assistance (`agent.ts`, `agent-semantic.ts`, `codex-demo.ts`, `ai-runtime.ts`) | none: functions of a context | build a handoff, validate it, validate an assessment | what is built can be restored; what is accepted rests on sources | `AgentEvidence` |
| Plans, wordings, the executor's judgement and what a planner is shown (`agent.ts`, `ai-runtime.ts`, `trips.ts`) | none: functions of the journey and a run's steps | plan, decide, execute, render, minimize | each tool once; nothing proposed is refused; reassurance gives way to concern; only who consented is shown; renderings fit | `AgentPlan` |
| Paid model (`openai-provider.ts`) | one request: signal, timer, stream | request, abort, deadline | outlives its caller by nothing; its cost is told | `PaidRequest` |
| TripDirectory (`accounts.ts`) and its synchronization (`trips.ts`) | versioned row per journey; `indexVersion`, `indexedVersion` | `syncIndexes`, `update`, `list`, `purge` | calls in any order never reopen a request; the directory catches up | `DirectoryIndex` |
| Reward settlement (`trips.ts`, `accounts.ts`, `governance.ts`, `guarding.ts`) | contributions, account balances and `credits`, status rulings | allocation, `settleReward`, `status`, `credit`, account erasure | each share once, one pool, nobody forgotten | `RewardSettlement` |
| Reports of conduct and operators (`governance.ts`, `web/app/admin/page.tsx`) | reports, daily limits, audit entries, backup manifests, one alarm; the operators' page | submit, list, resolve, suspend, record, forget; connect, page on, rule | no report survives its account or its retention; a daily limit that holds; paging misses nothing | `Moderation`, `OperatorDesk` |
| Accounts, identity, sessions (`accounts.ts`, `identity.ts`, `governance.ts`) | credentials, sessions and their `auth_version`; registries of names and wallets | register, sign in, change password, wallet challenges, recover, revoke, log out | no session for an old credential; names and wallets lead to the account that bears them | `Accounts` |
| Deletion and restoration (`governance.ts`, `operations.ts`, `accounts.ts`, `trips.ts`, `scripts/backup.mjs`) | deletion journal, tombstones, archives | request, cron, export, protect, restore | a deletion completes, has erased what it promised, and no restore undoes it | `Erasure` |
| ChainJourney (`chain-sync.ts`) and its application (`trips.ts`) | binding, outbox of intents, finalized snapshot | prepare, submit, discard, reconcile, apply | one transaction at a time; the outbox tells what became of it; access moves forward | `ChainSync` |
| Solana program `safety-guard-v2` | journey account with slots, reputation accounts | eight instructions | stale signatures fail; slots follow the assignment; pools shared exactly; claims once | `SafetyGuardV2` |
| Solana program `safety-guard` (version 1, still deployed) | task accounts, reputation accounts | five instructions | a task pays its guardian once, and only who was there | `SafetyGuard` |
| Community capture and outbox (`community-events.ts`, `trips.ts`) | `community`, `community_source` | capture in `save`, `deliverCommunity` | every event reaches the journal once and in order, and none is refused | `CommunityRules`, `CommunityOutbox` |
| CommunityLedger (`community-ledger.ts`, `community-chain.ts`) | `records`, journal state, correction | append, publish, retry, corrections, audit, member index | records confirmed in order by their own receipt; withdrawals agree with the chain | `CommunityRules`, `CommunityOutbox`, `CommunityPublication` |
| Solana program `community-ledger` | journey, records, withdrawal, authorities | `append_event`, `withdraw_journey`, `rotate_authorities` | accepts what the journal accepts | `CommunityRules`, `CommunityAgreement`, `CommunityPublication` |
| Web client (`web/app/page.tsx`, `web/components`, `web/lib`) | the tab's session, answers kept by key, calls under way | sign in and out, poll, act, change, sign a transaction | shows what was read for who is signed in, and not what a change has overtaken | `JourneyPage` |

Interactions: a handler of TripRoom loads the state, expires what has run out,
changes it, and saves; `save` reconciles the delegation, cancels agent runs that
participants have overtaken and captures community events in the same storage
transaction. Then it schedules the alarm, synchronizes the directory, delivers
community events, notifications and thanks, settles rewards and runs the agent,
each an `await` of another object or of the network. The alarm does the same on
its own. CommunityLedger and ChainJourney work from their own alarms, the
deletion journal from a cron.

The hard behaviours, with the line each of them bites at and the properties that
cover it, are listed under `hazards` in `PROJECT.json`: state read before an
await and stored after it, calls that arrive late or twice, one alarm that
serves every deadline, restarts between persisting and sending, an answer about
the chain that is no longer true, two programs that must judge alike, and
divisions with a remainder.

## Modules

### Journey, Custody (`worker/src/trips.ts`)

`trip` is the row of `trip_state` or `Erased`; `alarm` the object's one alarm;
`deleted` the accounts that were scrubbed. There is one action per action of
`TripRoom.act`, per other handler that changes the journey, for the alarm
(`AlarmFires`, with expiry, relay limits, missed and automated check-ins in the
order of the code) and for the clock. An action applies `expire`, its own
change and `save`, as the handler does, and sets the alarm only where the
handler calls `schedule`. Times are stored as time left, so that `Tick` alone reads
the clock and no bound on time is needed. `round` names the recruitment an
application was made for; the code does not store it, and the properties use it
to tell an old application from a new one.

`Custody` is the protocol without clocks: candidates, the one guardian, closure
and erasure. `ImplementsCustody` states that `Journey` implements it when
candidates are the applicants whom the rider could approve now.

Left out of this module, and modelled in those below: personal agents, model
runs, notification delivery. Left out altogether: demo journeys, locations,
messages and risk labels.

### PersonalAgent (`trips.ts`, `personal-agent.ts`)

`room` is the part of `trip_state` involved, with times as time left. An
operation of the runtime is up to four steps (`call`), as hashing its token and
asking governance yield; each repeats the reads the code repeats. Jobs are
numbers, and `fresh` the set of jobs whose revision and evidence are current,
which is all that the code asks of them. `silence` is history: how long ago a
valid answer came. Any runtime that holds a token may call any operation at any
time here; `AgentWatch` has the one of this repository.

### AgentWatch (`scripts/personal-agent-watch.ts`)

The loop of `watchPersonalAgent` against the server of `PersonalAgent`, whose
operations are one step here (`Perform`), for what is taken apart is the call:
`net` is what the loop and its poll wait for, `stray` are requests whose caller
is gone and which may still arrive. Heartbeats, the poll that supersedes a job
while the model thinks, the pauses between submissions and the final release
are steps of their own; whatever rejects an await leads to the `finally` block,
`Stop`. `answered` and `reported` are history.

### ModelRunner (`scripts/codex-demo.ts`)

One assessment, for the watching runtime or as the rider's manual demo:
`task` is its place, `child` and `run` the process at work and `runProcess`
around it, `collector` what `createEventCollector` has made of the model's lines,
`machine` the temporary directory, the expiry and the abort. A line, a broken pipe,
an error, the end of the process, either timer and the abort are one step each,
in any order. `MCDelegation` checks the three modules, one of them in each
behaviour: a delegation with any runtime, one with the script, and one
assessment on the machine.

### AgentHarness (`trips.ts`, `agent.ts`, `governance.ts`)

`exec` is what each call of `runAgent` waits for; every handler and the alarm end
with one, so two are at work. A run has a lease, attempts, a plan as an order of
tools, and one paid assessment with its reservation in the budget of the day
(`ledger`). What decisions rest on is one counter. A restart loses every
executor and keeps the runs.

### AgentEvidence (`agent.ts`, `agent-semantic.ts`, `codex-demo.ts`, `ai-runtime.ts`)

Functions and no state: `buildAgentHandoff` and the schema by which an archive
that holds its result is restored, `validateSemanticAssessment`, and the two
callers that judge an answer at its snapshot and again on arrival. A handoff is
a function of places (snapshot, messages, concerns, receipts, notices); texts
are opaque, and a source is its kind and the identifier of its record. It has
theorems, which `MCAgent` evaluates on small contexts as assumptions.

### AgentPlan (`agent.ts`, `ai-runtime.ts`, `trips.ts`)

Functions as well: the planner of the rules and the one of an assessment
(`nextMockDecision`, `nextSemanticDecision`), what the executor answers to each
tool (`executeAgentTool`), the choice among fixed wordings, the counts of a
summary, and what of a journey a planner and a paid model are shown
(`agentContext`, `liveAiContext`). A tool answers with a code and with the
journey as it leaves it: the message it posts and what assessed it, the follow-up,
the open relay, the queued notice. The patterns by which the rules read a text
are sets of texts, a wording is its name, and the room for quotes is computed from
the lengths the schemas allow. A position in a plan is the first tool of an order
that the run has not attempted. `MCAgent` evaluates its theorems as assumptions
too, on journeys of at most two messages.

### PaidRequest (`openai-provider.ts`)

`runOpenAIAssessmentWithDeadline` around `requestOpenAIAssessment`, continuation by
continuation. The timer and the network come in only while the code waits for
the network; the owner, other code of the same object, may abort between any two
continuations, as `abortable` must expect. `fetch` and the stream may ignore
their signal and answer long after. What a response says is a set of flaws, in
the order in which `parseResponse` meets them. `MCAgent` checks it and
`AgentHarness`, one of them in each behaviour.

### Notifications, Gratitude (`trips.ts`, `assistance.ts`, `accounts.ts`)

`send` is what each call of `deliverNotifications` waits for, `caller` what each
call of `sendGratitude` and `deliverGratitude` does. Holds (leases, retry times)
end in steps of their own, so a late answer meets a repeated send. `MCOutreach`
checks both, one of them in each behaviour: notifications belong to a journey
under way, thanks to one that has ended, and they share nothing else.

### DirectoryIndex (`trips.ts`, `accounts.ts`)

`syncs` are runs of `syncIndexes`, each with the snapshot it took; `calls` are
directory updates under way, which arrive in any order, also after their caller
has failed; `directory` is the versioned row. `withdrawn` records which requests
were reported as ended.

### RewardSettlement (`trips.ts`, `accounts.ts`, `governance.ts`)

`runs` are two runs of `settleReward`, of the arrive request and of the alarm,
with a program counter at its two calls; `orphans` are credit calls whose caller
has failed. Moderators suspend and restore, accounts are deleted, and the rider
may erase the journey, between any two steps.

### Accounts (`accounts.ts`, `identity.ts`, `governance.ts`)

`run` are two requests under way, each RPC of theirs a step, and `Dies` ends one
midway; `account`, `username`, `walletOf` and `governed` are the four objects
they go between. Passwords, recovery codes and wallet challenges are numbered by
the `auth_version` they were set at, so that deriving a key and checking it
afterwards are the steps the code takes around its awaits. It is assumed that a
registration does not outlive the five minutes its reservation lasts.

### JourneyPage (`web/app/page.tsx` and the components it shows)

`session` is who the tab is signed in as, `cache` and `polls` the answers TanStack
Query keeps and the readings under way, by query key; `refused` that the last
answer about the user was that the session is not accepted. `calls` are calls under
way, each with the part of the page that made it (the page, the account panel or a
card) and with the user and journey it was made for, since a continuation runs
with those of the render that made it. The page and the panel do one thing at a
time and stay; a card goes and comes back, and what it waited for with it, so
any number of cards may wait. The library is external: one reading of a key at a time,
clearing drops readings, invalidating starts them anew, setting data does not
stop them. An answer is reduced to whom it was read for and whether a change
that was shown has overtaken it. The account panel is mounted whether or not anybody is
signed in, and its answer replaces whatever session the tab has by then
(`Identify`, `Renew`, `RemoveAccount`, then `Entered` or `AccountRemoved`).

### Moderation (`governance.ts`)

A submission is up to three steps, as it asks the journey who takes part in it:
what it checked before, and what the journey answered, is old when the report is
written, and `Records` checks again what the code checks again. Operators, the
deletion of accounts and changes of journeys come between. Reports, audit entries and
manifests are reduced to what tells them apart and when they were written.
Time stands still until an alarm that is due has fired: the platform is
supposed to run alarms on time. `issued` is history. Two things the
module shows and the properties respect: the limit of reports is one of fixed
windows that begin with a report, so a day that overlaps two of them holds up to
twice as many; and a submission that waits while the account it is *about* is deleted
still writes its report, which goes with its retention.

### OperatorDesk (`web/app/admin/page.tsx`)

The operators' page over `Moderation`: one call at a time, which goes to the server
(`RulesOnReport`, `RulesOnAccount`, `Lists`) and comes back (`Shows`) or fails
anywhere. A ruling is followed by the newest page. The credential may be changed or the page
disconnected while a call is under way; its answer is shown nevertheless. `pass`
is history: what there was when the first page was read, and what has been shown since.
The display of audit entries and the panel of community operations are left out.

### Erasure (`governance.ts`, `operations.ts`, `accounts.ts`, `trips.ts`, `scripts/backup.mjs`)

One journey, its rider and a member. The journal of governance is a function of
the users it has rows of, each with the users whose rows are older, for the cron
takes them in that order. `run` are two runs of `resumeDeletion`, of
the request and of the cron; `sync` and `purging` the calls of the journey that
may outlive it; `export`, `archives` and `restore` the operator, who may lose
the source (`world`) and restore into fresh storage, which is closed to users
until it has ended. `Scenes` of `MCErasure` gives each behaviour its bounds, since all of them
at once would only multiply what does not interact. `history` remembers whose
deletion listed the journey, and who joined by an act that was authenticated
before and arrived after.

### ChainSync (`chain-sync.ts`, `trips.ts`)

`program` lists the finalized versions of the program's account, `cluster` what
became of each transaction: sent, in a block that may be forgotten, finalized,
rejected, or past its last valid height. The reconciliation (`sync`) asks status,
height and receipt one after the other, from a node that may lag, and the world
moves in between. `applying` are the calls that bring a snapshot to the journey,
with the question to governance between their two reads. The program itself is
reduced to its revisions here. The second initial state is a journey whose
first guardian has just been accepted on chain, which would take most of the
bounds to reach.

### SafetyGuardV2 (`contracts/programs/safety-guard-v2`)

One action per instruction. An instruction is atomic, but is signed from what
the signer saw: `views` keeps everything that could have been read, and every
instruction carries the revision or sequence of one of them. Counters fail at
their width (`MaxU32`, `MaxU64`). `MCChain` checks it and `ChainSync`, one of them
in each behaviour.

### SafetyGuard (`contracts/programs/safety-guard`)

Version 1: a task names one guardian, who accepts, checks in and is paid a fixed
reward when the rider completes. One action per instruction; the clock moves
forward or stands. It has theorems and no run.

### CommunityRules, CommunityAgreement

`CommunityRules` states the rules of public records as the code does, twice:
`journalAccepts` and `journalPoints` are `applyEvent` of the worker,
`programAccepts` and `programPoints` are `CommunityJourney::apply` of the
program. `told` is the state both keep after an accepted event.
`CommunityAgreement` follows the journal and asks both about every next event;
it has theorems and no run.

### CommunityOutbox (`community-events.ts`, `trips.ts`, `community-ledger.ts`)

`trip` is reduced to what `captureCommunityEvents` compares; actions are the
handlers as far as capture sees them. `Save` is `TripRoom.save`: it reconciles the
delegation, captures, numbers the events and stores both. `outbox`
is the table of rows, `delivered` those marked as delivered, `calls` the append calls under way; a batch may be sent again
at any time, as leases and retry times may run out. `AppendCall` is one
transaction of the journal. Guardians are numbers in the order of their public
references.

### CommunityPublication (`community-ledger.ts`, `community-chain.ts`, the program)

`rows` is the `records` table, `work` the one alarm under way with the record it
read; each await of the chain client is a step boundary, and every value the
code stores afterwards is the one it read before. `signed` are the transactions, which may land or expire
at any time; `chain` is what the program holds; `key` and `chain.issuer` differ
after a rotation until the new key is deployed. `correction`, `drafts` and
`preparing` are the operator's withdrawal, which can also be sent without the
worker. What a record says is left out here: `CommunityAgreement` covers it.

## What the runs check

| Run | Question | Bounds |
| --- | --- | --- |
| `journey` | escalation over all interleavings of volunteers, rider, deletion, alarm and clock; implements `Custody`; is erased in the end | 3 volunteers, 2 applications, limits of 1 to 5 ticks |
| `delegation` | a silent runtime loses its coverage, somebody is always due and no alarm late, context stays with a delegation that stands; the script answers a job once; the model's process leaves nothing unsaid | 2 guardians, one delegation, 2 tokens, 2 inputs, limits of 1 to 5 ticks; 2 turns, 2 submissions, 1 lost call; 2 preflight checks, 3 lines |
| `agent` | effects once, paid once, nothing from the past; a paid request outlives its caller by nothing | 2 executors, 2 attempts, 2 retained runs, 2 paid calls a day, 2 changes, 1 restart; a response limit of 1 chunk |
| `outreach` | authority and liveness of notifications; one banner, and not lost | 2 calls at a time, 2 attempts, 2 acts, 2 requests of thanks, 2 failures, 1 restart |
| `directory` | calls in any order; recovery by the alarm alone | 2 synchronizations at once, 2 requests, 4 versions, 1 failure |
| `reward` | two settlements with failures and rulings | 2 guardians, pool of 3, 1 failure, 2 rulings |
| `accounts` | sessions, wallets and names against requests that overlap and are lost; the page shows what was read for its reader; reports go with their account and in time, and are limited; the operators' pages miss nothing | five scenes, see `MCAccounts`: 2 people, 2 wallets, 1 name, 4 requests of which 2 at once, 2 mishaps; 2 members, 1 journey, 2 calls at once; 2 users, 1 journey, 3 reports of which 2 are paged through, 1 submission at once, limit and page of 1, day and retention of 2, time 4, 1 ruling |
| `erasure` | deletion against the rest of the system, its completion, and restoration | five scenes, see `MCErasure`: two deletions with a failure; a member who is joining; exports, loss and restore from one or two archives |
| `chain` | pools shared exactly; one transaction at a time, true settlement, access forward | 4 keys of which the rider is one, 2 slots, counters of 6 and 4, time 4; 2 members, 2 calls, 2 intents, 2 applications, 2 to 3 choices and failures |
| `community` | lost, repeated and refused calls; the journal is a prefix of what was captured and agrees with the journey; one pool; all events arrive, also after erasure | 9 events: two guardians who both check in, arrival, both contributions; batches of 4, 1 lost answer |
| `community_publication` | publisher and corrections against expiry, rotation, restarts and late records; every record is published | 2 records, 1 draft, 1 expiry, 1 rotation, 1 failure |
| `help_dropped` | violated, see findings | 1 deliverer, 4 acts, 1 failure |

Why these bounds suffice to be of interest: a second volunteer is needed for a
replacement and a third for a rival application; two rounds tell an old
application from a new one; a pool that does not divide evenly has a remainder;
two calls, executors or settlements at a time overlap in every way that a third
would repeat; a capacity of two with three candidates is met and exceeded; one
failure at any await shows what a retry finds. The deadlock check is off: an
erased journey, a settled one and an exhausted bound really stop. Symmetry is
used in `MCChain`, `MCAccounts` (of people, of wallets and of callers, who are the page's members and
calls and the users who report, too) and `MCAgent` only, whose properties are invariants and action properties; in `SafetyGuardV2` guardians are ordered by their keys and are not
permuted.

Every property of a passing run has a mutant: a plausible bug of one mapped
definition under which that run fails. `PROJECT.json` lists them.

A run asks of several modules at once where these share nothing but the reader's
attention: each behaviour then belongs to one of them (`scene`), and the others
rest in their initial state.

The type invariants document the state of each module; nearly all are
part of an invariant that is proved, the others were checked while the modules
were written. Properties that are proved for every
instance and easy to believe on a small one have no run: `ApplicationsBelongToRound`,
`PeriodsFollowCustody`, `SomeoneIsDue` and `AlarmNeverLate` of `Journey`;
`StaleSignaturesFail`, `SlotsFollowAssignment`, `ProposalHasRoom`, `CreditedOnce`,
`CheckInsAreSpaced` and `SettledForever` of `SafetyGuardV2`; `PaidPerTask` and
`PresenceIsWitnessed` of `SafetyGuard`; `OneTurnOnly` of `ModelRunner`,
`UsageReported` of `PaidRequest` and `AcknowledgedStays` of `Notifications`; `NobodyForgotten` and `DeletedEarnNothing` of
`RewardSettlement`; `SameVerdict` of `CommunityAgreement`.

## Fairness

- `Journey` assumes that time passes and that the platform runs a due alarm.
  Nothing is assumed of people.
- `DirectoryIndex` and `RewardSettlement` assume that the alarm comes back and that
  a run under way goes on or fails; failures are bounded, as the code retries
  for ever.
- `Notifications` and `Gratitude` assume that a call runs on, and that each hold
  ends and the alarm, which `schedule` sets to the end of every hold, delivers.
- `Erasure` assumes that the cron comes (every five minutes, `wrangler.jsonc`) and that
  calls run on or fail; failures are bounded.
- `CommunityOutbox` assumes the alarm delivers and that each call runs and ends
  for its caller, separately, for batches that overlap must not delay each
  other's answers for ever.
- `CommunityPublication` assumes that the steps of the alarm go on, that calls to
  the chain end, and strong fairness of taking up a record: each run of the alarm
  looks at the due record before it turns to a correction, so a correction that is
  tried again and again cannot starve it. A transaction that was sent, is valid
  and stays so lands, and one signed by a former issuer expires; the number of
  other transactions that expire is bounded, for a chain that never takes a
  transaction publishes nothing. Nothing is assumed of the operator, so
  `EventuallyPublished` supposes that the key is in the end the one the chain was
  told of.

The other modules state no liveness. Coverage by a runtime ends by the clock,
which `SilenceEndsCoverage` says as an invariant with a bound. A run of the agent may
be given up after its attempts, a prepared transaction may never be signed, and
a registration may be abandoned: the code promises none of them an end other
than expiry.

## What is proved

- `JourneyProofs`: `Sound` is the conjunction of the four state invariants with
  phase coherence and the deadlines of pending applications. Handlers change
  the trip in stages (`expire`, the handler, `save`), so the lemmas follow these:
  `Prepared` holds of a trip about to be saved, `Expiring` between the parts of
  `expire`. `AlarmSafety` has an invariant of its own on top, since some
  handlers save without scheduling: the alarm is below every stored deadline
  because those handlers only remove deadlines or move them later. From `Sound`
  also follows that each action of `Journey` is a step of `Custody` or leaves
  custody alone; and that missed check-ins are never escalated early: what is
  done to a trip between two saves either keeps its record of silence
  (`SameRecord`) or is the one step that may escalate, and `missed` never exceeds
  the number of intervals that have passed.
- `DelegationProofs`, on the server: `AgentInv` is what every handler needs and
  gives back (`Ready`), what saving adds (`Settled`), how silence bounds coverage
  (`Covered`) and that the alarm is no later than anything due (`OnTime`), with what
  a call under way may still rely on after each await (`Calling`). The script:
  `WatchInv` adds what late replies may name. A job never comes back on the
  server, so a reply names one that is new to the loop or the one it works on.
  One assessment: `RunnerInv` follows timers, process and collector to what the
  caller is told. `DelegationHolds` joins the three for `MCDelegation`.
- `AgentProofs`: a run of the agent holds its effects as steps of an order, each
  at most once, and what it bought as long as it is pending; two executors meet
  in the stored run only, so what one has read is compared with what may have
  become of it since (`Follows`, `GoesOn`): runs end for good and keep what was
  bought or read. `Counted` relates the paid calls with the ledger of the day. Of
  the paid request, `Control` says that timer and listener are there exactly
  while there is no answer, that a stream is locked exactly while it is read, and
  that fetch is called once; `Costs` ties the cost of a result, and then of the
  answer, to the response. Of the evidence: a handoff built of any records, also
  with identifiers that repeat, passes the schema by which an archive is
  restored; and an assessment that is accepted at two times on one context is
  accepted at every time between, since the sources that may be cited only grow
  with time while what is recent only shrinks, so that judging it at its snapshot
  and on arrival is enough. Of the plans: whoever decides, a tool that was
  attempted is not proposed again, so the steps of a run stay within the eight
  that an archive can hold. What is proposed on the context a run has read is not
  refused as long as `agentContextChanged` sees no difference, which shows that
  the comparison covers what the tools depend on (for an imported result it
  supposes that the result may still be used, which the executor judges anew).
  What a paid model is shown, and may therefore cite, was said by a present
  participant who consents. Renderings fit their limits whatever they quote. And
  whatever is proposed, whenever: a tool keeps the authority it was given
  (`ToolsKeepAuthority`). It changes neither risk, guardian nor permissions, puts a
  follow-up never off, leaves an open relay open, and queues a notice only as
  the first one and while the rider's authorization stands.
- `AccountsProofs`: every session stands at its account's version, and a request
  under way may rely on what it read as long as the version is the one it read.
  A wallet is reserved in one registry before it is held in the other and never
  let go, and a name belongs to who reserved it under the operation that
  reserved it, until a recovery takes its place: this is what `IdentitiesLeadHome`
  needs of all requests at once. The page: `PageInv`, what is cached or polled
  under a key was read for the user whom the key names, and no change has
  overtaken it. Reports: `ModerationInv` says that the alarm is set as soon as
  there is something to forget, at most a day ahead and in time for all that is
  kept (`Punctual`); that for each account the reports of the window are
  counted, while those of the day before it, or of the last day if the alarm has
  forgotten the window, are no more than the limit (`Windowed`); and that any day
  has at most two limits of them (`Twice`), an argument about
  cardinalities. The operators' page: `DeskInv` follows the reports an operator has
  not seen: they come after the cursor of the next request, in or after the
  answer under way, or after a page that is full (`RequestLeads`, `Further`).
  That a page of a finite list holds all of it, or is full and the rest comes
  after it (`PageOrFurther`), follows from the order of the reports, by taking of those
  left out the one with the fewest above it. `DeskIsOneOperator`: what the page
  does on the server is what `Moderation` lets operators do.
- `ChainProofs`: type correctness and seven properties of the V2 program. Its
  inductive invariant adds `Coherent`, which says how state, current guardian,
  deadline and slots belong together, because a handoff is safe only if the
  slots did follow the assignment before it. That a pool is shared exactly is a
  sum over a set that only TLC can enumerate: `Shares` says that whoever holds a
  rank was paid the whole part, and one more below the remainder, and the ranks
  below the remainder are as many as the remainder (`SharesAddUp`). What a sum
  over a finite set does when one member is added is shown by a smallest
  counterexample on the set's cardinality, which needs no induction theorem. Of a
  linked journey, `LinkInv`:
  whoever authorized a transaction on a copy of the binding that is still fresh,
  or holds the lease, finds nothing waiting (`Exclusive`); the outbox says of a
  transaction only what became of it (`Agreeing`); and a reconciliation follows
  what was submitted and asks for a receipt only when nothing more can come of
  it (`Follows`). Of the first version of the program: the reputation of a
  guardian counts exactly the completed tasks that name them, an argument about
  cardinalities, and `Presence` relates deadline, acceptance and last check-in,
  from which a paid guardian was there.
- `CommunityLedgerProofs`: whatever the number of guardians and the length of
  the journal, worker and program accept the same events. The two texts test
  different things (one asks for a present guardian, the other for a positive
  assignment number), so `Consistent` relates guardian, assignment, latest
  assignments and the set of those who checked in. Of publication,
  `PublicationInv`: only the one alarm writes rows, so the row it read is the one
  stored until it stores the next (`Publisher`); a transaction that may land is the
  submission its row has stored (`Submissions`), hence a new one is signed only
  when no other of that record may land; and a correction that is under way is
  not settled, because the audit waits for it (`Corrections`). Of the outbox,
  `OutboxInv`: what a journal told every event up to each one would know is a path
  through the outbox whose end `Tells` what the journey says (`CaptureInv`), and
  the journal stands at one point of that path (`LedgerInv`), since it accepts in
  order and refuses a gap. Capturing is followed segment by segment (guardian,
  check-in, end), each saying what of the journey it tells and what it leaves.
  Of the pool, the same invariant says that points so far are the shares of those
  credited (`Credits`). The code ranks by sorting references and folding over the
  list, so a rank is first shown to be the number of lower references, and the
  whole part times the guardians plus the remainder to be the pool.
- `RemovalProofs`, of the directory: `ClosedStaysClosed` compares what any two runs have to say
  of the journey, under way or not yet sent: the one with the later version does
  not offer a request that the other reports as ended. It supposes that only
  closed journeys are erased; the deletion of the rider's account
  (`RiderMayLeave`), with which it is not true, is described below. Of deletion,
  `ErasureInv`: whoever has a row in the journal is deleted, and a completed row
  stands for an account that is empty and a journey that was scrubbed (`Kept`,
  `Fulfilled`); a run of the deletion relies, after each of its awaits, on what it
  or another run has done before it (`Achieved`), none of which anybody undoes;
  an erased journey names nobody (`Vacant`). Two runs on one row are harmless since
  each step leaves what the other has achieved. Of restoration: governance is the
  last an export reads, so an archive protects at least whom governance protected
  when its export began (`Archived`, `Exporting`); the restore has merged that
  protection before it asks for any status, and between the merge and its end
  nobody else is at work (`Returned`). The proof holds for any number of exports,
  restores and failures, which the scenes of `MCErasure` bound.
- `DeliveryProofs`, of notifications: what is sent is authorized at that moment,
  and what was acknowledged stays so (`NoticeInv`: an acknowledged notification
  has no job, so nobody begins to send it, and whoever is sending it looks at
  its status before writing the answer). Of thanks: `OneBanner`, since a journey
  has at most one receipt (`Choose` looks again after its calls), banners are
  kept by the receipt's number, and a call that was accepted leaves a banner of
  the receipt's kind or an erased account behind it. Of points: `CreditedOnce`,
  `NobodyForgotten` and `DeletedEarnNothing`, for any guardians, pool, failures
  and rulings. The inductive invariant adds `Amounts`: whoever holds an amount
  (an open entry, a run between its calls, a credit call that outlived its
  caller) holds the share, so it does not matter which of them reaches the
  account; and `Known`: a settled entry, and a run about to settle one, has a
  credit or a ruling behind it. `LoopKeeps` proves both for the loop from one
  call to the next, which `Settle`, `Refuse` and `Record` share. `Shape` leaves
  out the upper bounds of `TypeOK`, which the proof does not need.

The inductive invariants were checked by TLC on the runs' instances before they
were proved. The proofs assume what the ASSUME of each module says of its
constants: that bounds are numbers, sets of members finite, placeholders such as
`Nobody` or `NoKey` no members, and limits in the order the code has them.

Only model-checked: liveness, which TLAPS cannot reach. Every invariant and action
property of the passing runs is a theorem. The inductive invariants of
`CommunityOutbox` and of the pools of the V2 program speak of paths and sums and
were found with the proof; TLC checks the properties they imply.

## Findings

- `help_dropped`: help that is asked for within thirty seconds of a queued notice
  of missed check-ins reaches nobody. Its own notice falls to the rate limit
  (`trips.ts:344`); the earlier one loses its authority, for the cause is now
  `explicit_help` (`assistance.ts:19-22`), and is dropped. `docs/AI_DESIGN.md:111`
  says "Run the help workflow immediately without waiting for a model; preserve
  active requests".

Noticed while modelling. The actions show each of them; no run is kept for
them, and where a property makes an exception for one, its comment says so.

- Community records: a journey that expires under a live delegation is recorded
  as cancelled, because capture looks at the last event only
  (`community-events.ts:79`). An accepted correction may be overwritten by the
  result of an older one (`community-ledger.ts:257-262`). A record may show the
  signature of a transaction that never landed, as the receipt is read before
  the block height (`community-chain.ts:85-87`), although `community-chain.ts:82`
  says "Reconcile deterministic finalized receipts before preparing another
  signed transaction."
- Directory: a handler that runs during the purge of an open journey can list
  its request again (`trips.ts:1352-1355`); the directory call of a purge is not
  repeated after a restart (`trips.ts:1354`), although `docs/DATA_POLICY.md:47`
  says "The purge removes private state and directory visibility".
- Rewards: a suspension between the status call and the credit call does not
  block the credit (`trips.ts:1172-1177`), against `docs/OPERATIONS.md:162`. A
  settlement that saw a suspension shows no credit for an account that another
  settlement has credited (`trips.ts:1175`).
- Personal agents: input that arrives between the runtime's last `updates` and its
  `assess` is answered with 409, which the script takes for an error: it releases
  the delegation as `model_unavailable` instead of asking again. One heartbeat or
  poll that fails ends the runtime (`scripts/personal-agent-watch.ts`).
- Model on the machine: an error while the schema or the result is written hides
  that the cleanup has failed too (`scripts/codex-demo.ts`).
- Paid model: the branch of `runOpenAIAssessmentWithDeadline` that takes the usage
  of an error after the deadline (`openai-provider.ts:274`) never finds one, for
  the abort has rejected before.
- Web client: what an action or the picker shows does not call off a poll under
  way (`page.tsx:111-116`), which may show the journey as it was until the next
  one, whereas the cards do call it off. A form still waiting when the tab signs
  out signs it in again with its answer (`account-access.tsx:41`). So does the
  account panel, whose recovery code stays on it when the account is deleted or
  another session begins, until the panel is closed (`account-panel.tsx:75-88`),
  although the panel says "This code is shown once". An answer of the operators'
  page that arrives after "Disconnect" connects it again and shows its reports
  (`admin/page.tsx`).
- Personal agents: a check-in of the rider while a runtime is connected sets a
  next automated check, which the alarm does not serve in that mode
  (`trips.ts:1223`) and `schedule` does list, so the alarm comes again every
  100 ms until coverage ends. Requesting and revoking a delegation in automated
  mode moves the next automated check to a full interval from now.
- Notifications: attempts are bounded only after an answered failure; a call that is
  interrupted costs none (`trips.ts:1139`, against `worker/README.md:70`).
- Linked journeys: preparing a second proposal overwrites `binding.proposal` before
  it is signed, so a guardian who has accepted on chain by the first one is
  refused access (`trips.ts:1283`; the comment at 1260 expects an accepted
  proposal to be applied). A candidate whose application has expired cannot
  withdraw it. Suspension is asked once, by governance's answer at preparation.
- Accounts: a recovery clears a registration under way (`accounts.ts:218`); when a
  second one fails, it releases the name for both (`identity.ts:240`). Hence the
  exception in `UsernameLeadsHome`. `changeIdentity` deletes all sessions before
  the new one is issued; a guest without wallet whose request dies between them
  is locked out (`identity.ts:293-295`).
- Deletion: the journal lists the journeys the account knew when it began. One
  whose synchronization had not reached the account, or which the person joins
  by an act authenticated before, is never scrubbed, although
  `docs/DATA_POLICY.md:47` says "Removing an account also removes or anonymizes
  its private participation in affected journeys". `CompletedIsErased` makes exactly these
  exceptions. A synchronization that took its list of people before adds the
  journey's identifier to the emptied account (`trips.ts:1192-1195`). The cron
  stops at the first deletion that throws, and those behind it wait
  (`index.ts:285`). A restore reads the status of people before it stores a
  journey, which is safe only as the recovery environment is closed
  (`docs/OPERATIONS.md:140`).

## Plan

Done: all parts of the inventory, as far as the notes in `PROJECT.json` say.

Next, the most important behaviour first:

1. The member index of CommunityLedger: mirror, totals and pages against
   corrections.
2. Wallet reservations of a backup; deletion and restoration of the chain
   bindings.
3. Demo journeys, which share handlers with real ones.

Theorems planned: that `CommunityOutbox` implements a plain log, and that what is
proved of `AgentPlan` carries over to the plans of `AgentHarness`.

## Not modelled

The HTTP router (`index.ts`), which keeps only limit counters; deployment
scripts, which hold no state that the service reads; of the web client the
rendering, maps, forms before they are sent, the operators' panel of community records, and the cards
of profiles, gratitude and community records, whose calls touch nothing else the
page shows; the tool server for other runtimes (`scripts/personal-agent-mcp.ts`), which is any
caller of `PersonalAgent`; the verification scripts of `chain/scripts` and
`scripts/verify-*`, which are tests; and what language models answer, which is
data. Inside modelled parts, each
component's note in `PROJECT.json` names what is left out.
