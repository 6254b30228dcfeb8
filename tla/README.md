# LeadFlow core API: a TLA+ model

TLA+ specifications of the protocols at the heart of this repository (a NestJS
backend on PostgreSQL for inbox, CRM, automations and finance), checked with TLC
on small instances and proved with TLAPS for every value of the constants: almost
every safety property that a run finds true is also a theorem.

- [The system](#the-system)
- [Modules](#modules)
- [Runs](#runs)
- [What is proved](#what-is-proved)
- [Findings](#findings)
- [What is not modelled](#what-is-not-modelled)

## The system

Several identical Node processes share one PostgreSQL database. There is no
broker. Whatever one part of the system wants another to do later is a row of a
table, written in the same transaction as the state it belongs to, and drained
by `@Interval` workers that run in every process:

```
 CRM, inbox, agenda ...                       executors, detectors, consumers
   | insert, in the domain transaction           | schedule / cancel / reschedule
   v                                             v
 inbox_domain_outbox ----- trigger ---->   leadflow_scheduled_timers
   |        |                                    |  PostgresSchedulerRuntime
   | relay  | fan-out, one row per consumer      v
   v        v                                 timer consumers (follow-ups, ...)
 realtime  leadflow_event_deliveries
 bus         |            |             |
             v            v             v
        automations    webhooks     analytics, lead score
             |            |
   effects on domains   POST to endpoints, leadflow_webhook_deliveries
   leadflow_automation_runs
```

The path of a lead's message through it: ingestion stores the message and counts
it into a batch; the agent runtime claims the batch when the lead falls silent,
asks the model and stores a decision; the governed-action worker carries the
decision out (a reply, a stage, a handoff); the events all of this emits reach
the automations through the outbox, and an automation distributes the lead or
arms a chain of follow-ups, which runs on the durable clock. People take
conversations over, edit deals and review decisions at any moment.

### Components

| component | state | operations | what is hard | correct when |
|---|---|---|---|---|
| leased queue (four copies modelled) | status, locked_by, locked_at, attempts, available_at, retain_until; per process: batch, current row, `running` flag | claim, re-read, settle, retry, dead-letter, reclaim, prune | leases lapse under live workers; crashes; statements outside transactions | nobody overwrites a newer attempt; settled stays settled; every row settles |
| durable clock `leadflow-automations/scheduler` | timers, partial unique index on active keys | schedule, cancel, reschedule, tick | racing calls, operations on a timer that is being fired | one active timer per key; the port's contract |
| outbox relay `inbox/services/inbox-outbox-relay` | outbox rows | emit, tick, reprocess, prune, inspect | reprocess starts the attempt count over | old publishes do not settle new rounds; every event settles |
| automation ingress, gate, execution, runs | deliveries, live and shadow runs, effects in other domains | evaluate, gate, execute actions, record | a crash between effect and record; a verdict recomputed on retry | acknowledged means evaluated; plan order |
| outbound webhooks | one log row per (event, endpoint) | dispatch, attempt, retryDue | requests that arrive but time out; retries read without a lock | acknowledged means attempted at every endpoint; twice only after a logged failure; retries end |
| follow-up chain | timers, card of the deal, message rows | detect, fire, send, log, arm the next | crash between send and next timer; two workers; refusals and failures of the channel; reply, handover or edit in between | each attempt once, to the end, and none after a stop |
| lead distribution | owner, rotation cursor inside the pipeline's metadata | distribute, patch the pipeline | lock upgrades, deadlock victims, crash before the notice, a notice that is dropped | turns in order, owners kept, a lost worker does not cost the owner the notice |
| CRM opportunities | deals, row versions, pointer of the conversation, keyed events | every command, ensure_opportunity, ownership projection | reads before the transaction, replayed keys, saves of the conversation as it was read | the pointer names the open deal; one line of cycles; a key acts once; no lost update |
| agent runtime: governed actions | decisions, actions, messages, ownership version | claim, reply, stage, handoff, settle, review | claims taken over after two minutes, provider calls without a transaction, a deal that is moved back | no external effect twice, none for an ownership that ended |
| inbound ingestion, agent batches | conversation, batches, decisions | ingest, extendDebounce, claim, processBatch, fail, cancel | entities saved as read; takeover while the model is asked; lock inversions | every message is considered, or pushed out of the window by later ones; nothing decided for a conversation that was taken |
| conversation ownership | ownershipState, ownershipVersion | transition, requestHandoff, invalidate | human against agent | part of the three modules above |
| message status, read receipts | status rank, watermark | status sync | reordered provider webhooks | not modelled |
| lead score, finance, contracts, admin, notifications, clients, team, projects, calendar, settings, knowledge, web chat, e-mail ... | records | CRUD, files, read models | little | not modelled |

`PROJECT.json` lists them all with their sources and, under `hazards`, the lines
where each can go wrong and the property that would tell.

## Modules

`SchedulerRuntime`, `OutboxRelay`, `AutomationDelivery` and `WebhookDispatch`
extend `LeasedQueue` with the variables and operations of one queue each and
compose its worker step with their handler. `FollowupChain` is composed with
`TimerContract`, which `SchedulerRuntime` implements. The other modules stand
next to these. Comments that begin with "Mutant of" mark a variant of the
definition that follows, with a plausible slip in it, which a property must
tell from the real one. The map in `PROJECT.json` gives the source lines of
every definition.

### LeasedQueue

The copy translated is that of `postgres-scheduler-runtime.service.ts`; the other
three were compared with it statement by statement and differ only in the names
of the statuses and in what the composing modules say (a skip; no pruning; a
handler with steps).

| source | TLA+ |
|---|---|
| columns status, locked_by, attempts | `status`, `owner`, `attempts` |
| `available_at <= now()` and `fire_at <= now()` | `r \in ready` |
| `locked_at < now() - 1 minute` | `r \in stale` |
| `retain_until < now()` | `r \in expired` |
| ids returned by the claim; the row being processed, its `attempts` as read | `batch[w]`; `job[w]`, `seen[w]` |
| `await consumer.handleTimer` and its end | `outcome[w]`: running, ok, skip, failed |
| ids selected by `pruneExpired` | `doomed[w]` |
| `running` flag | `Idle(w)` |
| claim transaction (SKIP LOCKED) | `Claim(w, S)`: any non-empty part of the claimable rows |
| `findOneBy` of `processOne`: found / not found | `Start` / `PassOver` |
| update to fired, published, delivered / skipped / scheduled, dead_letter | `SettleDone` / `SettleSkipped` / `SettleFailure`, each through `WriteBack`, which carries the fencing WHERE |
| the success update rejected inside the `try` | `SettleThrows` |
| process death, or the failure update throwing out of the batch | `Abandon` |
| `pruneExpired`, its two statements | `PruneSelect`, `PruneDelete` |
| the clock | `BecomesReady`, `LeaseOfAbandonedRow`, `LeaseOfSlowWorker`, `RetentionEnds` |

A restarted process keeps its name: `hostname:pid` repeats in a container, so a
worker that abandons its batch comes back with the same `locked_by`, the harder
case for fencing. `served` remembers which rows a handler returned normally for.

### TimerContract and SchedulerRuntime

`TimerContract` is the abstract specification: what `scheduler-runtime.contract.ts`
promises a user of the port, with no workers, leases or retries. `SchedulerRuntime`
adds `schedule` (its look-up and its insert are separate steps, because `FOR
UPDATE` locks no row that is not there), the unique-violation path, `cancel` and
`reschedule`. `ImplementsContract` instantiates the contract with a refinement
mapping that calls scheduled and processing timers "armed".

Transactions are single steps where PostgreSQL serialises them by row locks. A
`reschedule` that loses its insert to a racing `schedule` rolls back and changes
nothing, so it is a stutter.

### OutboxRelay

`Emit` (the insert; `available_at` defaults to now), `Reprocess` (an
administrator puts a skipped or dead-lettered event back and starts its attempts
over) and the relay worker. `requeued` and `round` are history.

### AutomationDelivery

The handler of the automation ingress is expanded into its steps: for each
matching automation either a shadow run (`RecordShadowRun`, which also stands for
every refusal) or a passed gate (`PassGate`, a count without a lock), the planned
actions one by one (`Confirmed`), and the live run (`RecordLiveRun`, after the
last action or after one that was refused or failed). What conditions evaluate
to is left open, because they are recomputed from other domains' state on every
attempt. Whether an event is mapped to a trigger is chosen in `Init`. An effect
is its idempotency key (event, automation, action); executors are other domains
and apply a key once. The `executor_not_wired` return is unreachable, because the
gate's allowlist admits only actions the module wires. The set of matching
automations is fixed for the run, and all live runs lie within one hour.

### WebhookDispatch

Ingress, dispatcher and retries: `OpenHook` / `PassOverHook` are the two results
of `claim()`, `Respond` is the end of the request (an answer, or a time-out
whether or not the endpoint took it), `LogAttempt` is `classifyAttempt` and the
update by id, and `SelectRetries` / `StartRetry` are `retryDue`, which reads rows
once and without a lock. `Internal` are the endpoints whose URL points into our
own network: their request is a rejection without a post. `cut` remembers the
pairs whose attempt ended in the middle, with its worker. This
consumer's deliveries are never pruned and its update to `skipped` is outside the
`try`, so those two steps of the queue are left out. The gate is open and
endpoints stay subscribed.

### FollowupChain

One cadence of the recipe `followup_idle_lead`, from the delivery that makes a
conversation idle to its last attempt, one await of
`LeadFlowFollowupTimerConsumer` per action. The clock is an instance of
`TimerContract`: a timer is handed over any number of times, also to two workers
at once (`refires`), until one hand-over succeeds; `SchedulerRuntime` is proved
to keep that promise.

| source | TLA+ |
|---|---|
| `resolveSchedule` and the switch on the card | `ReadCard` |
| the conversation, the last inbound message, who owns it | `ReadThread`, with `Retract` for the handoff's card |
| quiet hours: the same attempt under a `:defer:` key | `Defer` |
| `deliverFollowup`: effect key, earlier message found | `SendMessage` (`Unclaimed`, `Replay`) |
| the provider call: accepted; refused, which is a skip (`mapChannelResult`, 912-931); no answer, taken or not, which is a failure | `CallProvider`, `ConfirmSent` |
| `channel_result` event, the attempt on the card | `RecordChannelResult`, `RecordAttemptOnCard`, `AllChannelsFailed` |
| the next attempt's timer and its mention on the card | `ScheduleNext`, `AnnounceNext` |
| the drawer, a handoff, its return, a reply and other ends | `EditCard`, `Handoff`, `ReturnToAi`, `Stop` |

The index of an attempt is its place in the plan in force (`Position`), as in
the code, which is why an edit can make two attempts share a message key.

A refused attempt is logged as skipped and the chain goes on; one that failed on
all channels throws (`AllChannelsFailed`), so that the clock hands the timer over
again. `AtMostOneAfterStop` holds while `Untroubled` only (one effect, no timer in
two hands, no crash), because of what TLC shows otherwise: a repeated effect arms a
second chain while the first is under way, which then sends a second message after
the lead replied. For the same reason, and because an edit may bring back earlier
attempts, the order of the attempts (`InOrder`) is proved for an untroubled,
unedited chain and no more.

### OpportunityLifecycle

The deals of one conversation and every command of
`CrmOpportunityCommandService`, the patch and delete of `CrmService` and the
agent's `ensure_opportunity`. A request goes through `Read` (a patch reads the
card it will write back), `Begin` (a keyed command looks for its earlier run
before anything is locked, `Replayed`) and one transaction (`Transaction`), whose
checks are those made under the row lock. `Indexed` and `TypesFree` are the
unique indexes. What a published stage policy forbids is left open: `Refuse`.
`ProjectOwnership` and `EnsureOpportunity` take no version. A move to where the
card is returns early only if it names no place among its neighbours; otherwise the
card is written again and `opportunity_updated` is logged, a type other than that of
the first run.

`CopyConversation` and `SaveConversation` stand for every request that reads the
conversation, and saves it whole without a lock later: `sendTextForActor`
(`whatsapp-outbound.service.ts:544`), `ingest` and `ingestEcho`
(`inbound-message-ingestion.service.ts:287`, `450`), and mark read, archive,
flags, patch and the like (`inbox.service.ts:603-825`, `1009`, `1212`, `1310`,
`1454`). TypeORM writes every column in which the entity in hand differs from the
row, so `opportunity_id` returns to what it was. `marks` remembers that this
happened (`"rewound"`) and that a person reopened a closed deal (`"reopened"`).

### LeadDistribution

The executor of `assign_opportunity_owner` and `distributeOpportunityOwner`.
`LockLead` is the lead's FOR UPDATE, `Choose` the pipeline's FOR SHARE and the
strategy, `CommitTurn` the update of the cursor (which waits for the other holders
of the shared lock, `MayUpdate`), `DeadlockVictim` PostgreSQL's answer to two that
wait for each other, `Announce` the notice after the commit, which may also be
dropped (no channel, no recipient, a publish that fails and is not retried). A
delivery that is handed over again recomputes conditions, gate and caps, and may
be declined and acknowledged without the executor (`Decline`); `quiet` remembers
the leads to which either happened. People reassign and close leads;
`ReadPipeline` and `SavePipeline` are the two halves of `patchPipeline`, which may
name the metadata, and then saves the cursor it read.

### GovernedActions

What becomes of the decisions about one conversation. `Claim` takes the next
planned action by rank, or one whose claim is older than two minutes
(`ClaimRunsOut`), with no fence against the worker that had it. `Examine`
compares the ownership version; `PrepareReply`, `Persist`, `CallProvider` and
`ConfirmReply` are the statements of `sendTextForActor` in their order, with the
save of the whole conversation at the end; `ApplyStage` rechecks under the
conversation's lock; `Handoff` does not; `Finish` and `SettleDecision` end action
and decision. `Transition`, `NewInbound`, `EditDeal` and `Review` are people and
the lead. A stage is a value, not a count: `EditDeal` may move the deal back to where
it was, after which a reviewer's check (`fromStageId` only, under a key of its own,
`inbox-agent-runtime.service.ts:1761-1773`) passes a second time. `ReadConversation`
and `SaveConversation` are the requests that save the conversation as they read it, as
in `OpportunityLifecycle`; `Review` ends in such a save too. `history` remembers
deliveries, moves, the deals that were brought back and what a late write undid.

### InboundBatches

From a message to a stored decision. `ReadConversation` to `ExtendBatch` is one
transaction of `ingest`, with TypeORM's `save` as what it is, a second read and an
update of the columns that differ from the entity in hand (`Saved`), for the
conversation and again for the batch. `Claim` and `Trigger` are `claimAndProcess`
and `triggerManual`; `ReadOwner` to `Decide` is `processBatch` with the model call
between `ReadContext` (the latest `Window` messages; 50 in the code, line 367) and
`Propose`, and the row locks of its last transaction (`LockBatch`,
`LockConversation`); `RecordFailure` and `CancelBatch` update by id, whatever the
batch has become. Transactions that wait for one another in a ring are aborted
(`DecisionAborted`, `IngestionAborted`, `TransitionAborted`). `CopyConversation`
and `SaveCopy` are the other requests that save the conversation as they read it,
ownership and version included; `StoreOurs` is a message of ours, which takes a
place in the window. A paused conversation is never re-activated by a message,
because the activation policy excludes it; the code that would is unreachable.

### Proof and MC modules

`LeasedQueue_proofs` holds one lemma per group of invariants of the protocol;
the proofs of the four queues extend it and show what their own operations do.
`OutboxDelivery_proofs` has two of them, the relay and the automations that drain
what it hands over. `Crm_proofs` is about `LeadDistribution` and
`OpportunityLifecycle`, which share no variable; `FollowupChain_proofs`,
`GovernedActions_proofs` and `InboundBatches_proofs` are about one module each.
Modules that meet in a proof module prefix the names they would share
(`RelaySpec`, `LifecycleTypeOK`). The MC modules only give constants their small
values.

## Runs

Actors and rows are few because rows interact only through the key they share,
the batch they were claimed in, the lock they wait for or the conversation they
belong to, and each run has the two or three of them the interaction needs. Every
bound is a constant named `Max...` (or `Copies`, `Last`): crashes, lapses,
reprocessings, people's acts and repetitions, each with at least one in a run in
which it matters. `MaxAttempts` is 8 or 3 in the code and 1 or 2 here: one retry
shows the retry path; `scheduler` has none and leaves the backoff to `relay`. Deadlock is not checked, because every bounded instance runs
out of ids, events or acts, while the services never stop.

| run | instance | shows |
|---|---|---|
| `scheduler` | 2 timers of one key, 2 workers, a caller, one attempt, 1 crash, 1 lapse | fencing (`LeaseFencing`), `NoOverlapWithoutLapse`, `TimersSettle`, and the refinement of `TimerContract` |
| `relay` | 1 event, 2 relays, 2 attempts, 2 reprocesses, 1 crash, 2 lapses | `HolderIsCurrent` although attempt numbers repeat; `EventsSettle` |
| `automation` | 1 delivery, mapped or not, 2 automations with 2 and 1 actions, 2 workers, 2 attempts, 1 crash, 1 lapse | `DeliveredIsRecorded`, `EffectsFollowThePlan` |
| `webhooks` | 1 event, 2 endpoints of which the target check refuses one, 2 workers, 2 deliveries of the event, 3 requests to an endpoint, 1 crash, 1 lapse | `AcknowledgedIsAttempted`, `TwiceOnlyAfterRetry`, `RetriesEnd` |
| `followups` | 2 attempts, 2 workers that may share a timer (1 refire), 1 crash, calls refused, failed or lost, a lead who replies, a card that is switched off | `EachAttemptOnce`, `SentWasAcceptedUnedited`, `AtMostOneAfterStop`, `ChainIsKept` |
| `followups_liveness` | 2 attempts, 2 workers, 1 deferral, calls refused or failed and handed over again, 1 handoff and its return | `PlanCarriedOut`, `HandoffIsShown` |
| `followups_plan_edit` | 3 attempts, 1 worker, 1 edit of the plan | a counterexample to `SentWasAccepted`, see [Findings](#findings) |
| `opportunities` | 3 deals, 4 commands by 2 requests, 1 key, 2 pipelines, first and final stages, 1 save of the conversation as it was read | `OpenIsPrimary`, `OneLineOfCycles`, `KeyActsOnce`, `VersionedPatchKeeps` |
| `distribution` | 2 leads, 2 workers, a pool of two or none, 2 strategies, 1 act of people, 1 crash, notices dropped and deliveries declined | `TurnsInOrder`, `OwnerKept`, `OwnerIsTold` |
| `governed` | 1 decision of one of two plans, 2 workers, 1 event (a transition, a message, a deal moved on or back), 1 fault (a crash, a slow worker, a save as it was read) | `EffectsOnce`, `MovesEndWithOwnership`, `AppliedIsSettled`, `ActionsEnd` |
| `governed_takeover` | 1 decision, 1 worker, 1 takeover | a counterexample to `AssumedIsKept` |
| `inbound` | 2 messages, a window of 1, 2 workers, 2 attempts, 1 act of people, 1 fault (a death, a lapse, a failed ingestion, a save as it was read) | `CompletedIsConsideredUnraced`, `DecidedInCharge`, `LeadIsHeard` |

Each passing run also checks the type invariant of its module, except
`followups_liveness`, whose module `followups` covers. Symmetry is used in
`followups` and `opportunities` only, which check no liveness. A queue's `Claim`
takes any subset of what is claimable, so rows locked by another transaction are
covered. All runs finish in under five minutes with two workers; `followups`, the
largest, has about 4.2 million distinct states.

Several properties are conditional. Each condition names a case in which the code
gives no guarantee: without it TLC finds a counterexample on the instance of the run,
except that plans are edited in `followups_plan_edit` only and that a reopened deal
breaks `OneLineOfCycles` after eight commands, twice the run's. [Findings](#findings)
says what happens in these cases.

| condition | property | the case |
|---|---|---|
| `edits = 0` | `EachAttemptOnce`, `SentWasAcceptedUnedited` | the plan on the card was edited under the chain |
| `Undisturbed` | `ChainIsKept`, `PlanCarriedOut` | a stop, a handoff, an edit, a timer given up for good; for the second a crash too |
| `Untroubled` | `AtMostOneAfterStop` | two chains or two hands on one timer |
| `Outrun` | `HandoffIsShown` | another worker handled the next timer before it was announced |
| `cut` | `AcknowledgedIsAttempted` | the attempt at this endpoint was cut off, with its worker |
| `marks` | `OpenIsPrimary`, `OneLineOfCycles` | a person reopened a deal, or a save put an older pointer back |
| `back` | `EffectsOnce` | somebody moved the deal back, and a reviewer approved the same move |
| `undone` | `MovesEndWithOwnership`, `DecidedInCharge` | a save of the conversation as it was read put an older ownership back |
| `quiet`, `shared`, `taken` | `OwnerIsTold` | a notice dropped or a delivery declined; two workers at one lead; a person who reassigned it, whose choice is told instead |
| `raced`, `lapses = 0` | `CompletedIsConsideredUnraced` | a claim between `extendDebounce`'s two statements; a claim that lapsed under a live worker |
| `Excused` | `LeadIsHeard` | these races; a batch that failed, was cancelled or lost the last of its claims |

### Fairness

Nothing is fair that people, crashes or slow leases do.

- Queues (`QueueFairness`): the interval keeps firing and a handler returns or
  throws (weak fairness of a worker's steps on what it holds; HTTP calls and
  queries have time-outs), backoffs, due times and abandoned leases run out (weak),
  and a claimable row is not passed over for ever (strong, because the claim is
  `ORDER BY` age, while a row may leave the claimable set between two ticks
  through another worker).
- `WebhookDispatch` adds the dispatcher's steps, the start of a retry and the due
  times (weak), and the retry query (strong: every tick runs it, but a tick may be
  busy when the row falls due). `AutomationDelivery` is checked for safety only.
- `FollowupChain`: the clock hands over what is armed and records what succeeded or
  failed for good (`TimersSettle`), the idle event reaches its effect at least once
  (`EventsSettle`), a running handler goes on.
- `LeadDistribution`: a transaction under way goes on, and a delivery is handed
  over again (strong, because PostgreSQL's locks and its choice of a deadlock's
  victim let others pass in between).
- `GovernedActions`: workers poll, and two minutes pass for a claim that nobody
  works on (weak).
- `InboundBatches`: transactions and handlers go on, some process polls, debounce
  and abandoned claims run out (weak).

The number of crashes and lapses is finite in every run: the code has no answer to
a process that dies in every handler.

## What is proved

For any number of rows, workers, automations, endpoints, attempts and plans, deals,
requests and commands, leads, members, decisions and messages, any caps and any
number of crashes and lapses (every `Max...` is an arbitrary natural), from the
named assumptions of the modules only (`QueueAssumption`, `SchedulerAssumption`,
`RelayAssumption`, `AutomationAssumption`, `WebhookAssumption`,
`FollowupAssumption`, `LifecycleAssumption`, `SentAssumption`,
`DistributionAssumption`, `GovernedAssumption`, `InboundAssumption`). They say what
kind of value a constant is; `SentAssumption` adds that every command but a
creation names a card, as the routes do.

| theorem | statement |
|---|---|
| **SchedulerRuntime** `TypeCorrect` | `Spec => []TypeOK` |
| `KeysAreExclusive` | `Spec => []OneActivePerKey` |
| `Fencing` | `Spec => []LeaseFencing` |
| `GivenUpLate` | `Spec => []DeadOnlyAtCap` |
| `Exclusion` | `Spec => []NoOverlapWithoutLapse` |
| `SettledForGood` | `Spec => SettledStays` |
| `RetentionIsSafe` | `Spec => OnlySettledDeleted` |
| `Refinement` | `Spec => ImplementsContract` |
| **OutboxRelay** `RelayTypeCorrect` | `RelaySpec => []RelayTypeOK` |
| `HoldersAreCurrent` | `RelaySpec => []HolderIsCurrent` |
| `PublishedWasPublished` | `RelaySpec => []DoneOnlyAfterSuccess` |
| `RelayExclusion` | `RelaySpec => []NoOverlapWithoutLapse` |
| `PublishedForGood` | `RelaySpec => PublishedStays` |
| **AutomationDelivery** `AutomationTypeCorrect` | `Spec => []TypeOK` |
| `DeliveredRecorded` | `Spec => []DeliveredIsRecorded` |
| `PlanOrder` | `Spec => []EffectsFollowThePlan` |
| `SkippedInert` | `Spec => []SkippedIsInert` |
| **WebhookDispatch** `WebhookTypeCorrect` | `Spec => []TypeOK` |
| `AcknowledgedAttempted` | `Spec => []AcknowledgedIsAttempted` |
| `FirstAlone` | `Spec => []FirstAttemptAlone` |
| `TwiceAfterRetry` | `Spec => []TwiceOnlyAfterRetry` |
| `DeliveredAccepted` | `Spec => []DeliveredWasAccepted` |
| `WithinPolicy` | `Spec => []TriesWithinPolicy` |
| **FollowupChain** `FollowupTypeCorrect` | `Spec => []TypeOK` |
| `AttemptsOnce` | `Spec => []EachAttemptOnce` |
| `SentAccepted` | `Spec => []SentWasAcceptedUnedited` |
| `OneAfterStop` | `Spec => []AtMostOneAfterStop` |
| `ChainInOrder` | `Spec => InOrder` |
| `ChainUsesContract` | `Spec => Clock!ContractSpec` |
| **OpportunityLifecycle** `LifecycleTypeCorrect` | `LifecycleSpec => []LifecycleTypeOK` |
| `PrimaryIsOpen` | `LifecycleSpec => []OpenIsPrimary` |
| `CyclesInLine` | `LifecycleSpec => []OneLineOfCycles` |
| `KeysActOnce` | `LifecycleSpec => []KeyActsOnce` |
| `VersionedPatchesKeep` | `LifecycleSpec => []VersionedPatchKeeps` |
| **LeadDistribution** `DistributionTypeCorrect` | `Spec => []TypeOK` |
| `RotationInOrder` | `Spec => []TurnsInOrder` |
| `OwnersAreKept` | `Spec => OwnerKept` |
| **GovernedActions** `GovernedTypeCorrect` | `Spec => []TypeOK` |
| `ReplyGoesOutOnce`, `StageIsMovedOnce`, `GovernedOnce` | `Spec => []ReplyOnce`, `Spec => []StageMovedOnce`, `Spec => []EffectsOnce` |
| `OwnershipEndsMoves` | `Spec => []MovesEndWithOwnership` |
| `AppliedDecisionSettles` | `Spec => []AppliedIsSettled` |
| **InboundBatches** `InboundTypeCorrect` | `Spec => []TypeOK` |
| `CompletedConsidered` | `Spec => []CompletedIsConsideredUnraced` |
| `OnlyInCharge` | `Spec => DecidedInCharge` |

None of the safety properties is inductive alone. Each module's invariant
(`IInv`, `RelayInv`, `FollowupInv`, `LifecycleInv` ...) conjoins them with what makes
them so; the proofs have one step or lemma per action.

**The queue and the clock.**

- `LeaseFencing`, with which `DeadOnlyAtCap` is inductive: the failure path judges
  by the attempts it read, which fencing says are the row's own while the worker
  still holds it;
- `LockedIffProcessing`: the lock is set exactly on processing rows, so that
  "still held" is decided by `locked_by`;
- `SuccessNoted`, which carries a handler's success to `DoneOnlyAfterSuccess`;
- `CondemnedAreSettled`: ids in retention or selected for deletion are settled,
  which is why deleting by id alone is harmless here (and not in the relay);
- `OverlapInv`: until a lease lapses under a live worker, every row in hand is
  held and fresh, or settled by somebody else (`HeldOrSettled`), is in hand once
  (`InHandOnce`) and exists (`InHandExists`);
- `OneActivePerKey`.

The refinement maps a worker's write-back to firing or giving up, pruning to
forgetting, a handler's success to a hand-over, the port's operations to the
contract's, and everything else to a stutter; it needs in addition that no timer
is ever `skipped` (`NeverSkips`).

**The relay.** A settled event can come back, so `CondemnedAreSettled` is gone, and
`HeldOrSettled` becomes `HeldOrDeleted`: nobody but the holder settles a row in
hand, and the one way to lose it is a prune that had selected it in an earlier
life. `HolderIsCurrent` needs `HoldStep`: a relay finishes the job in hand before
it takes another, and never regains a row it has lost; and reprocess only touches
rows which nobody holds.

**Automations.** `LoopRecorded` says that every automation a worker's loop is
through with has a run, which an `ok` turns into `DeliveredIsRecorded`;
`PrefixApplied` that the actions before a worker's position have landed;
`ExecutingMapped` and `OnlyMappedAct` keep unmapped events apart.

**Webhooks.** The log row is updated by id without a lock, so the invariant speaks
of what every request in the air knows: a pair without a row is known to nobody
(`UnopenedIsFresh`), a first attempt is alone and its row pending
(`FirstIsFirst`), what is retried has an attempt on record and retries left
(`RetriesWereLogged`, `RetriesLeft`), a 2xx was accepted (`AnswersNoted`).
`LoopLogged` leads to a row for every endpoint, as above; and a row that is still
pending is being attempted or was cut off (`PendingIsHeld`), because retries never
touch a pending row (`RetriesAreLater`). Together they are
`AcknowledgedIsAttempted`.

**The follow-up chain.** `HandlersHold` is what a handler's locals rest on: its
timer exists, and past the thread it has an attempt. `FrozenPlan`: without edits
everybody goes by one plan, so an attempt and its index are two names of one thing
(`PlacesDiffer`: positions in a plan grow with the attempts), and the message row
found under the index is the attempt's own. On that rest `RowsTellWire` (no row,
no message; a row that says sent, a message) and `OneCall`: the insert of the
pending row lets one worker call the provider for an attempt, however many have
its timer or another timer of the same attempt. Together they are
`EachAttemptOnce` and `SentWasAcceptedUnedited`, through crashes, lost answers and
two workers. `AtMostOneAfterStop` and the order need to know where the chain is:
`OneCurrent`, at most one timer may still send its attempt or arm the next (a
handler that has armed its successor is past that, and every handler ends its
timer or keeps it, `OneHolder`); `LateInv`, after the one late message nobody is
between the check and the call; `NothingAhead`, nothing was sent that comes after
the attempt the chain is at. `ChainInOrder` needs all of them. `ChainUsesContract`
shows that the cadence takes of the clock only the steps of `TimerContract`, which
`Refinement` proves of the real clock.

**Opportunities.** Three parts, independent of each other. `DealInv`: cards come to
be in the order of their ids, status follows stage (`StatusOfStage`), no version is
ahead of the commands that wrote (`VersionsCounted`), and, while `marks` is
empty, a linked deal is never newer than the conversation's
pointer and comes after its source (`PointerIsNewest`), which makes the source of a
new cycle a deal that nothing continues yet. `KeyInv`: of the requests that have
looked for an earlier run of their key, all that share it are one command, and an
earlier run has left the very event that this command's transaction will insert
(`Principal`); so the unique index stops the second whatever it read. `PatchInv`:
what a patch read of the owner is still the card's, or the version has moved on, or
the ownership projection wrote, which takes no version.

**Distribution.** What a transaction has locked stays available
(`LockedIsAvailable`); a choice made by the rotation is still the next of the ring
when it commits, because the shared lock keeps the cursor (`TurnIsNext`); and the
cursor is the member last served until a patch was saved (`CursorIsLast`).

**Governed actions.** No lock or fence stands between two workers that hold the
same action. `ReplyInv`: only who stored the message calls the provider, once;
`MoveInv`: after a decision's move the deal's version is ahead of the one the
decision saw, so a worker's recheck under the lock fails from then on, even if the
deal was moved back; its stage differs too, unless it was, so the reviewer's
check, which compares the stage alone, fails until then, and the review ends with
it; `OwnerInv`: versions only grow unless a save put an old one back; `SettleInv`:
while a decision whose actions are all applied is still open, some worker is on
its way to settle it.

**Inbound batches.** `LockInv`: whoever writes the conversation does so alone, and
a decision's shared lock keeps writers out; `WriteInv`: what a save will write;
`ChargeInv`: if people acted since a worker read the owner, the version it holds is
behind the conversation's; `AloneInv`: without the races a batch has one worker and
is not pending meanwhile; `ContextInv`: a worker that has read the messages has read
all that were counted into its batch, except those that as many later ones as the
window holds have pushed out.

Only model-checked, because liveness under fairness (with `ENABLED`, which
fairness is made of) is beyond the prover: `TimersSettle`, `EventsSettle`,
`RetriesEnd`, `PlanCarriedOut`, `HandoffIsShown`, `OwnerIsTold`, `ActionsEnd` and
`LeadIsHeard`; and `ChainIsKept`. What the two violation runs refute has no
theorem. No recursive operator is used, and nothing is proved by induction over
data; that a set of attempts has a first one (`FirstOf`) comes from the library's
well-foundedness of the naturals.

## Findings

Two runs find what the code's own comments and tests speak against:

1. `governed_takeover` (`AssumedIsKept`): a person assumes the conversation while a
   reply is at the provider; after the answer `sendTextForActor` saves the whole
   conversation as it read it (`whatsapp-outbound.service.ts:544`), and the agent
   is in charge again.
2. `followups_plan_edit` (`SentWasAccepted`): a message's key is derived from the
   attempt's index in the plan in force (`leadflow-followup-timer.consumer.ts:457`,
   860-873). After an edit another attempt has the index; it is answered with the
   earlier message and recorded as sent, though the comment at 289 says an edit
   moves the chain instead of breaking it.

What else the models show, in the cases which the properties exclude:

- A timer key scheduled again after it fired arms a second timer; the attempt cap
  is compared only when a handler throws, so a timer whose handler kills its worker
  is handed over without end; an event put back between the two statements of
  `pruneExpired` is deleted.
- A redelivered event requests its effects again and relies on the executors'
  idempotency; the hourly cap is a count before the effects and a record after them.
- A webhook whose process dies between the insert of the log row and the answer
  stays `pending`: the redelivered event finds the row and passes it over, retries
  look for `retrying` rows only, and the event is acknowledged. This is against the
  comments: an event is delivered "once it has been *handed to* the endpoints"
  (`leadflow-webhook-event-ingress.service.ts:145-148`), and the unique index "is what
  makes that harmless" (`leadflow-webhook-dispatcher.service.ts:100-101`).
  `AcknowledgedIsAttempted` shows that the cut-off endpoint is the only one it costs.
- `patchPipeline` writes back the rotation cursor it read; the ownership projection
  overwrites an owner without a version; a deal whose successor was deleted can
  neither be reconverted nor replaced; `transferPipeline` ignores manual mode.
- Every request that reads a conversation, and saves the entity later, puts back what
  others changed in between: an older `opportunity_id`, after which a reconversion or
  `ensure_opportunity` starts a second line of cycles; an older ownership and its
  version, after which a worker may move the deal, or store a decision, for a
  conversation a person has taken. Finding 1 is the instance with a test against it.
- A keyed command that is repeated while the first run is under way may write the
  card's place, version and lost reason again, with an `opportunity_updated` event:
  only events of the same type collide.
- A person who moves a deal back makes room for the reviewer to approve the very move
  a worker has made: the reviewer's key and check do not know of it.
- A notice to a new owner that fails is not tried again: a publish error, a missing
  recipient, or a redelivery that is declined when its conditions are recomputed
  leaves the owner untold.
- A reply whose worker dies between storing the message and calling the provider
  counts as applied; a crash before `SettleDecision` leaves the decision open.
- A message behind fifty newer ones is in no decision's context, although its batch
  completes; messages of ours take places in that window too.
- A message counted into a batch that was claimed between `extendDebounce`'s look-up
  and its save is in no decision's context; so is one counted into a batch whose
  claim lapsed under a live worker. A message that arrives between claim and context
  read is considered by two decisions.
- `recordBatchFailure` and the cancellation update by id and reopen or cancel a
  batch that another worker has completed; a batch whose worker dies in its last
  attempt, or for which an earlier decision is returned, stays `processing`.
- `ingest` locks conversation and batch in the opposite order to `processBatch`, which
  PostgreSQL ends by aborting one of them.
- With two workers on one timer the announcement of the next attempt may come after
  that attempt was handled, and stays on the card of a handed-off conversation.

## What is not modelled

- The components marked `not_modelled` in `PROJECT.json`, with reasons there. The
  larger part of the repository keeps records (contracts, finance, permissions,
  agency, contacts, projects): forms, reads and single-row updates, whose
  specification would repeat the code. Two protocols among them deserve a model
  that is not here: message status and read receipts, whose rank check is a read
  before a save, and the numbering of finance documents; `hazards` has their lines.
- Wording, metrics, validation of requests and payloads, tenants (no statement
  of the modelled code crosses a tenant).
- `stopping`, which only prevents further ticks; `inspect()` and `snapshot()`,
  which only read.
- The detectors the automation ingress calls before evaluating; they schedule
  timers by idempotent keys.
- Dry runs and manual runs of automations; the admin's test delivery of a webhook, a
  closed webhook gate, endpoints that change while an event is under way.
- Deleting a conversation or clearing its messages (`inbox.service.ts:803-845`) under a
  batch or a decision; of these, only the save of the conversation is modelled.
- Recipes other than `followup_idle_lead`; media, prompts and notifications; what
  a stage policy allows; the governed actions `ensure_contact`, tags and fields,
  which run under the same claim and locks as `set_stage`.
- Wall-clock time beyond the comparisons the queries make; a sliding rate window.
