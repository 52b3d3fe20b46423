# Verification of pulsar-server

pulsar-server hires AI agents out to clients and connects them to messaging channels
(Telegram, WhatsApp, Instagram, TikTok).  It is a NestJS program: several *host*
instances serve HTTP and the channels' webhooks and run cron jobs, *worker* processes
run BullMQ jobs, and all of them share MongoDB and Redis.  There is no in-process
locking and hardly a transaction: what keeps the instances from disturbing each other is
unique indexes, conditional updates, stable job ids and one Redis lock.  These modules
model that machinery, check it with TLC on small instances and prove with TLAPS, for every
value of the constants, the safety properties those checks are about.

Paths below are relative to the repository root, `src/core` being the core layers and
`src/features` the HTTP features.

## 1. Inventory

| Component | State | Operations | Meets | What makes it correct |
|---|---|---|---|---|
| Webhook registration (`core/orchestrator/lifecycle`, `core/channels/telegram/webhook`) | `webhookRegistration` of each hired Telegram channel; one BullMQ job per bot; a Redis lock | stamp, enqueue, scan, reset, quarantine, claim, probe, register, report | hire service, Telegram, BullMQ, Redis | a row says `registered` only if it is; no hire is forgotten; stale ticks disturb nothing; attempts are counted once |
| Inbound orchestration (`core/orchestrator/incoming-message.orchestrator.ts`, `core/channels/*`) | none of its own | one run per delivered message | everything below | a message is processed once; nothing is said in a conversation an operator holds |
| Event idempotency (`core/persistence/event-idempotency.service.ts`) | `processed_events` | register if first | orchestrator | refuses duplicates and only duplicates |
| Conversation lifecycle (`core/domain/conversation`) | `conversations`: status, control mode, last activity | find, expire, close, create, recover, touch | orchestrator, inbox | one open conversation per contact and channel |
| Message persistence, agent run (`core/persistence/message-persistence.service.ts`, `core/agent`) | `messages` | insert user row, call the model, insert agent row | conversation, summary | one user row and one agent row per message |
| Quota (`core/orchestrator/quota-enforcement.service.ts`, `core/domain/quota`) | counts over `messages` and `llm_usage_logs` | check | orchestrator | bounded overshoot; the right period |
| Summary compression (`core/agent/conversation-summary.service.ts`) | `summary` messages | threshold, summarise | agent run | what leaves the context is summarised, once |
| Operator send (`features/inbox/inbox-operator-message.service.ts`) | operator `messages` with a delivery status and idempotency key | send, replay | gateway, conversation | at most one dispatch per key; a status that tells the truth |
| Inbox mutations and lists (`features/inbox`) | control mode, status, assignment, tags, read marks | change, mark, page | conversations, contacts | no change undoes another; operators clear only what is theirs; a walk shows everything once |
| Billing (`core/orchestrator/billing-generator.service.ts`, `core/orchestrator/jobs/billing`) | `billing_records`, a monthly job, a lock | schedule, generate | hires, quota policy | one record per client and period; a finished job has billed everyone |
| Hire service (`features/client-agents`) | hires with embedded channels and price snapshots | create, change status, update | webhook registration, phones | what is archived stays so; one hire per client and agent; one currency |
| Onboarding (`features/onboarding`) | a transaction over client, user, phone, hire | register and hire | hire service's stamp and enqueue | all or nothing |
| Routing, contact identity (`core/domain/routing`, `core/agent/agent-context.service.ts`, `core/orchestrator/contact-identity.resolver.ts`) | contacts | pick a hire; find or create a contact | orchestrator | a choice picks what was shown; a conversation stays with its agent |
| Sessions (`features/admin-auth`, `features/client-auth`) | sessions with an idle and an absolute lifetime | login, touch, revoke | guards, users | revoked is final; lifetimes are kept |
| Administration (`features/clients`, `users`, `agents`, ...) | clients, users, agents, personalities, prices | change status, currency | hire service | what is archived stays so |
| Catalogue (`features/client-catalog-items`) | items per client and SKU | import, bulk upsert, edit | the model | an upload has written what it reports |
| Channel adapters (`core/channels/*`) | a memory of WhatsApp message ids, per host | webhook, reply | orchestrator, providers | nothing is lost silently; one reply per message |
| Seeder, migrations (`core/persistence`) | none of their own | run at boot | every collection | hosts that boot together, or again, leave one complete set; a migration undoes nothing |
| Context suggestions, authorization guards of administrators, observability, configuration, cryptography | – | – | – | one call of a model, predicates, counters, pure functions |

What is hard: several instances and workers interleave between any two awaits; state is
read, then written unconditionally or under a predicate; jobs stall, are retried and run
twice; providers redeliver; a host dies between two writes; locks expire under their
holder; 30-minute and monthly windows have edges.  `PROJECT.json` lists the hazards at
their lines with the properties that cover them.

## 2. Plan

| # | Module | About | Status |
|---|---|---|---|
| 1 | `WebhookRegistration` | requests, reconciler, registrar, queue, lock | done, with `WebhookRegistrationProofs` |
| 2 | `AtMostOnce`, `InboundMessages` | abstract promise of inbound processing; runs of the orchestrator with the conversation lifecycle, the quota and operators | done, with `InboundMessagesProofs` |
| 3 | `Outbox`, `OperatorInbox` | the abstract outbox of an operator's sends; sends, changes, read marks and lists against the steps of the service | done, with `OperatorInboxProofs` |
| 4 | `Subscriptions` | clients, users, phones and hires: the hire service, onboarding's transaction, administration | done, with `SubscriptionsProofs` |
| 5 | `Routing`, `ConversationMemory`, `Billing` | what surrounds a run: which agent answers, what it remembers, what is billed for it | done, with `BackgroundProofs`, `ConversationMemoryProofs` |
| 6 | `Sessions`, `ChannelAdapters`, `Catalogue`, `Seeding`, `Backfills` | the rest of what keeps state | done, with `SessionsProofs`, `ChannelAdaptersProofs`, `BackgroundProofs` |
| 7 | `Background` | the components of 5 and 6 side by side | done, with `BackgroundProofs` |

Every safety property a passing run checks is now proved (section 9).  Next: the hazards of
`PROJECT.json` that no property covers yet, in particular an operator who takes over while
the model is being called, and conversations in human mode that expire.

The modules have the form of the first two: parameters as constants with a named
assumption, one action per step between two awaits, no RECURSIVE operator; each can be
extended by a module of proofs.

## 3. Webhook registration

`WebhookRegistration.tla` has one row per bot, the `webhookRegistration` sub-document of
its channel: `status`, fingerprint `fp`, `attemptCount` as `count`.  `hire` is the status
of the hire that owns it.  The repository's conditional update is `Update` guarded by
`Matches`; every write of the code goes through it.

* Requests (`client-agents.service.ts`): `Create`; `ReadHire` and `WriteStatus`, the two
  awaits of `updateStatus`; `Stamp` and `Enqueue`, whose errors the code swallows.
* Ticks (`webhook-registration.reconciler.ts`): `Acquire` the lock, `Scan` a page,
  `HandleRow` per row (reset, quarantine or claim, with the predicates of each), `Probe`,
  `Release`.  `ExpireLock` may strike while a tick runs, and then two run.
* Workers (`telegram-webhook.registrar.ts`): `Take`, `Start`, `CallTelegram`, `Settle`
  are the awaits of `process`; `Finish` is BullMQ moving the job on; `Report` is the
  fire-and-forget write of `onFailed`.
* Environment: `Stall` (BullMQ gives the job to another slot or fails it), `Evict`
  (retained jobs are forgotten), `Age` (30 minutes pass for a row), `Redeploy` (another
  `PUBLIC_BASE_URL`), crashes and failed calls (`FailTick`, `FailWrite`, `Crash...`).

Abstractions: one hire and one Telegram channel per bot; a fingerprint is the URL it is
computed from, as no code changes the token of a hire; time is whether a row is older
than the cutoff (`old`) and whether it was when a given tick computed its cutoff
(`behind`); the payload checks of `process` always succeed; the copy to the dead-letter
queue is left out, as nothing reads it.  `accepted` and `failures` are history variables.

| Run | Instance | Shows |
|---|---|---|
| `webhook_registrar` | 1 bot, 1 tick, 2 workers, 2 URLs, 1 fault | `RegisteredMeansAccepted`, `AtMostOneIncrementPerJob`, `QuarantineUnreachable`, `OnlyRegistrarLeavesRegistered`, `FreshRegistrationUndisturbed` hold |
| `webhook_reconciler` | 1 bot, 2 ticks, 1 worker, 1 fault, 1 eviction | `StuckIsReset` holds under fairness |
| `webhook_requests` | 2 bots, 1 request, 1 tick, 1 fault | `EveryHireIsPickedUp` holds under fairness |
| `webhook_retry` | 1 bot, 1 tick, 1 worker, no fault | `CompletedMeansAccepted` is refuted: a retry does not call Telegram |
| `webhook_probe` | 1 bot, 1 tick, 1 worker, no fault | `ProbeEnqueues` is refuted: a retained job swallows the probe |

Bounds.  Two workers and two URLs are what it takes for a stalled job to run beside its
successor under another URL; two ticks for a lock to expire under its holder; two bots
for a page with more than one row and for a crash between rows.  `HappyAttempts` is 2 in
place of 6 and `Threshold` 1 in place of 4: the first attempt, a middle one and the last
differ only in being the last or not, a retry is reached with two, and the counter meets
its threshold.  `MaxFaults` and `MaxEvictions` bound a behaviour, not an operation: any
one of the failures can happen anywhere.  The proofs need none of the bounds.

Fairness (`FairSpec`).  Steps of a running request, tick or worker are weakly fair:
Node.js resolves the awaits.  So is `Acquire` by some tick: the cron fires every minute;
`ExpireLock`: the key has a TTL; `Age`: time passes; `Stall` for a job whose worker is
gone: BullMQ checks for stalled jobs.  Nothing obliges users, faults, redeployments or
evictions.  Two liveness properties are stated for rows below the threshold and with as
few other actors as make the question.

Deadlock checking is off: once all bots have a finished job and no fault is left, the
system may rest.

## 4. Inbound messages

`InboundMessages.tla` follows one run of `TelegramService.handleIncoming` (`handler[h]`)
through the orchestrator.  A step is one call of the database, the model or the provider:

`Deliver` → `Claim` or `Refuse` (the processed-event key) → `Route` (no hire, several,
one) → `CheckQuota` → `Find` → [`Close`] → [`Create` → [`Refind`]] → `Gate` (part of the
step that returned the conversation: no await between) → `StoreUser` → `Touch` →
`Answer` → `Touch` → `Touch` (the `finally`) → `Send`.

`Fail` is an error of the next call: inside `AgentService.run` it becomes a canned reply,
elsewhere it ends the run.  `Crash` ends it anywhere.  Operators act through
`SetControlMode`, `ChangeStatus` and `OperatorTouch`, and `Tick` lets time pass.

`Key` is the idempotency key as the Telegram service forms it; `IndexAllows` is the
partial unique index on open conversations; `stored` is the count the message quota
compares.  `claimed`, `refused`, `declined` and `handler.human` are history variables.

`AtMostOnce.tla` is the promise: a message is claimed, then each of its effects (user
row, agent row, reply) happens at most once.  `ImplementsAtMostOnce` says every behaviour
of `InboundMessages` is one of `AtMostOnce`, `claimed` and `done` mapped to themselves.

Abstractions: one billing period; every channel has a message quota (a `null` quota never
refuses); whether the agent's tokens are used up is left open in each check; reading the
history and resolving the contact change nothing a property sees (a new contact is a
contact whose thread has no conversation); the text is left out.  Of a conversation of
several routes only the outcome is kept.

| Run | Instance | Shows |
|---|---|---|
| `inbound` | 2 messages of one contact, 2 handlers, 2 conversations, 1 tick of the clock, 1 fault, 1 status change, quota 1 of which some may be used | `OneOpenConversation`, `QuotaOvershootBounded`, `OnlyDuplicatesRefused`, `HumanConversationStaysSilent`, `ImplementsAtMostOnce` hold |
| `inbound_two_bots` | a user's first message to each of 2 bots, 1 handler | `OnlyDuplicatesRefused` is refuted across bots |
| `inbound_lost` | as `inbound`, 1 handler, 1 fault | `NoMessageLost` is refuted: at most once, not exactly once |

Bounds.  Two handlers are enough to race for the same message, the same conversation and
the same quota; two messages to race with different ones; one tick with `Timeout` 1
expires a conversation, under its readers if it comes between; a second conversation
follows the expired one.  Handlers are interchangeable and the instance is symmetric in
them.  No liveness is claimed of inbound processing: nothing retries a message, which is
what `NoMessageLost` shows.

## 5. The operators' inbox

`OperatorInbox.tla` follows requests (`req[r]`) to the endpoints of `InboxController`, a
step per call of the database or the provider, and a user's walk through the pages of a
list (`list`).

* Every request: `Call`, then `Read` (`findByIdForClient` and everything decided on it: 404,
  403, 409, 422, 400, or nothing to do), `Target` (the user an assignment is for), `Change`
  (the update, guarded by the client only), `ReadSummary` (the answer is read anew).
  `MarkRead` and `MarkUnread` write `conversation_reads`.
* A send: `Read` is its gate, then `Prior` (replay of a stored key), `Insert` (the row is
  `pending`; the unique index on conversation and key decides races), `Dispatch` (accepted,
  refused, or accepted with the answer lost), `Report`, `SendTouch`.
* `Die` ends a request anywhere: a failed call, or the host.
* A walk: `StartList` (open conversations by `lastMessageAt`) or `StartContacts` (contacts
  by `updatedAt`), then `NextPage`, whose cursor is a time and an id (`Beyond`); meanwhile
  `InboundTouch`, `ContactSeen` and the requests move the rows.

`steady`, `bot`, `held` and `moved` are history.  `Outbox.tla` is the promise of the docs
for one submission (conversation and key): recorded, delivered at most once, `sent` only
if delivered, then final.  `ImplementsOutbox` is the refinement, with `StatusOf` as mapping.

The gate comes before the replay, so a retry with a stored key is answered with 409 once
the bot has the conversation back; `docs/operations/inbox-operator-outbound-phase2.md`
lists the replay first.  Nothing a property says depends on it.

Abstractions: each conversation has a contact of its own (`seen`); times of touches are
any of `0 .. MaxTime`, as hosts' clocks differ; read marks have no time; the fields joined
for display, the filters of the list and the pages of a thread are left out (the latter
are the same scheme over messages).  Reopening a conversation may be refused by the index
on open conversations, which is `InboundMessages`' subject, so `Change` leaves it open.

| Run | Instance | Shows |
|---|---|---|
| `operator_inbox` | 2 conversations of one client, an owner, two operators, an inactive user and another client's owner, 2 requests or 1 and a walk, 1 fault, page size 1 | `ImplementsOutbox`, `PendingEnds`, `NothingSentInBotMode`, `ClearsOnlyOwn`, `NoLostUpdate`, `ChangeWasInForce`, `ListedOnce` hold |

Operators may clear what is theirs or nobody's.  The code checks that on the document it read
and then writes unconditionally, so the rule holds only of requests under which the
assignment did not change (`steady`, in `ClearsOnlyOwn`); without that condition it is false
of the model and of the code (section 8).  A crash between the insert and the dispatch leaves a row `pending`: a replay
returns it and sends nothing, which is why `Outbox` has such a submission delivered at most
once, and why `PendingEnds` does not speak of it.

Bounds.  Two requests race for one key, one assignment, or send against a change of mode;
a third adds no kind of race, since each step looks at one other request's effect at most.
Two conversations with times of 0 and 1 have every order and tie; with a page of one, each
row is a page end once.  Fairness (`Spec`): the steps of a running request, as Node.js
resolves awaits; it is used for `PendingEnds`, where a request that died is excepted, since
its row stays pending for ever.  The system may rest, so deadlock is not checked; the same
goes for the runs below.

## 6. Subscriptions

`Subscriptions.tla` has requests of administrators and of onboarding.  A hire
(`ClientAgentsService.create`): `ReadClient`, `ReadCatalogue`, `CheckExisting`,
`FindPhone`, `InsertPhone`, `InsertHire`, each alone.  Onboarding
(`OnboardingService.registerAndHire`): the same in a MongoDB transaction, from
`FindEmail` and `OpenTransaction` through `FindPrice`, `FindPhoneInTransaction` and
`InsertPhoneInTransaction` to `Commit`; what it inserted is seen by nobody until then,
blocks others that insert the same key (`EmailLocked`, `PhoneLocked`), and is gone after
`Abort` or `Die`.  `Publish` comes after the commit.  Statuses of clients, users, agents
and personalities, of hires, a client's currency, and a hire's personality are each a read,
a check and an unconditional write.

Abstractions: prices are the currencies an agent has one in; the credentials and channels
of a hire are valid or not (`valid`); the webhook registration that follows is
`WebhookRegistration`'s subject, which has the same `Create` and `WriteStatus`.

| Run | Instance | Shows |
|---|---|---|
| `subscriptions` | a client with a hire, another, 2 agents, 2 currencies, 2 phones, 2 e-mails, 2 requests of 23 kinds, 1 fault | `Unique`, `PhonesAccountedFor`, `MixedOnlyByConversion`, `ArchivedUnlessRaced` hold, `RequestsEnd` under fairness |

A change of a hire's status that was decided on an earlier read may bring an archived hire
back (section 8); `ArchivedUnlessRaced` says that nothing else does.

Bounds.  Each property relates two requests: the one whose check is stale and the one that
made it so.  Fairness: the steps of a running request, including one that waits for
another's transaction, which ends.

## 7. The background components

Eight components share no state with each other.  `Background.tla` puts them side by side;
since a step of one changes nothing another reads, a property of one holds of all together
if it holds with the others at rest, and so one run checks them, each behaviour moving the
one that `focus` names.  That a behaviour of the whole is a behaviour of each part, so that
what is proved of a part holds of the whole, is the theorem `Components`.

* `Routing`: `FindHires`, `ResolveRoute` (active agents; a single candidate, a number, a
  name), `ReadHistory` (last conversation, keywords, the model, or the list to choose from),
  `BuildContext`, `Identify` (the contact), `Store`, beside hires and agents that are
  switched and agents that are renamed (`RenameAgent`).  Names are places in the alphabet,
  several agents may have one, and each message reads them anew.  A list that was sent is not
  remembered by the code: a number counts the candidates of its own moment, sorted by the
  names of its own moment.  `NumberPicksShown` says when that is the list's line:
  when the candidates are those of the list again, under the same names (section 8).  The agents of
  a message's hires are read each on its own, all at once (`Promise.all`), and in one step
  of the model.  Texts are what the strategies see of them: a number, names, words.  A client
  without a key of its own is answered with the server's: no property is about it.
* `ConversationMemory`: turns of an agent that overlap, each followed by
  `checkAndSummarizeIfNeeded` in the background.  Messages stored, or read by a second
  summary, while a summary is generated are the exceptions of `CoveredOnce`; they are
  hidden without being summarised, or summarised twice.  The text of a summary is never
  read back into a prompt, so that summarising means forgetting, and an empty summary
  hides messages as a full one does.
* `Billing`: calendar arithmetic with JavaScript's overflow (`MonthBack`), compared with
  its comment on each date (`PeriodRight`); the monthly job with retries and stalls.
* `Sessions`: requests with one cookie that overlap with a logout, an expiry, the sweep and
  a user switched off.  `find` and the `now` that follows are one step.
* `Seeding`: hosts that boot together or again, go through the catalogue, the first user and
  the rest.  The first user stands for the rest: a crash after it leaves the rest unseeded
  for good (`cut`).  Agents have no unique name, and two hosts may create one each.
* `ChannelAdapters`: webhooks of WhatsApp (three providers), Instagram and TikTok, delivered
  again at will to two servers that restart.
* `Catalogue`: an upload through extraction, merging by SKU and chunks in transactions, beside
  another and edits.
* `Backfills`: the three migrations beside traffic and other boots.  The index on users'
  addresses ignores case, not blanks (`Collated`): a user whose address was stored with a
  blank may stand beside one without, and the pass that takes the blank away fails on it.

| Run | Instance | Shows |
|---|---|---|
| `background` | 3 hires of 2 clients with 2 agents, 3 names, 2 messages, one hire or agent switched or renamed; 2 turns, 6 rows; 1 session, 2 requests at a time, 6 ticks, an idle lifetime of 2 with a throttle of 3, and of 3 with one of 1; 3 anchors, starts in February, April and December, 2 workers, 2 attempts; 2 hosts, 3 boots, 2 breaks; 3 webhooks, 2 servers; 2 uploads of 3 SKUs, chunks of 2; 2 conversations, 3 mailboxes with one address, one typed with a blank and two that differ in case, 1 or 2 migrations at a time | `CoveredOnce`, `RevokedStaysRevoked`, `LifetimeBounded`, `PeriodRight`, `DoneMeansSeeded`, `LossExplained`, `UploadReportsTruth`, `NumberPicksShown`, `StaysWithAgent`, `CompletedMeansBilled`, `FilledNotOverwritten` hold |
| `backfill_rerun` | the same | `RerunsAreNoOps` is refuted: conversations opened since a pass lack what it fills |

Bounds.  Two of each actor race; the larger numbers are what a case needs: three hires, so
that a list has two of one name in different clients; three names for two agents, so that a
renamed one changes places, or takes the other's name; six rows, for two summaries with
messages before, between and after; three boots, so that a third meets what two left; two
breaks, to use up the attempts of an onboarding.  A chunk of two rows and a list of three
end in a short chunk; a chunk of one for one of two migrations makes their chunks overlap.
An anchor on the 2nd never overflows, the 30th does in February, the 31st in every short
month.  `Attempts` is 2 in place of 3.  No fairness is assumed: every property is a safety
property.

## 8. Disagreements found

Described with their lines in `PROJECT.json`.

* A Telegram registration that fails transiently is never retried: the second attempt
  meets its own fingerprint and reports success (`webhook_retry`).
* A reconciler's probe is swallowed by the retained job of the same id (`webhook_probe`).
* Quarantine is unreachable: the query excludes what the loop quarantines
  (`webhook_registrar`, and proved).
* First messages of one Telegram user to two bots collide in the idempotency key
  (`inbound_two_bots`).
* A message registered and then failed is lost, where the architecture contract asks for
  exactly once (`inbound_lost`).
* An archived hire cannot be hired again: the index refuses what the service and its test
  allow, and the request is answered with 409 (`subscriptions`).
* An archived hire comes back when another change of its status, decided on an earlier read,
  is written after it was archived (`subscriptions`).
* An operator clears a colleague's assignment made after the conversation was read
  (`operator_inbox`).
* A number that answers a list may pick another hire than the one beside it (`background`).
* A client's currency may change under its hires; its total then fails (`subscriptions`).
* Phones without a hire are possible outside of onboarding's transaction (`subscriptions`).
* By default no request extends a session: the touch throttle is longer than the idle
  lifetime (`background`).
* Billing periods of late anchors are wrong before the anchor day after a short month,
  and may be empty (`background`).
* Conversations opened since the last boot lack `clientAgentId`: they are missing from the
  inbox's filters and operators cannot send in them (`backfill_rerun`).
* A refused reply drops the rest of an Instagram webhook (`background`).
* Clearing a catalogue item's currency leaves its amount (`background`).

## 9. Proofs

`WebhookRegistrationProofs.tla` proves, from `ConstantsAssumption` only and for any sets
of bots, requests, ticks, workers and URLs:

* `TypeCorrect`: `TypeOK` is inductive.
* `RegisteredIsAccepted`: `RegisteredMeansAccepted`.  The call and the write are two steps
  and the row may be rewritten between them, so the invariant is strengthened by
  `WorkersAccepted`: a slot about to write `registered` holds a fingerprint that was
  accepted.
* `NothingIsQuarantined`: `QuarantineUnreachable`.  The row alone is not inductive, since
  a tick works from a page it read earlier: the strengthening (`QuarantineInv`) says every
  row of a page has a count below the threshold, because the query asked for that, and a
  bot without a row has no count.
* `OneIncrementPerJob`: `AtMostOneIncrementPerJob`, with the cardinality of the set of
  slots that still have to report, for finitely many workers.
* `RegistrarLeavesRegistered`: `OnlyRegistrarLeavesRegistered`, by the predicates of the
  conditional updates: none but a registrar's matches a row that is `registered` and fresh
  (`RowChange` lists who can change a row of which status; it rests on `QuarantineInv`).
* `FreshStaysUndisturbed`: `FreshRegistrationUndisturbed`.  A tick compares the row with a cutoff
  it computed earlier, so the strengthening (`BehindIsOld`) says that what was older than that
  cutoff is old still, unless it was written since.

`InboundMessagesProofs.tla` proves, from `InboundAssumption` only and for any channels,
contacts, messages, conversations, finite set of handlers, timeout and quota, every
property the run `inbound` checks.  `Course` says which stages each step takes a run to;
the proofs that follow need no more of most actions.

* `TypeCorrect`: `TypeOK` is inductive.
* `OneOpenPerThread`: `OneOpenConversation` is inductive as it stands: `NoneOpened` covers
  the steps that open nothing, `OneOpened` the two that open one (`Create`, reopening).
* `OvershootBounded`: `QuotaOvershootBounded` counts the runs in flight with the stored
  messages, which makes it inductive; a run joins the flight only while the count is below
  the quota, and leaves it as its message is counted.
* `Refinement`: `ImplementsAtMostOnce`.  `OnceInv` says that a claimed message is worked
  on by one run at most, and what is still ahead of that run (`Ahead`) has not been done.
* `KeysDecide`: `OnlyDuplicatesRefused`, under the hypothesis that two messages with one
  key are the same message.  This is the hypothesis `inbound_two_bots` violates.
* `HumanStaysSilent`: `HumanConversationStaysSilent`.  `HumanInv` says that the
  conversation a run works on was not in human mode ever since the run began: the gate
  saw it in bot mode, or the run created it.

`OperatorInboxProofs.tla`, from `InboxAssumption`, for any conversations (finitely many),
users, calls, requests and page size.  `IInv` is `Types /\ RequestsStand /\ OneRow /\
ShownBeforeCursor`:

* `TypeCorrect`: `TypeOK`, with what it says of tags: `Normalise` yields trimmed tags without
  blanks or repetitions.  `Normalise` keeps the k-th of the places it keeps (`Nth`), and a
  lemma shows that there is a k-th.
* `Refinement`: `ImplementsOutbox`.  Which status a submission has depends on all requests
  with its conversation and key, so `OneRow` is needed: at most one of them has inserted a
  row, whether or not it still lives.
* `SuccessWasInForce`, `BotModeSendsNothing`, `OperatorsClearOnlyOwn`, `ChangesKeepOthers`:
  `RequestsStand` says, stage by stage, what a request may still rely on of the moment it
  read the conversation; the history variables are exactly what makes this inductive.
* `WalksListOnce`: `ListedOnce`.  `ShownBeforeCursor` says that rows nobody moved since the
  walk began are shown if and only if they come before its cursor.  It rests on the order of
  the pages being total, on finitely many rows having a first (`SortExists`), and on `Beyond`
  agreeing with that order.

`SubscriptionsProofs.tla`, from the three assumptions of `Subscriptions`, for any clients,
catalogue, currencies, phones and calls.  `IInv` is `Types /\ RequestsStand /\ Born /\
Exclusive /\ Unique /\ HiresFit /\ PhonesUsed`:

* `TypeCorrect`, `NothingTwice` (`Unique`): `Exclusive` says that the transactions under way hold
  different e-mails, and those about to commit different phones, which is why a commit may
  publish what it inserted.
* `PhonesAreAccountedFor`: a phone that no hire uses has its request still to come or ended in
  failure (`PhonesUsed`).  `MixedByConversion`: a hire is in its client's currency unless that
  was changed since the client was born (`Born`, `HiresFit`), also for one that is priced, but
  not yet inserted.  `ArchivedStays`: what is archived is changed by stale requests only.

`SessionsProofs.tla` (`SessionsInv`): `SessionsTypeCorrect`; `RevokedIsRefused`, since what
an accepted request has read is of the one session its cookie ever had, and was read before
that was revoked (`VisitsHold`); `NoneOutlives`, since the expiry of a row, and of the copy a
touch works from, is within the bound computed from `created` and within the idle lifetime
of the time it was last seen (`RowsFit`, `Fits`).

`ConversationMemoryProofs.tla` (`MemoryInv`): `MemoryTypeCorrect`; `SummarisedOnce`
(`CoveredOnce`), with `InOrder` (there is a latest summary, and each covers earlier rows only)
and `UpToDate` (but for the rows that are excused, a summary being generated is of the context
there is, and what two of them read is excused).

`ChannelAdaptersProofs.tla` (`AdaptersInv`): `AdaptersTypeCorrect`, which includes that no
message is replied to twice: what is not registered has no reply
(`RegisteredFirst`), and a run about to answer or send has registered its message, which has
no reply yet and is in no other run's hands (`RunsFit`); `LossesExplained`, since what a server remembers it has handled
(`RememberedHandled`).

`BackgroundProofs.tla`:

* Billing (`BillingInv`): `PeriodsRight` for every anchor and calendar, by cases on where
  `MonthBack` lands; `CompletedAreBilled`, since who was hiring all
  the while and is no longer in the worker's list has a bill, or is about to have it
  (`WorkFits`).
* Routing (`RoutingInv`): `NumberPicks`, `ConversationsStay`, for any hires, names and texts, and
  any changes between two messages.  A message's candidates are finitely many
  (`FoundFinite`), each hire among them once under the name read for it, and by `SortExists`
  they can be listed in exactly one way: equal candidates make equal lists.
* Backfills (`BackfillsInv`): `FilledAndKept`; once a chunk was
  short, what is still owed is in it, and unless the passes were cut off at the cap nothing is
  owed when the loop is left (`PassFits`).  Users that lack the normal form were all there
  when a pass began, and are owed; once none lacks it, the addresses that are
  stored change no more and two that are equal stay so, so that a pass which could not build
  the index is justified for good.
* Catalogue (`CatalogueInv`): `UploadsReportTruth`, with `UploadFits`: what an upload has
  committed is a prefix of its list, and an item it wrote last shows a row of that prefix.
  `UpsertsShow` says what an item is after rows in any order; `CatalogueTypeCorrect` needs of
  it that no row makes a price without a currency.  Recursive functions are shown to exist
  by `AlongNumbers`.
* Seeding (`SeedingInv`): `DoneIsSeeded`.  As long as no boot was cut short, owners are missing
  only while some host is on the way to register them (`OnTheWay`), no two hosts work on the
  same owner (`OneWorker`), an owner that is there is seeded or worked on (`WorkedOn`), and
  the member that host is about to insert is still missing (`TeamLeft`).  `SeedingTypeCorrect`: nothing that has an index is seeded twice.
* `Components`, and from it `PartsHold`, `PartsStep` and `BackgroundTypeCorrect`: what the run
  `background` checks holds of the composition without its restriction to small instances.

Induction over numbers is by the least counterexample (`LeastNat`, from the library's
`NatLessThanWellFounded`), since the induction theorems of the library cannot be used.
Each proof has a lemma per kind of actor and in it a case per action; `PTL` closes the
temporal step.

What is assumed of the constants, beyond their types:

* Calls are what the DTOs let through (`InboxAssumption`, `CallsAssumption`).
* The collections begin as their unique indexes allow, each hire in its client's currency and
  with its client's phone (`InitialAssumption`).
* A provider repeats a message only by repeating its webhook, and a TikTok webhook has one
  event, as its controller reads one (`AdaptersAssumption`).
* A month has 28 to 31 days (`BillingAssumption`); there are finitely many hires, and
  names have an order (`RoutingAssumption`); there are finitely many conversations
  (`InboxAssumption`) and handlers (`InboundAssumption`).
* Addresses that are equal but for their case, as typed or one of them in normal form, have
  the same normal form (`BackfillsAssumption`).
* The seed data names no address twice: a member of a team is no owner and in no other team,
  as in `seed-data.json` (`SeedingAssumption`).
* Rows of uploads satisfy `clientCatalogItemUpsertSchema` (`CatalogueAssumption`).
* Markers are no identifiers: `Nobody` is no user, `NoSession` no row, the states of a job no
  workers, `"edit"` no upload; migrations of different kinds are different.

Only model-checked: the liveness properties (`StuckIsReset`, `EveryHireIsPickedUp`,
`PendingEnds`, `RequestsEnd`), since liveness under fairness and ENABLED are out of the
prover's reach.  The refuted properties (`CompletedMeansAccepted`, `ProbeEnqueues`,
`NoMessageLost`, `RerunsAreNoOps`, and `OnlyDuplicatesRefused` across bots) have
counterexamples, no proofs.

## 10. Not modelled

* The text of prompts, of the ambiguity list and of suggestions, the score of a match, and
  what the model says: the properties do not tell them apart.
* Token counts and costs: the token quota is the same check as the message quota, over
  another count; amounts of bills and totals are data.
* Signatures and formats of webhooks, and the encryption of credentials: pure functions of
  one request.  The gateway's sends are their outcome in `OperatorInbox`; on WhatsApp they
  need the hire's own credentials, without the environment's fallback that a reply has.
* The pages of a thread, the channels and counts shown in the inbox: reads without control
  flow of their own, or the same paging over messages.
* Sessions and guards of administrators: the code of `Sessions` over another collection.
* Dead letters, job metrics and queue health: written, never read back.
* Configuration and cryptography: evaluated once, or pure.
