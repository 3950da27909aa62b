# A formal model of MAIM

MAIM is a chat platform whose bots do durable work. A person asks a bot
something, the bot *accepts a run*, workers execute it over many model calls,
people add input, stop it, resume it or take it over, and the result becomes one
message of the conversation. Everything is rows in PostgreSQL, leases on those
rows, Kafka topics between the services and Redis in front of the devices.

This directory models that core in TLA+, model-checks it on small instances with
TLC and proves what matters most for every instance with TLAPS.

## 1. Inventory

| Component (source) | State | Operations | Correct when |
|---|---|---|---|
| **Run lifecycle** `bot-service/internal/run/{worker,agent,authority}.go`, `repo/run_repo.go` | `bot.runs`, `bot.run_outbox`, `bot.run_trajectory`, `bot.run_model_calls`; goroutines of the "execute" and "output" pools | Claim, Renew, Complete, Retry; execute, advance, the agent loop, modelRound, queueOutput, publishOutput, fail, confirmBuiltinStop; reconcile | one worker drives a run, nothing is computed or sent twice, no input is swallowed, a run ends or waits for a human |
| **User control** `run/executor.go` (Control) through `RunRepo.Report` | the same rows, `run_receipts` | input, resume, takeover, stop | a stop holds, no order of commands strands a run |
| **Publication** `message-service/.../sendBotReplyLogic.go` | messages, receipts by output key | SendBotReply | at most one message per output key; none for a run that is stopping |
| **Acceptance** `run/service.go`, `consumer/handler.go`, `run/{rules,activity}.go`, `pkg/botpolicy` | `bot.runs`, submission keys, bindings with the versions of their settings | Handle, ObserveActivity, ReplyInput, Accept, TriggerRules | a message has one turn with a bot it mentions and with another one per matching rule, on grounds that stood when it was sent; what is due is accepted |
| **External actions** `run/actions.go`, `action_recovery.go` | `bot.run_actions`, grants | prepare, approve, invoke, recover, reconcile | a write is called at most once, and an unknown outcome waits for a human |
| **Third-party executors** `run/executor.go` (ExecutorUpdate), `delivery.go` | lease, delivery and stop status of a run | deliver, ack, claim, update, confirm stop | a superseded executor changes nothing |
| **Delegation** `run/delegation.go`, `repo/delegation*.go` | the tree of runs, its budgets | delegate, consume, stop children | the budget of a tree holds; a stop reaches every descendant |
| **Sources, compaction** `run/{sources,compaction}.go` | provenance, checkpoints | refresh, compact | revoked material is in no later answer |
| **Inbox synchronisation** `message-service/internal/{svc/inbox_change,repo/outbox_repo,dispatcher,consumer/inbox_writer,repo/inbox_repo}.go`, `syncMessagesLogic.go`, `web-client/src/services/messageSync.ts` | publication sequence and outbox of a conversation, Kafka partition, stream, entries and applied changes of a user, position of a device | PublishInboxChange, dispatchBatch, BatchInsert, ReadPage, Prune, SyncMessages | a device that pages from its position misses nothing |
| **Messages, conversations** `sendMessageLogic.go`, `repo/{message,conversation}_repo.go` | rows and sequence numbers | send, edit, recall, membership | a submission creates one message |
| **Connections** `pkg/connections`, `realtime-service/internal/{transport,session,handler}` | routes in Redis, sessions and write queues of a node | register, refresh, remove, deliver, replace, drain | an old incarnation never touches a new one; nobody waits for a dead session |
| **Message search** `message-service/internal/consumer/search_indexer.go` | documents in Elasticsearch | index, delete | the index ends with the current messages |
| **Stream cache** `realtime-service/internal/streamcache` | chunks of a stream per user | store, replay | bounded |
| **Knowledge ingestion** `knowledge-base/internal/{pipeline/ingest,handler/kafka_consumer}.go` | document status, chunks, vectors | ingest, retry, delete | a ready document has its chunks, a failed one has none |
| **Sequences** `pkg/sequence` | none | Next, Validate | no wrapping at 2^53-1 |
| profiles and lists of bots, tools and MCP clients, offline push, gateway, llm-gateway, file-service, user-service, web client's interface | single rows, objects, none | CRUD, proxies, calls to other systems | not modelled: no concurrency of their own |

How they interact. The bot-service consumes `message.created` from Kafka and
accepts runs. Its pools claim rows of `bot.run_outbox`; the only call out of a run
that matters to its correctness is SendBotReply, by which the message-service
re-reads the run under the conversation lock. Every mutation of the
message-service publishes a change into its own outbox; the dispatcher sends it to
Kafka, one partition per conversation; the inbox writer turns it into positions of
the users' streams and only then notifies the devices through the
realtime-service, whose routes are in Redis.

What is hard: leases that run out under a living worker; transactions of two
workers, a publisher, a monitor and the users in any order; a crash between any
two of them; a reply that is lost; authorities that vanish between a check and the
write it guards; redelivery and reordering by the outbox and Kafka; positions that
are pruned while a device is away.

## 2. Plan

| # | Modules | Models | State |
|---|---|---|---|
| 1 | `RunLifecycle`, `RunPromise`, `RunLifecycle_proofs`, `MCRunLifecycle` | one built-in run from acceptance to its end | done, 13 theorems |
| 2 | `InboxDelivery`, `InboxDelivery_proofs`, `MCInboxDelivery` | from a mutation of a conversation to the streams of its members: publication, dispatch, partition, consumer group, entries, retention | done, five theorems |
| 3 | `InboxSync` (extends `InboxDelivery`), `InboxSync_proofs`, `MCInboxSync` | paging, rebuild and the cache of a device | done, four theorems |
| 4 | `RunActions`, `RunActions_proofs` | external actions over the same generations and leases | done, six theorems |
| 5 | `ThirdParty`, `ThirdParty_proofs` | deliveries to a remote executor, its updates, its lease, its stop, handover | done, two theorems |
| 6 | `Delegation`, proved about in `ThirdParty_proofs` | a tree of runs, its budget, the propagation of stops | done, two theorems |
| 7 | `Connections`, `Connections_proofs` | incarnations of a device and delivery to them | done, three theorems |
| 8 | `KnowledgeIngest`, `KnowledgeIngest_proofs` | stages, redelivery, cleanup, deletion of documents and of their base | done, four theorems |
| | `MCDevices` | rows 3 and 7: what a device relies on to be up to date | done |
| 9 | `RunAcceptance`, `RunAcceptance_proofs` | from the messages of a conversation to the runs of its bots: mentions, replies, rules | done, three theorems |
| | `MCServices` | rows 4 to 9 on small instances, one at a time | done |
| 10 | `SearchIndex` (extends `InboxDelivery`) | a second consumer of the partition, without a record of what it applied | |
| 11 | abstract `InboxFeed` | what a user may rely on: a feed that takes every change once; implemented by `InboxDelivery` | |

Modules that are proved about declare no RECURSIVE operator, take their parameters
as CONSTANTS with named assumptions, and have one action per transaction. Where a
definition recurs, it is a recursive function (`Chain`, `ApplyPage`) or an operator of the
community modules (`MapThenSumSet`), and the proofs argue by a least counterexample.

## 3. RunLifecycle

### Correspondence

| Model | Code |
|---|---|
| `run` | the row `bot.runs`: Status, ExecutorStatus, StopStatus, OutputStatus, ExecutionGeneration, InputVersion, AppliedInputVersion, WaitingReason (`waiting`), the revocation mark, StopReason, MessageID |
| `outbox` | rows of `bot.run_outbox` of kinds `execute` and `output`; `holder`/`live` stand for lease_token and `lease_until > NOW()`; `done` for completed_at |
| `trajectory` | `bot.run_trajectory`: system prompt, inputs, model answers, questions and their results; an answer carries the input version its request was bound to |
| `requests`, `rounds` | `bot.run_model_calls`: the pending ones and their number |
| `worker[w].pc` | where a goroutine stands between two transactions |
| `mailbox` | the message and the receipt under output key `<run>:final` |
| `lost` | the controller's membership, a resource grant or a cited material was withdrawn |
| `commands`, `faults` | bounds only |

Every transaction on a run takes the conversation lock and the row lock, so a
transaction is one action, with everything it reads and writes. What a goroutine
does between transactions (model calls, the RPC to the message-service) is a point
at which everybody else may act. `executionBoundary` and `publishOutput` call
`reconcile` first; as its own transaction that is the action `Reconcile`, and the
boundary itself is enabled once nothing is left to reconcile.

A lease is a boolean: `LeaseExpires` takes it from a goroutine that is gone,
`Stall` from a living one that did not renew in time (a long pause, a lost
database connection); a stall counts as a fault and may happen at `StallPoints`.
`Crash` makes a goroutine forget everything and leaves its lease.

A parked run is `waiting_input` or `waiting_authorization`. Withdrawn authorities
do not come back (the code makes a returning member a new incarnation), except by
takeover, which replaces the controller.

Left out: tools that act outside, third-party executors and delegation (they have modules of
their own, section 5), invalidation of sources, compaction, notifications, and the receipts of commands. Back-off times are
left out because any order of retries is allowed. The step from the
conversation lock to the row lock is one with the transaction; deadlocks between
locks are not modelled.

### Runs

| Run | Instance | Question |
|---|---|---|
| `faults` | 2 workers, 1 publisher, 2 model calls, 1 command, 2 faults, controller may be lost | does any combination of crash, stall, lost reply, command and revocation break the safety of a run? (3.9 million states) |
| `inputs` | 2 workers, 1 publisher, 3 model calls, 2 commands, 1 fault | are accepted inputs answered, once and in order; does the run refine `RunPromise`? |
| `live` | fair; 2 workers, 1 publisher, 1 command, 1 fault anywhere, a grant may be lost | does a stop converge, does a run end or wait? |
| `personal` | fair; 1 worker, 1 publisher, 2 model calls, 2 commands, 1 fault, personal visibility, controller and material may be lost | does a run whose result is only marked converge, and does nobody exceed the budget of model calls? |
| `stopped` | violation | finding 1 |
| `stalled` | violation | finding 2 |

Why the bounds suffice. Two workers are enough for a superseded holder and its
successor; a third adds only another superseded one, fenced by the same
generation. One publisher suffices because two attempts of the same output are
reached by one publisher that retries, and `mailbox` survives it. Two faults give a
crash after a stall (or two crashes) in one run, which is what it takes to have a
third generation. Two commands give every ordered pair of input, resume, takeover
and stop. Three model calls give a question, its answer and a final round with the
last one at the limit of the budget. Deadlock is not checked because a finished run
really stops.

The safety runs use `AfterEntry`: a worker may stall anywhere except between its
claim and its first look at the run. That window is finding 2, and it breaks
`SingleWriter`, hence also `ResultNotRecomputed`; the runs show that it is the only
one.

### Fairness

Every pool goroutine polls every 250 ms, and every wait of a worker is bounded (the
model call, the RPC and the lock waits have deadlines), so each goroutine is weakly
fair as a whole (`WF_vars(ExecuteStep(w))`); nothing is assumed about which item it
picks or what the model answers. The monitor polls (`WF_vars(Reconcile)`), and leases
run out by the database clock. Users, withdrawals and faults are not fair.

### What the properties say

* `SingleWriter`, `InputsOnceInOrder`, `SnapshotFrozen`, `CallBudget`: several
  generations of workers behave like one.
* `AtMostOneMessage`, `SucceededIsPublished`, `ResultCoversInputs`,
  `ResultNotRecomputed`: the result is the answer to everything accepted, it is
  computed once, and it is published exactly when it is reported.
* `StopHolds`, `StopConverges`: stops. That an end is final (`TerminalImmutable`) is proved (section 6)
  and part of `KeepsPromise`.
* `NeverStranded`, `RunConverges`: somebody will work on a run as long as it needs work.
* `KeepsPromise`: the whole module implements `RunPromise`, which is what a user
  may rely on: open, perhaps stopping, one way to end, a message before success and
  none while stopping.

### Findings

1. *A stopped run may have a message* (`stopped`, `run_repo.go:771`). `Claim` sets
   `ExecutorStatus` back to `accepted` on an execute item that outlived the
   completion; a stop then no longer sees that the executor had completed, and
   confirms a stop although the message was already sent.
2. *Two holders of one generation* (`stalled`, `run_repo.go:767`). A claim of a
   parked run does not advance the generation. If its holder outsleeps its lease
   before it first looks at the run, and an input wakes the run after the next
   holder's claim, both pass `CheckExecutionLease`, which asks for *some* live item
   of the generation and not for the holder's token.

Seen while modelling, without a run of its own: a failed run may have a message (the
publisher's reply was lost and the controller left before the retry); a resume leaves the
older execute item behind, which costs one more generation; a run that an input wakes is
briefly "lost" until its item is claimed.

## 4. InboxDelivery and InboxSync

`InboxDelivery` ends at the users' streams; `InboxSync` extends it by the devices
that follow them.

### Correspondence

| Model | Code |
|---|---|
| `conv` | `conversations`, `conv_members`, `conv_read_seqs`, `messages`: who is a member, since which message, what is read, and what happened to each message |
| `outbox` | `messaging.outbox_events` of a conversation in publication order; `kind`, `message`, `upTo`, `to` are the payload |
| `batch` | the outcomes in the open transaction of a dispatcher, with the row locks they imply |
| `partition` | the Kafka partition of the conversation's key: which change arrived when |
| `group` | the owner of the partition and the committed offset, if there ever was one |
| `writer` | a ConsumeClaim goroutine: its position, whether it has marked a record, and the members it read for the record at hand |
| `stream` | `inbox_streams`, `inbox_entries` and `inbox_applied_changes` of a user |
| `device` | the durable cache of a device (`UserSyncCache`) |
| `faults` | a bound only |

A mutation and its publication are one transaction under the conversation lock, hence
one action. The lock also numbers the changes without gaps, so that the index of a
change in `outbox` is its publication sequence, and index and conversation are its
change id. A dispatcher is not atomic: each send is an action whose outcome only its
own transaction sees, and what was sent stays sent when the transaction rolls back. A
writer is not atomic either: it reads the members in one step and writes the streams in
another, while the membership changes and while a former owner of the partition,
which has not heard of the rebalance, does the same (`Rebalance`, `Leave`). A failed
send may have arrived. Rows expire in any order, since `Expire` moves the retention
of a user anywhere, also back: the clocks of the writers differ and the retention is
configured.

A device is atomic: the server answers from one repeatable-read snapshot, and the
device asks again only after it has applied the answer. The answer is hydrated from
the rows as they are, not as they were when the change was published. A page is the
set of the first entries behind the device (`Page`); `ApplyPage` applies them one position
after the other, as `page.changes.forEach` does.

Left out: live messages and hints (they anticipate the stream), several tabs on one
cache, settings and the activities of bots, roles, mutes and blocks (they only refuse
mutations), the dead-letter copy, back-off times, the deletion of sent outbox rows, and
the idempotence of a submission. `Users` are some of the members; a conversation
always has others, so it is never empty. Payloads that cannot be decoded do not occur,
because the only producer is `PublishInboxChange`.

### Runs

| Run | Instance | Question |
|---|---|---|
| `dispatch` | 2 dispatchers, 2 writers, 3 changes, 2 faults; send, read, add, remove, delete the conversation; one user who may be a member or not | do changes arrive in order, once, at those they are for, and at all of them? (3.8 million states) |
| `follow` | 4 changes, pages of one entry, retention moving at will; send, read, delete for me | is a device that pages told to rebuild when it must, and only then? (2.8 million states) |
| `rejoin` | 2 writers, 4 changes, 1 fault; send, add, remove; starts with the user as a member (`MemberSpec`) | does a device end with the database's state although its user left and returned meanwhile? (3.4 million states) |
| `converge` | fair; `MCDevices`: either 2 writers, 2 changes, 1 fault, every mutation, or 2 nodes, 2 incarnations of the device's connection, 1 fault and a quiet stream | does every device end up to date, does a connection that lost its registration end (section 5), and do all rows and caches keep their types? |
| `fresh` | violation | finding 3 |

Why the bounds suffice. Conversations share nothing but the streams of their users
and the transaction of a dispatcher, and every property speaks of one conversation, so
one is instantiated. A stream belongs to one user, so one user is enough for what its
devices see; others appear as the members a conversation always has. Two dispatchers
and two writers give each process a competitor; a third would repeat what the second
does, since rows are locked by one and a partition is owned by one. Three changes
are the least for a repeated send of an old change to arrive behind two newer ones; four
give a member who leaves and returns (three changes: a removal publishes two) and a
message sent in between. Two faults give a failed send and a rebalance in one
behaviour, and a key that is blocked because its retries (2) are exhausted. Pages of one
entry make every boundary of a page occur. Deadlock is not checked because a system
that has delivered everything rests.

### Fairness

A dispatcher polls every 100 ms and takes any row it may take; its transaction ends
(`WF` of `Dispatch` for each dispatcher and conversation, and of `CommitBatch`). A writer
that owns a partition retries for ever and the offsets it marked, never others, are committed every
second (`WF` of `ReadMembers`, `WriteInbox`, `CommitOffset`). A device asks after every
hint and whenever it is connected again (`WF` of `EnsureStream` and `Sync`); a hint is
sent after every write, or the write is handled again. Mutations, failures, rebalances
and the retention are not fair. Two limits: the fairness of a writer assumes a process
whose inbox consumer is still running, but an error of `Consume` ends it for good
(`main.go:92`), and then only another process goes on; and a device whose request fails
waits for the next hint, the next connection or its user, so fairness assumes one of them.

### What the properties say

* `SentInOrder`: whatever is repeated, the *first* arrivals are in order; no change
  overtakes an older one.
* `OncePerChange`, `OnlyRecipients`, `NothingSkipped`: between "at least once" of Kafka
  and the streams nothing is doubled, misdirected or lost. A user who left and returned
  between a change and its write may miss it: the change that announces the return shows
  the conversation again, and what was sent before is history to be loaded.
* `FollowersAreKnown`, `FollowersMissNothing`: positions survive coalescing and
  pruning; a device that is not told to rebuild has lost nothing.
* `UpToDateMeansComplete`: an up-to-date device shows what the database has, through
  every order of leaving, returning, deleting and hiding. A rebuild brings only
  the newest `Limit` messages (older ones are loaded as history), so completeness of
  messages is asked of conversations that fit.
* `EventuallyUpToDate`: unless a key is blocked, everything comes through.

### Findings

3. *A fresh group skips changes* (`fresh`, `kafka.go:162`). Until the group has committed an
   offset for a partition, every new owner starts behind the newest record. Changes
   that arrived before are marked as sent and reach no stream. `dispatch` assumes a group
   with a committed offset (`Established`) and shows that nothing is skipped then.

Seen while modelling, without a run of its own: a rolled-back batch or a former owner
puts an old change behind newer ones, which is harmless for devices, because pages show
the rows as they are, but not for the search index, which takes the text from the change;
`MarkFailed` blocks the key of a conversation until somebody repairs the row by hand.

## 5. Actions, third parties, delegation, connections, ingestion, acceptance

Six components beside the life of a run and the inbox. They share no state with each
other in the model; `MCServices` puts them into one instance in which `subject` names the
component an execution is about, and the others rest.

### RunActions

| Model | Code |
|---|---|
| `work`, `items` | the columns of `bot.runs` and the execute rows of `bot.run_outbox` that actions read or write |
| `action[c]` | the row of `bot.run_actions` of tool call `c`: status, the scope it was permitted for (generation, input, controller), its approver, its deadline |
| `paired` | the tool results in the trajectory |
| `executor[e].pc` | where a worker stands: boundary, prepare, claim, check, call, receipt, result |
| `owner`, `grant` | who owns the tool's server; the requester's standing permission |
| `effects` | history: how often the call took effect outside |

A tool call is six transactions around one call that may take effect although it reports an
error. The boundary before it is the only place at which an input counts as read; the row is
claimed (`ClaimAction`), everything is checked once more on the connection
(`CheckBeforeCall`), and only the holder of the claim records the outcome. `RecoverActions`
is the part of every reconciliation that looks for claimed rows without a holder.

* `WrittenOnce`, `RefusalHolds`: the write is made at most once and never against a
  decision, through crashes, stalls, recoveries and rebinding to another generation.
* `WriteKeepsItsScope`: between claim and receipt neither an input nor a takeover slips in.
* `UnknownHalts`: a write of which nobody knows the outcome halts its run.
* `ApprovedIsPursued`: an approval that arrives while its worker is leaving is not lost.

Seen while modelling: a drained item of a parked run keeps its generation, so that a stalled
holder and its successor may act in one generation (finding 2); `WrittenOnce` holds all the
same, because the row is claimed. An input accepted between the boundary and the claim makes
the claim refuse and the run fail. A pending action whose deadline passes leaves its run
parked until somebody stops it, and so does an unknown write, which no command resolves. A
check that refuses before the call makes a write unknown although nothing was called. A run
that fails while a write is claimed has it marked at a later read
(`service.go:770`, `service.go:817`).
Left out: the confirmation that shares a personal run, actions requested by a third party,
invalidation of sources, redaction.

### ThirdParty

| Model | Code |
|---|---|
| `job` | the row: status, ExecutorStatus, StopStatus, StreamStatus (`open`), lease, generation, input version, sequence, the current order |
| `errands`, `courier` | `deliver` rows of `bot.run_outbox`; the decision between reading a row and sending it |
| `contractor[g]` | external: what the executor knows of generation `g`, from its deliveries |
| `post` | the update under way, which may be lost or late |
| `authority` | controller present, departed, or access withdrawn |

`ExecutorHolds` is two claims: what the platform accepted for its executor is known to it or
queued (`ExecutorIsTold`, for runs whose stream is open), and a run is handed over only when
the former controller's work has stopped (`HandoverAfterStop`).

Assumed of the executor: it ignores deliveries older than the newest it has seen, cites the
version it was told, and remembers that it stopped a generation. Seen while modelling: after
a rejected stop the stream stays closed (`executor.go:266`), so later inputs are accepted
but never delivered (`delivery.go:46`), updates cite a stale version, the lease runs out and
the run is lost until it is resumed; the same happens to an input that was queued when the
stop was asked for. A rejection by an executor that never claimed leaves no lease, hence a
lost run. `deliverRun` turns a controller that has just left into a full stop
(`delivery.go:49`), where reconciliation would park the run.
Left out: heartbeats, file results, transient streams, grant and revocation of control. The model ends
where the run ends or its result is accepted; from there on RunLifecycle's publication applies.

### Delegation

| Model | Code |
|---|---|
| `tree[r]` | a row of `bot.runs` with its parent, depth, bot and reserved output |
| `barrier` | the advisory lock of a tree |
| `session` | acceptance, reservation and stop: what they read before they write |

`TreeHolds` is two claims: the tree keeps within depth, number of descendants and output, no
chain repeats a bot (`WithinBudget`), and nothing goes on unasked below a run that a user stopped
(`StopReachesTree`). The lock of the conversation is only shared, so it is the tree's lock
that makes both true; taking the run's own lock instead breaks them.

Seen while modelling: a child whose executor cannot stop may be taken over later and delegate again
below a halted ancestor that is not the root (excused by `resumed`); a user's stop of a run
that waits for a takeover with a stop under way changes nothing (`authority.go:247`).
Left out: input bytes, continuations, consumption of results, grants. A completed run that
loses its controller stays completed.

### Connections

| Model | Code |
|---|---|
| `conns[c]` | the handler goroutine of an accepted connection, its session and its write loop |
| `route` | the registry in Redis: the registered incarnation of each device |
| `channel`, `receiver` | the pub/sub channel of a node and its one receiving goroutine |
| `intent` | one delivery: whether it has a notification, the device it leaves out, routes listed, routes left, who got it, whether it was pushed; `lost` is history |
| `node` | a process: up, stopping, draining, down |
| `journal`, `excused` | history: the order of registrations; routes that a fault removed |

A Redis script is one step, so is a section under a mutex. What is delivered need not be a message:
edits, hints and presence have no notification and are never pushed (`router.go:111`), a typing frame
leaves out the device it is from (`router.go:187`), and nobody pushes to a bot (`router.go:125`, `168`,
`181`), so that to a bot's connections each intent is one without a notification. `NewIntents` has
all of these. The channel is Redis pub/sub and loses packets: with nobody subscribed, with the process, and, as a
fault, on the way to a subscriber that is up (`LosePacket`).

* `NewestReachable`: the newest connection of a device keeps its route, whatever handlers,
  write loops, receivers and senders of older ones still do.
* `DeliveredOrPushed`: the code itself drops no intent. A connection that was to get one got it; or the packet
  was lost by pub/sub or with its process; or the device registered again and syncs by itself; or the
  delivery was given up, and then the user was pushed to *if there is a notification*, and the connection lost
  its route (unless Redis failed), so that it will end (`LostRegistrationEnds`) and its device sync.
  An intent without a notification that was lost under way reaches nobody, and nothing in the code would notice:
  what its device lacks comes with its next sync.
* `LostRegistrationEnds` (in `converge`): a connection that lost its route is not served for ever,
  also when the order to close it was never received.

Fairness: every goroutine that serves a connection takes its next step
(`WF` of `Handler`). That includes `Refuse`: a client pings, and is refused when the route is another's, or
is silent and runs into the read deadline. Nothing is assumed of channels, receivers and nodes, so the
order to close an older connection (`Replace`) may never arrive.

Seen while modelling: a slow client holds the one receiver of its node up to the write
timeout; a graceful stop may take a packet with it that was published after its routes were listed; a write
that succeeded may be pushed offline too; an error of Redis in `Register` leaves a route until
its TTL and skips `Replace`. The write queue (256) cannot fill with its present callers.
Left out: authentication, presence, typing, acknowledgements, the stream cache.

### KnowledgeIngest

| Model | Code |
|---|---|
| `base` | the row of the knowledge base |
| `file[d]` | what the four stores hold of a document: row, chunk rows, vectors, objects |
| `holding` | the advisory lock of a document |
| `uploaded` | unacknowledged `document.uploaded` events |
| `task[w]`, `request[c]` | where an ingest worker and a user's request stand |

No transaction joins the stores, so every call is one step and every one may fail; the
deferred cleanup after an error is steps of its own, each of which may fail too.

* `ReadyIsExact`: a document that answers queries has the chunks of one attempt and exactly their vectors.
* `DeletedLeavesNothing`: nothing at work ever brings a part of a deleted document back.

Assumed: a statement of Postgres that reports an error was not applied, and the session of an
advisory lock lives as long as its process (the code does not check that connection while it works).
Seen while modelling: a crash between the row and the event, or an event that could not be sent
and a status that could not be written, leaves a document pending for ever; an interrupted ingestion marks
its document failed, so that the redelivered event is skipped and the user has to retry; an event
handled while a deletion of the base that later fails is under way is acknowledged with nothing done; an
object stored before its row exists may be orphaned.
Left out: bindings, duplicates by content, counters, image descriptions, progress events.

### RunAcceptance

| Model | Code |
|---|---|
| `sent` | the user's messages with what happened to them since; `standing` and `spoilt` are history |
| `records`, `holder`, `marked` | the partition of `message.created`, its owner, the committed offset |
| `reader[h]` | where the loop of `Handle` over the bindings stands, and what Accept has read |
| `seat`, `shape`, `room` | the newest binding of each bot with its settings, their version and watermark; the status of the bot; the sender and the administrator behind a rule |
| `card` | the published result of an earlier run: sent, then committed to its run |
| `hook` | whether webhooks answer |
| `turns` | the runs, with what makes up their submission keys |

For each bot a round observes, asks for a reply, and accepts a run if the message mentions the bot; if not, it reads
the bot's rules once (`TriggerRules`) and accepts one run for each of those that match (`AcceptRule`), under a key that
has the rule and its version. All are steps of their own; accepting
is a read and a transaction that compares what was read
(`CommitRun`). A refusal goes on to the next rule (`OnToNextRule`), an error ends the round with some rules accepted. A call that fails for another reason than a refusal begins the round over all bots again, also after
the transaction took effect. A webhook that fails is remembered and fails the round at the end of its bot.

* `TurnsAreDue`: a message has one turn with a bot it mentions, and with another bot one per matching rule, through repetition, rebalances and rounds that fail while rules are
  saved and bots leave and return, which change the key; and a turn rests on the binding and the version of the
  rule that stood when the message was sent. The keys alone do not give this: it takes the watermarks that
  every save and every new binding set under the conversation's lock.
* `TurnsAreTaken`: a record that counts as handled has given a turn to every bot it mentions and
  against which nothing has happened, and to every matching rule of the others, unless the rules were saved
  anew since or who saved them is no member any more; also if rounds failed between two rules.

Assumed: the group has committed an offset before (finding 3 is about groups that have not); who leaves does not
return. Seen while modelling: a reply to a result that is sent but not yet committed to its run is not
recognized (`service.go:1106`); if it mentions the bot it is refused for good, and if not, rules may start runs
for it, which `TurnsAreDue` therefore permits. A webhook that stays dead fails the round at its bot for ever, so that the bots listed behind it and all
later messages of the partition wait, although "observation transport failure never ... prevents accepting
work" (`handler.go:115`); its own bot has accepted by then.
Abstracted: `fits` of a message are the rules whose conditions on the text it satisfies. The bots share the numbers of
their rules, so that one `fits` serves all of them. The code goes through the rules in the order of the settings, the
model in any. A binding may have 32 rules (`settings.go:81`), here `MaxRules`. Participation that is disabled accepts by no rule,
whichever are saved with it, so the model saves none.
Left out: acceptance through the API, continuations, materials, activities of members and of
business systems.

### Runs

| Run | Instance | Question |
|---|---|---|
| `services` | `MCServices`; actions: 2 executors, 1 call, 2 commands, 1 trouble; connections: 1 device, 2 nodes, 2 incarnations, 1 intent, 1 fault; ingestion: 1 document, 2 workers, 2 requests at once, 2 attempts, 3 requests, 2 faults; delegation: 3 bots, 2 transactions at once, 4 runs, limits of 2, 1 stop, 1 departure; third party: 2 generations, 2 inputs, 2 orders, 2 reports, 1 mishap; acceptance: 2 bots, one with a webhook and 2 rules, the other at first without, 2 processes, 1 message, 1 choice of others, 1 upset | do the properties above hold? (3.3 million states) |

Why the bounds suffice. Two executors, workers or incarnations are a superseded one and its
successor. Tool calls are made one after the other and share only the run, so one call meets
every decision, recovery and rebinding. Two documents share only their base, whose deletion
empties one after the other. Two attempts and two faults give a cleanup that fails and is
made up for by the next attempt. Four runs let a tree exceed its limit of two descendants;
with three bots the rule against repetition refuses before the depth does, so the depth limit is
exercised by its invariant only through chains of three. Two generations are the
old work of an executor and the one that replaces it. Keys contain the message, so that one message, which may come
twice, meets every repetition of its own turns; two bots give a round that fails behind a turn already taken, two rules one that
fails between them, and two processes
a former owner and its successor. To keep the run short, `MCServices` fixes the rules of the first bindings and lets the earlier
result be sent already only where both bots are bound; saves and bindings made in the run have no rule, the first or both, and a text satisfies none or both (`FewRules`): every set of rules that match still occurs, but for the number of a single one. One intent of each kind
meets every step of a delivery, since deliveries share nothing but routes and channels. Deadlock is not checked, because the bounds and
the end of a run stop a component.

## 6. Proofs

### RunLifecycle

`RunLifecycle_proofs` proves, for any sets of workers and publishers, either
visibility, any budget of model calls and any bounds, grounds and stall points:

| Theorem | Statement |
|---|---|
| `TypeCorrect` | `Spec => []TypeOK` |
| `OneMessage` | `Spec => []AtMostOneMessage` |
| `SuccessHasMessage` | `Spec => []SucceededIsPublished` |
| `EndIsFinal` | `Spec => TerminalImmutable` |
| `StopIsHeld` | `Spec => StopHolds` |
| `RunKeepsPromise` | `Spec => KeepsPromise` |

Its second part is about what several generations of workers do to one run:

| Theorem | Statement |
|---|---|
| `OneWriter` | `Spec => []SingleWriter` |
| `RequestsSeeAll` | `Spec => []SnapshotFrozen` |
| `BudgetHolds` | `Spec => []CallBudget` |
| `ResultAnswersAll` | `Spec => []ResultCoversInputs` |
| `ResultIsKept` | `Spec => ResultNotRecomputed` |
| `NobodyStranded` | `Spec => []NeverStranded` |
| `InputsEnterOnce` | `Spec => []InputsOnceInOrder` |

All but the last assume `StallsAfterEntry`: a worker that sleeps past its lease does so after
its first look at the run. The hypothesis is necessary and not a convenience: run `stalled`
admits such a sleep and finds `SingleWriter` violated.

Assumptions: the ASSUMEs of `RunLifecycle`, which TLC evaluates in every run: the
visibility is one of two, the budget is positive, the pools are disjoint and neither
contains the value that stands for "no holder".

The typing invariant `TypeInv` adds to `TypeOK` that no pending request is newer than
the number of rounds; without it `CHOOSE`-ing the newest pending request could leave
the set, because a set of requests that is not bounded has no greatest element.
`SucceededIsPublished` is not inductive: the step that
commits relies on what its publisher learned before. The strengthening
`CommitKnowsReceipt` says that a publisher that stands at its commit has seen the
receipt (and that only conversation runs get there); `PublishedInv` is the
conjunction. Its proof needs that nobody else can move a publisher (`MoveFrame`,
`ElsewhereFrame`, `FreshFrame`) and that no receipt is ever lost. The action
properties `EndIsFinal` and `StopIsHeld` follow from `TypeInv` by one case per
action, and the refinement from `PublishedInv` and the step lemmas: a step of the
lifecycle is `Publish`, `AcceptStop`, `Succeed`, `Fail`, `ConfirmStop` or a stutter.

The theorems on writers rest on four invariants that carry each other:

* `FenceInv`: one writer at a time. A writer is a worker past its entry whose generation is the
  run's. Entering takes the next generation, so whoever wrote before is fenced; what remains is a
  worker that has claimed and not looked yet. It still has its lease (`EntryLeased`), leases
  exclude each other (`OneLease`), and nobody who may write shares its generation with it
  (`EntryAlone`). `EntryLeased` is where the hypothesis enters. A parked run has no writer.
* `FactsInv`: what a writer learned in one transaction still holds in its next (`WriterKnows`), one
  request is open at a time, and it asks about exactly the trajectory. `SnapshotFrozen` and
  `CallBudget` are two of its conjuncts.
* `ResultInv`: a result follows the last request and has answered all that was accepted; queueing
  the output ends the computation.
* `WakeInv`, for `NeverStranded`: each run that needs a worker has an open item whose holder, if
  it has one, is not about to leave it for good.

`InputsOnceInOrder` needs none of them: the blocks of an input and the mark that it was applied
are one transaction. It says of the trajectory which block each input has, by quantifiers, because the
filter of a sequence is a recursion over data.

Only model-checked: `StopConverges` and `RunConverges` (liveness under fairness is beyond this
prover, as is ENABLED).

### InboxDelivery

`InboxDelivery_proofs` proves, for any conversations, users, dispatchers, writers, kinds of
mutations, retention and bounds, and whether or not the group is established:

| Theorem | Statement |
|---|---|
| `DeliveryTypeCorrect` | `DeliverySpec => []DeliveryTypeOK` |
| `ChangesSentInOrder` | `DeliverySpec => []SentInOrder` |
| `ChangesAppliedOnce` | `DeliverySpec => []OncePerChange` |
| `EntriesOnlyForRecipients` | `DeliverySpec => []OnlyRecipients` |
| `ConsumedIsDelivered` | `DeliverySpec => []NothingSkipped` |

Assumption: `DeliveryAssumption`, which bounds the numbers and names the kinds of
mutations. `ConsumedIsDelivered` also assumes `StartsWithOffset`, that the group has a
committed offset before the first change; run `fresh` shows that without one changes are skipped.

`DeliveryTypeOK` is inductive: it contains that a goroutine which has read the members
stands at a record, and that records of the partition are changes of the outbox.
Two frames carry most of the argument, `OutboxKept` (changes are only added, and of an
existing one only status and retries move) and `PartitionKept` (records are only
added); every action is shown to keep both.

`SentInOrder` is not inductive, because a dispatcher goes by marks and not by what arrived. The
strengthening `OrderInv` adds that a change marked as sent has arrived
(`SentArrived`) and that one noted as sent in an open transaction has (`NotedArrived`); then the
changes before the next one to be sent are all in the partition already, also after
other transactions rolled back. `OncePerChange` is inductive with the types; the proof
follows `Insert` through its three cases. `OnlyRecipients` needs `MeantInv`: the recipients a
goroutine holds between its read and its write are among those the change was
published for (`ReadersMean`), whatever happened to the membership since.

`NothingSkipped` speaks of committed offsets, which say nothing of the goroutine that committed
them. `SkipInv` adds what a goroutine has passed (`PassedCovered`) and holds (`ReadersHold`).
What a change owes to whom (`Owed`) has to be chosen such that it never grows: a user who leaves is
owed no more, and one who comes back is not owed what was sent while away. That holds because
whoever leaves was left out of a later change (`LeaversLeftOut`).

### InboxSync

`InboxSync_proofs` extends the proofs of `InboxDelivery` by the devices:

| Theorem | Statement |
|---|---|
| `SyncTyped` | `Spec => []TypeOK` |
| `FollowersKnown` | `Spec => []FollowersAreKnown` |
| `FollowersMissNone` | `Spec => []FollowersMissNothing` |
| `FollowersComplete` | `Spec => []UpToDateMeansComplete` |

Assumption: `DeliveryAssumption`. `FollowersComplete` also assumes `StartsWithOffset`: in a group without
an offset changes are skipped (run `fresh`), and a device that has read its stream to the end
then lacks them.

`FollowersAreKnown` and `FollowersMissNothing` follow from `FollowInv`: a device stands where its stream has applied a
change or begins (`DevicesKnown`); entries mirror what was applied (`EntriesMirror`); and behind the
retained boundary every applied change has its entry, or it was a read and a newer read stands further
behind (`Retained`). Coalescing moves an entry away from positions at which devices may stand, which is why the
positions of `inbox_applied_changes` and not those of the entries have to be known.

`UpToDateMeansComplete` says nothing of a device that still has something to read, so its inductive form
`SyncInv` has to. For each conversation a follower's cache shows what the database has, *or a change is coming that
will make it so* (`ConvFollowed`): `Coming` is a change that lies before the device in the stream, or that the
stream is owed. At the end of a stream that has everything nothing is coming, and what remains is the property.
A page is hydrated from the rows of today, so that an entry may bring what was published later; and a removal clears the
conversation with all that newer entries had brought. So it is not enough that *some* change is coming: no removal
of the user may lie behind it (`Current`), and whoever lacks a removal that comes (`Leaving`) shows nothing that counts. Behind this stand
three invariants of the delivery. `RowsInv`: a change of a row is told to those who see the row, one who left has
been told, one who came back has been told later, and reads of a user only advance. `StreamsInv`, as above.
`OrderedInv`: what is owed reaches a stream in the order of publication, and a removal lies before everything that was published after it.
`FollowersComplete` goes by the steps of a conversation, of its delivery, of retention, and, position by position, of a page.
TLC checked the three invariants, `DevicesInv` and `DevicesKnown` on small instances before they were proved.

Only model-checked: `EventuallyUpToDate` and `LostRegistrationEnds` (liveness).

### RunActions

`RunActions_proofs` proves, for any number of executors and tool calls and any bounds:

| Theorem | Statement |
|---|---|
| `ActionsTyped` | `ActionsSpec => []ActionsTypeOK` |
| `WritesOnce` | `ActionsSpec => []WrittenOnce` |
| `RefusalsHold` | `ActionsSpec => []RefusalHolds` |
| `WritesKeepTheirScope` | `ActionsSpec => []WriteKeepsItsScope` |
| `UnknownWritesHalt` | `ActionsSpec => []UnknownHalts` |
| `ApprovalsPursued` | `ActionsSpec => []ApprovedIsPursued` |

Assumption: `ActionsAssumption`, which makes the numbers natural and the pools non-empty.

None of these is inductive alone. `TypeInv` adds to the types that a goroutine at work has an item,
and one at a call has a call. `WriteInv` says of every write: while its row can still be claimed it has
had no effect and no goroutine stands between claim and end of the call; a claimed row
never becomes claimable again (`Recovered` returns reads only), and at most one goroutine
stands between claim and end of a call. `WritesOnce` and `RefusalsHold` follow, without
any assumption on leases. `OpenInv` joins the other two: the scope of *every* claimed write is the run's, whether
or not its holder still has the lease (`ScopeInv`), and `UnknownHalts`. An open write, claimed or
unknown, refuses every input, resume and takeover, which keeps the scope and the halt; whoever
finds an outcome unknown halts the run in the same transaction; and no decision on another
call sets the run going, because the fence of a decision refuses while a write is unknown.

`ApprovedIsPursued` follows from `PursueInv`: a running run has an item that is *secured*, open and not
held by a goroutine that is about to complete it (`Pursued`). The step that
could break it is a decision that finds its run running already, and so wakes nobody. Then
another decision on the same run set it going, and the item of that one is still
free (`PendingWoken`): an executor that had claimed it would have made the open decision's call the
run's business again. `RowsBehind`, no row is ahead of its run, makes "the same generation" mean what it should.

### ThirdParty

`ThirdParty_proofs` proves, for any number of generations, inputs, orders, updates and mishaps:

| Theorem | Statement |
|---|---|
| `ThirdPartyTyped` | `ThirdPartySpec => []ThirdPartyTypeOK` |
| `ExecutorTold` | `ThirdPartySpec => []ExecutorHolds` |

Assumption: `ThirdPartyAssumption`, which makes the bounds natural.

`ExecutorHolds` is about what executor and row know of each other, and the two only meet through
deliveries that are delayed, repeated and dropped. The invariant `HoldsInv` rests on the number of
an instruction: the newest has the greatest and says what the row says
(`ItemsInv`), so a late one is recognised. A delivery is dropped for good only after a look at the
row, and what that look saw stays true until a newer instruction is queued (`ToldInv`). While a run is open,
the version its executor cites is the last it was given (`WorkInv`); and a confirmed
stop means that the work of that generation has stopped, which the next one relies on
(`HandoverInv`).

### Delegation

The second part of `ThirdParty_proofs` proves, for any bots, limits, sizes of the tree and number of transactions at once:

| Theorem | Statement |
|---|---|
| `DelegationTyped` | `DelegationSpec => []DelegationTypeOK` |
| `TreeKeeps` | `DelegationSpec => []TreeHolds` |

Assumption: `DelegationAssumption`: the sets of bots and sessions are finite, there is a bot and a root, and the limits are natural.

`TreeHolds` is not inductive, because a transaction writes what it decided on rows that it read in an earlier step.
`TreeInv` adds that whoever is at work holds the lock of the tree alone (`LocksIn`), so that what it read still holds
when it commits (`DecidedIn`): there is room for the child, the call is paid for, or the rows
below the run to stop are those it has seen. Rows are taken in order (`InOrder`), so a child never comes to lie above its
parent; and the reach of a stop is stated of the stopped run too (`HeldIn`), from which it passes to a child: a run that may
delegate is at work, and if it lies below a stopped one, somebody has taken over above it, which then holds for the child.

The reserved output is a sum over a set, and the prover has no induction over sets. `SumCounts` shows that
`MapThenSumSet` counts the units of output of the runs (`Units`), by a smallest set of which it does not; a cardinality then
takes one more unit (`SumOneMore`). Chains are a recursive function: `ChainExists`, `ChainBounds` and `ChainSame` (a chain depends on the parents
alone) are shown by a least row without.

### Connections

`Connections_proofs` proves, for any number of devices, nodes, connections, intents and faults:

| Theorem | Statement |
|---|---|
| `WireTyped` | `WireSpec => []WireTypeOK` |
| `NewestStaysReachable` | `WireSpec => []NewestReachable` |
| `NothingVanishes` | `WireSpec => []DeliveredOrPushed` |

Assumption: `ConnectionsAssumption`: the sets of devices and nodes are finite and not empty, and the bounds natural.

A route is always that of the connection of its device that registered last
(`RoutesInv`): a connection registers once, so nobody older can come back, and each removal names
the connection it is for. `ReachInv` is the converse while the session is open. The removals of late
handlers, write loops and receivers are harmless because each of them knows that its own session is
closed, or that the route is gone, or that a fault excuses it (`HandlersInv`, `ReceiverInv`); a closed
session is never opened again. A node that is down has no connection left.

For the intents, each route that was listed is still to be sent to, on its way in a channel or in the
hands of a receiver (`OnItsWay`), or settled. A receiver lets go of an intent only after a write that is
done (`WritesInv` ties it to the packet in hand), after `fail`, which pushes what has a notification and takes the route, or
after it saw another route of the device, and by `RoutesInv` that is a later registration (`Reregistered`). Whoever loses
its route once never gets it back, so what was given up stays given up.

### KnowledgeIngest

`KnowledgeIngest_proofs` proves, for any documents, workers, requests, attempts and failed calls:

| Theorem | Statement |
|---|---|
| `IngestHolds` | `IngestSpec => [](Typed /\ IngestInv)` |
| `AnswersWithOneAttempt` | `IngestSpec => []ReadyIsExact` |
| `DeletionIsComplete` | `IngestSpec => []DeletedLeavesNothing` |
| `IngestTyped` | `IngestSpec => []IngestTypeOK` |

Assumption: `IngestAssumption`: the sets are finite, there is a document, workers and callers are
different processes, and the bounds are natural.

Neither property is inductive, since each speaks of the end of a sequence of calls to four stores that no
transaction joins. `IngestInv` says what holds on the way. Whoever has passed the claim or the first check of a
request holds the lock of its document alone (`AloneThere`), so that nobody else changes it; and the
place where it stands says what the stores hold of it: `TaskInv` for a worker, which
first clears what earlier attempts left and then builds one attempt, `RequestInv` for a removal, which
empties the stores in one order. A process that dies gives up its lock in the same step and leaves any of these
states, which the next holder's own clearing makes good; only `FileInv` has to hold without a holder. That an
image has its key in the row before it is stored is what lets a removal find it. `BaseInv` needs the
foreign key, which refuses to drop a base with documents, and that none is created in a base that is not active.

`Typed` allows any number of waiting events. `QueueInv` bounds it: the events of a document and the requests that
still have theirs to send are together no more than were asked for.

### RunAcceptance

`RunAcceptance_proofs` proves, for any bots, rules, consumers, messages, changes and failures:

| Theorem | Statement |
|---|---|
| `AcceptanceTyped` | `AcceptanceSpec => []AcceptanceTypeOK` |
| `TurnsDue` | `AcceptanceSpec => []TurnsAreDue` |
| `TurnsTaken` | `AcceptanceSpec => []TurnsAreTaken` |

Assumption: `AcceptanceAssumption`, which makes the bounds natural.

The consumer decides at several points in time about a message that was sent at an earlier one.
`RoomInv` says what cannot have changed in between: a binding and its
settings begin behind the newest message, so what stood when a message was sent is recognised
later, and a step that may refuse what a message asks of a bot is recorded in it. `ReadersInv` follows the
round over the bots of a message and over the rules of a bot: whatever a message owes (`Owes`: a turn for each mention, or for
each rule, that nothing has spoilt) it has been given, or its bot is still on the list, or its rule among those left
(`Pursues`). A round that begins again finds the turns it has already by their keys. What is owed never grows while a
round is under way (`TalkOwes`), and nothing refuses what is owed (`OwedStands`, `OwedAtCommit`). `TurnsInv` says that each turn was due when it was granted.

### What is only model-checked

Liveness: `StopConverges`, `RunConverges`, `EventuallyUpToDate`, `LostRegistrationEnds`. And
`ServicesTypeOK` as one formula: it is the conjunction of the six type invariants that `ActionsTyped`, `WireTyped`,
`IngestTyped`, `DelegationTyped`, `ThirdPartyTyped` and `AcceptanceTyped` state one by one, and `MCServices` only sets the
components side by side.
