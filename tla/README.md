# TLA+ specifications of Alpha CRM

Alpha CRM is a desktop CRM for Zalo: a Flutter client (`src/lib`) and a local
Node/TypeScript service beside it (`src/integration/zalo-bot-service/src`, below
`B/`), which logs in to Zalo, keeps the chats in SQLite, runs the commands a
cloud backend queues and answers customers. The cloud and Zalo are not part of
the repository. Most of the Dart code is user interface; the logic that is hard
to get right runs in the service, and the models begin there.

Everything in `B/` runs on one Node event loop. Between two `await`s nothing
else runs, so an action of a model is the code between two `await`s, and all the
interleaving there is comes from callbacks (timers, HTTP requests, the Zalo
listener, answers of the cloud) that run while another one waits, and from the
death of the process, which may come between any two actions and, where a file
is rewritten in place, in the middle of one.

## 1. Inventory

`PROJECT.json` lists every component with its files; here is what each keeps,
does and must get right.

### Local service

| component | state | operations | interacts with | what is hard | what makes it correct |
|---|---|---|---|---|---|
| Bulk campaign executor (`agent/command-executor.ts`, `agent/campaign-progress.ts`) | `runningCampaigns`, `cancelledCampaigns`, `cancelAllCampaigns`; `in-flight.json` | START_CAMPAIGN, CANCEL_CAMPAIGN, the background run, begin/update/finish of a record | polled commands, cloud reports, Zalo sends, session stop | a run of hours that outlives logout, re-login and failed reports; death in the middle of it; a file keyed by campaign, commands keyed by id | nobody is sent a message twice; one run per campaign; a cancellation sticks; a run that died is reported, one that lives is not |
| Agent runner (`agent/agent-runner.ts`, `agent/cloud-api.ts`) | running flag, poll timer handle, heartbeat timer, credentials | poll step, heartbeat, start, stop, boot-time campaign reporter, inbound handler | executor, coordinator, chatbot runtime, cloud | steps in flight across a stop and a start; 403 `DEVICE_REVOKED` seen by several at once | stops when its session ends; one report per command; revocation handled once |
| Agent session (`local-session/session-coordinator.ts`, `session-runtime.ts`) | credential and token files, `revokePromise`, the resume and its retries | sync, forced sync, logout, revoke, boot, resume | runner, background sync, chatbot, Flutter events, cloud devices | requests, the resume and revocations overlap at their awaits | files, runner and background sync agree; a logout stops; only a revoked session is revoked; Flutter is told once |
| Chatbot runtime (`chatbot/chatbot-debounce.ts`, `-runtime.ts`, `-engine.ts`, `-dispatcher.ts`, `index.ts`) | pending buffers, conversation state, processed messages | push, flush, evaluate, dispatch, handoff, operator pause, switch | runner's inbound handler, channel sends, cloud AI, store | overlapping flushes, state read before an await and used after it, ambiguous sends, stop and death in between | a message is answered once; a silenced bot is silent; only a human ends a handoff |
| Chatbot audit queue (`chatbot/chatbot-store.ts`, `index.ts`) | `chatbot_audit_queue` | record and live post, pass, delete | cloud | live posts and passes post the same rows; lost answers; a limit per pass | no audit is lost, every acceptable one arrives |
| Chatbot configuration sync (`chatbot/chatbot-config-sync.ts`, `chatbot-cloud-api.ts`) | one row of `chatbot_config_snapshot`, the status of the sync object, its interval | `syncNow` from start, interval and request | cloud, engine | fetches of earlier starts and of other users save what they bring; a row another build wrote | the bot ends up with the newest version of its user |
| Background sync worker (`local-chat/sync-worker.ts`) | `sync_queue`, `_isRunning`, timer, managed group cache | pass, complete, fail with backoff, park | store, cloud, coordinator | stop and start during a pass; a row that changes while it is reported; retries | what is acknowledged was reported; the queue drains past what fails |
| Local chat store and HTTP API (`local-chat/*`) | messages with status and two unique indexes, conversations, sync rows, programmatic-send marks | send, media send, retry, receipts, echoes, history batch, recall, delete | channel, runner, events | echo before answer, receipt before echo, history batch between, retry of what was sent | one row per message; an echo is not taken for a human; a change reaches the cloud |
| Media worker (`local-chat/local-chat-media-worker.ts`, `media-cache-store.ts`) | attachment rows, files of the cache, limits | download, record, evict, restart | store, API, Flutter | messages and limits change between its awaits; death between a file and its row | what is offered has its file; a pass ends within the limit; good downloads come |
| Personal Zalo channel (`channels/personal-zca-channel.ts`) and listener health (`local-session/listener-health.ts`) | account pool, failed accounts, listeners, relogins in flight and their history | load, login, relogin, QR login, start and stop of listeners, delete account | Zalo, store, runner | deletion, replacement or stop during a relogin; a second websocket of an account | one listener per account; bursts share a relogin; a deleted account stays deleted |
| Operations on personal accounts and risk control (`server.ts`, `compliance.ts`, `risk-control-store.ts`) | live configuration and its file, group and friend list caches | settings, decision, group and friend operations, list requests | channel, Flutter | partial settings over restarts; quiet hours over midnight; a list read before an operation and cached after | decisions go by what the operator was told; a fresh list shows what was answered |
| HTTP servers, secure storage, logging, other channels, integrations | little of their own | request handling and files | all | ordinary input and output | not a matter for a model |

### Flutter client

| component | state | operations | what is hard |
|---|---|---|---|
| Backend supervisor (`shared/utils/zalo_backend_manager.dart`) | process, restart counter, circuit, cooldown, health loop | start, stop, crash restart, health check, manual retry | restarts from several sources overlap |
| Live event stream client (`shared/api/crm_sse_client.dart`) | connection generation, backoff, paused flag | connect, reconnect, pause, resume | an old connection's callbacks after a new one |
| Scheduled campaigns (`scheduled_campaigns_provider.dart`) | jobs, timers, saved rows | schedule, fire, cancel, reload | reload over newer jobs, cancel during a firing, death between launch and delete |
| Live chat, account, update, lock, batch features, screens | caches and forms | user actions | optimistic updates; the rest is sequential |

How they meet: the client asks the service for a session (`/local/auth/*`),
which boots the runtime: runner, chatbot, background sync, Zalo listener. The
runner polls commands and hands START_CAMPAIGN to the executor; the listener
hands messages to the runner's handler, which stores them and pushes them to the
chatbot; operator sends go through the HTTP API and pause the bot. A logout or a
revocation stops the runtime; it cannot stop what is in flight.

## 2. Modules

| module | models | state and actions |
|---|---|---|
| `CampaignContract` | what a bulk campaign promises, abstractly | `status` and `sent` per start command; Begin, Send, End |
| `Campaign` | executor, record, reporter and session as the executor sees it | one phase per start command (`pc`), the module variables of `command-executor.ts` under their names, `inFlight` = `in-flight.json`; actions named after the await that ends them |
| `AgentSession` | coordinator, boot, resume, poll loops, heartbeat and sync pass as far as revocation goes | one phase per request (`pc`), `loop` per boot's poll loop, `runner`, `disk`, `rev` = `revokePromise` per session, `active` = the cloud's devices |
| `ChatbotReply` | debouncer, runtime, engine order, dispatcher, operator switches, in one conversation | `buffer`, a phase per flush, the tables `conv`, `processed`, `stored` |
| `ChatbotAudit` | the audit queue | `queue`, `live` posts, `rows` left to each pass, `cloud` |
| `ChatbotConfig` | fetching and caching of the bot's configuration | the row `stored`, the sync object (`starts`, `timer`, `shown`), `fetch` per fetch in flight, `cloud` per user |
| `ChatMessages` | message rows, the calls that send, and what the listener brings back, in one private conversation | `rows`, `jobs`, `synced` = the payloads that were posted, a phase per `call`, `marks`, the pinned clock `pin`, the switches `running` and `autoReply`; `live` = what the websocket is about to deliver |
| `SyncContract` | what the background sync promises, abstractly | the items there are, their versions, which are `owed`, which states have arrived; Change, Delete, Settle |
| `SyncQueue` | the queue of the background sync and its passes | `queue` by id, `enabled`, `running`, `cache` of managed groups, a phase per `pass`, `got` = the states of an item that have arrived at the cloud |
| `ListenerPool` | accounts, sessions, listeners, relogins, QR logins, health monitor, account deletion | the fields of `PersonalZcaChannel` under short names, a phase per call (`op`), `sockets` = the open websockets |
| `MediaCache` | media worker and attachments | `rows`, `files`, the two orders `arrived` and `fetched`, limits, `worker` = what the pass has still to do |
| `RiskControl` | settings and the decision | `config`, `disk`, `clock`; the order of the checks in `Allowed` |
| `PersonalOps` | the HTTP operations on a personal account and the list caches; extends `RiskControl` | a phase per operation and per list request, `cache`, `zalo` |
| `*Proofs` | the theorems about a module | |
| `MC*` | the TLC instances | constants and symmetry only |

### How they are composed

`CampaignContract` and `SyncContract` are abstract specifications; `Campaign`
instantiates the first with a refinement mapping (`Status`, `deliveries`), `SyncQueue`
the second (`Owed`: the items of its entries), and each is shown to implement it,
by TLC on an instance and by TLAPS for all constants. `PersonalOps` extends
`RiskControl`: its operations are guarded by the decision that the settings
actions of the other module move. The remaining modules meet at an interface
that each leaves open to at least what the other can do, so that what holds of
one holds beside the other:

- the session: `Campaign` has it as `running`, `booting`, `StartAgentRunner` and
  `StopSession`, `ChatbotReply` and `SyncQueue` as a start and a stop of their runtime,
  `ListenerPool` as its call `Boot` and a logout. `AgentSession` orders them; the others
  let them come in any order;
- `ChatbotAudit` continues where a flush of `ChatbotReply` ends, `ChatbotConfig` where
  its engine reads its rules;
- `ChatMessages` has the sync queue as the set `jobs`, whose members are uploaded or
  found not sent yet; `SyncQueue` takes such rows as items and shows they are not lost;
- a send of `ChatMessages` that fails is what a send of `ListenerPool` without a
  session comes to; an echo that is taken for an operator's would pause the conversation
  of `ChatbotReply`.

### Modelling decisions

*Campaign.* The recipients are `1 .. Total`, counts of successes are the set of
recipients. Of reports only what they say of the end of a run is kept: success, failure or
interrupted; a final report counts the whole list as processed whatever happened. A write of
`in-flight.json` may fail (`writeAll` swallows the exception) or be cut short: `Outcomes` has the
files that are possible then, `unwritten` the campaigns whose entry missed a write.
`executeCommand` and `runCampaignInBackground` import the modules they use
dynamically, but those are loaded at start, so the import settles before any
other callback: it is no interleaving point. Two poll steps may be in flight
after a quick stop and start; the model lets every queued command be taken at any
time while the runner runs, which includes that. The reporter's loop is kept as
the set of records it still has to visit; a set is more than its order. `cancelledCount`
is always 0 in the code and is left out. The other commands of `executeCommand`
are not modelled.

*AgentSession.* A device is named by the operation that registered it. A token is
written and deleted with the credentials and is not told apart from them. One
heartbeat and one sync pass in flight are told apart (a bound; a newer one
replaces an older). The resume tries up to four times in the code and as often as
it likes in the model. A fired timer's handle counts as none, since clearing it
does nothing. 409 conflicts and network trouble are one outcome, `OpFails`. The
command a poll step executes is inside the phase "polling". Failures of writing
the files are not modelled.

*ChatbotReply.* One conversation; the debounce window, the cooldown and the AI's
time are left open, so a flush or an elapse may come at any time. Audience, group
trigger and "no rule" are one outcome (`FlushSkips`), attachments one part
("file"). A stopped runtime sets `chatbotStore` to null and a flush under way
throws at its next use: phase "lost", like a death. `conv = "paused"` stands for
`pausedUntil` in the future.

*ChatbotAudit.* Rows are ordered by recording. `Limit` is 50 in the code; `Passes`
bounds how many passes are under way at once.

*ChatbotConfig.* A version is a pair of a user and a number. What a version says
is left out, except whether `validateConfigSnapshot` accepts it (`Refused`). The
12 s timeout of the request is why a fetch ends.

*ChatMessages.* One private conversation. A client id is a record of the call it
was made by and of its form, "prefixed" as the app writes it or the bare "stamp" that
the channel sends; the clock of the library is `pin`, because the channel replaces
`Date.now` while the library builds its request, and two sends at once share it. The name Zalo gives a
message is the call that sent it. Both unique indexes may refuse a row or an answer, that of the
client ids and that of the provider ids. What the listener brings while the runner is stopped is
passed over, and a customer's message that comes with the auto-reply of the account off is stored
and starts no bot. `Payload` is what the worker posts of a row: for a message from here neither
its status nor that it was recalled, save as changed content. The 30 s of a mark are an action that may
come at any time after the send. A history batch is one row of it at a time, since the
insertion is synchronous per row and rows do not depend on each other.

*SyncQueue.* An item is a message or a conversation; its content is a version.
The backoff of 2^n times 2000 ms is "later", which may become due at any time; the
year an entry that failed too often waits is "parked". Which of the states that arrive the cloud keeps is not decided here: `got` is the
set of those that have, because the payload has no version and nothing in `src/` shows how the
cloud orders them. A pass has the entries of
`getPendingSyncActions` as a set: the order in which it takes them is not needed.

*ListenerPool.* A session is a number, so that the one in the pool can be told from
one that a call still holds. Every call first awaits `ensureLoginPool`, whose listing
is not shared between calls; a login is two awaits. The scan of the credentials
directory is assumed to succeed.

*MediaCache.* One attachment per message, so a row is its message. The temporary
file that is renamed at the end of a download and the choice of a name are left
out. Several messages may have been sent with one file of the operator (`FileOf`), an unlink may
fail and is ignored, and sent rows have no size. Sizes are `Bytes`, and "too old" is a set that grows. What the cleanup is going to
remove is computed at once, since the rows it has read are not read again, and the set of old rows
is taken when it starts.

*RiskControl, PersonalOps.* A day has `Day` ticks. `Inputs` is what `sanitize`
can leave of a request's body; times of the day are assumed to be such (the code's
pattern also lets `99:99` pass). A send and a friend request take the name of the action from
their body, a send also the consent, the recent interaction and the test flag; the other handlers
name their own. A test that is let through goes no further than the channel, which makes an id up.
The channel's own acceptance of a friend request is an operation like the others that asks nobody but the switch for friends. One account;
a list is the number of changes made to it, which is enough to tell an old copy from a new one.

## 3. Runs

| run | instance | shows |
|---|---|---|
| `campaign_repeat` | the same campaign started twice, 2 recipients, one write that fails or is cut short, symmetry | `AtMostOneSend`, `OneRunPerCampaign`, `HonestRecords`, `SuccessIsWhole`, `CancelSticks` |
| `campaign_once` | two campaigns, started once each, no write fails | `RecordCoversRun`, `DeathLeavesTrace` |
| `campaign_live` | one campaign of three recipients, no write fails, fair | `ToldRunStops`, `InterruptionReported`, `MeetsContract` |
| `agent_session` | the resume and one request, of its user or of another one, fair heartbeats | `ToldOnce`, `RuntimeMatchesDisk`, `RevokedRunnerStops` |
| `chatbot_reply` | three messages, a buffer of two, symmetry | `AnsweredOnce`, `SilentWhileSilenced`, `HumanReopens` |
| `chatbot_audit` | three audits (one refused), two passes of two rows, fair | `AuditKept`, `AuditPosted` |
| `chatbot_config` | two users, two fetches, two edits each, two starts, one refused version, fair | `CurrentInTheEnd` |
| `chat_messages` | one send of the app, its retry, one of the bot, one message of the customer, one from the phone, two incidents (crash, deletion, recall, a switch turned, ...) | `InboundOnce`, `OneRowPerSend`, `NewIsActedOn`, `SentReachesCloud`, `PendingIsOwned`, `EchoIsNotOperator`, `ReportedOnce` |
| `listener_pool` | one account, two sends, one QR login, the boot, two relogins, three sessions, two mishaps, symmetry | `ListenersArePooled`, `OneListener`, `ReloginShared`, `DeletedStaysDeleted` |
| `sync_queue` | a private and a group item, two entries, two passes, one retry, two faults, two starts, fair | `AckedIsDelivered`, `PassesBounded`, `QueueDrains`, `MeetsContract` |
| `media_cache` | three downloads (one always fails), two messages sent with one file, two a pass, limits of 1 and 3, one fault, two incidents, fair | `OfferedIsServed`, `PassEndsWithinLimit`, `GoodIsFetched` |
| `personal_ops` | a day of four ticks with quiet hours over midnight, one operation (or friend event) and one list request at a time, two settings, one change, one restart | `OperatorsWordHolds`, `CacheShowsAnswered`, `AdmittedAsTold` |

Each property is stated in words, with the code it is about, where it is
defined; each has a mutant in `PROJECT.json`, a change of one action that a plausible
bug would make, under which the same run finds it violated.

### The bounds, and why they are enough

Two start commands give every conflict the code can have: same campaign (the
running set, the record keyed by campaign, the marks) and different campaigns (the
reporter visiting one record while another run finishes). Two recipients give a
run a first and a last one with one in hand in between, and three, in the live
run, a middle one that is neither; `campaign_once` is about records and not about
sends, and does with one. Crashes, boots, logouts and cancels are not bounded; the state is
finite without counters, since a command starts once and a list ends. A command
started twice is the reason for `Repeated`: the cloud may queue a campaign again. One fault of the
file is enough for a record that lags, one that stays and one that another run patches;
`RecordCoversRun` and what follows from it are about files that are written, so the two other
runs have none.

Three operations in `AgentSession` would let two requests overlap with a boot and
a revocation; the run is bounded to the resume and one request, of the same user or of
a second one, which is there for the branch of `sync` that gives up another user's
session. `ToldOnce` and `RuntimeMatchesDisk` are proved for any number. Loops and revocations are one
per boot and per session, hence bounded by the operations.

Three messages with a buffer of two make the debouncer drop one and leave two
flushes to overlap. Three audits, two of them listed by a pass and one always
refused, put a refused row in front of others and let live posts and both passes
hold the same row. Two fetches, two starts and two users are the least with which
an older sync object's fetch, or another user's, saves after a newer one.

In `ChatMessages` each kind of message appears once: the code relates a message
to its own echo, receipt, history row and retry, and two sends at once, the operator's and the bot's, share
`Date.now`. `MaxCopies` leaves room for a second row, which `InboundOnce` says there
is not; two incidents are for instance a receipt and a crash.

`ListenerPool` has one account because accounts share nothing but the listing; two
sends that find the same expired session share a relogin, and a third session
leaves one to be replaced. `SyncQueue` needs two passes and two starts for
passes that overlap, and a group item because groups are asked for first.
`MediaCache` has as many good downloads as a pass lists and a bad one before them,
and one limit that holds everything beside one that does not; two messages sent with one
file are the case in which an eviction reaches another row. In `PersonalOps` one
change and one request are enough for a list that is read before and cached after,
and two writes and a restart for partial settings that are laid over each other.

Deadlock is not checked for `AgentSession` (when every request is answered, no
session is left and nobody signs in, the process just waits) and for `ChatMessages`,
`ListenerPool` and `SyncQueue`, where nothing may be left to send, to log in or to report.

### Fairness

- `Campaign!FairSpec`: the awaits of a run end (a send or a report returns or
  throws, a delay elapses). Node guarantees it for timers, the HTTP client's
  timeouts for reports; for sends it is the channel's.
- `Campaign!RestartSpec`, for `InterruptionReported` only: besides, the
  application is opened again, its boots succeed again and again, and a report
  that is tried again and again arrives. Without them nobody would tell the
  cloud; the code has no other way.
- `AgentSession!FairSpec`: the heartbeat timer fires while a runner runs, and the
  heartbeat of a revoked device is answered now and then. Nothing is assumed of
  operations.
- `ChatbotAudit!AuditFairSpec`: a stopped runtime is started again, the audit timer
  fires, a post ends, an acceptable row that is posted again and again is answered,
  and the process does not die for ever in the middle of a pass. `AuditPosted`
  also needs fewer refused rows than a pass lists, which the instance states: the
  code never gives up a row, so with 50 refused ones nothing later is posted
  again.
- `ChatbotConfig!FairSpec`: the interval of a running sync fires again and again,
  every fetch ends (its request is aborted after 12 s), and fetches of the current
  user that are made again and again are answered. `CurrentInTheEnd` is about a bot that
  stays up and a user who stops editing.
- `SyncQueue!FairSpec`: the tick of an enabled worker comes, each await of a pass
  ends, a backoff elapses. Faults are bounded, so requests succeed in the end;
  entries that are parked count as drained.
- `MediaCache!FairSpec`: the interval and the awaits of the worker. `GoodIsFetched` asks
  besides that what is there fits into the limit from some point on: otherwise downloads and
  evictions go on for ever. As with audits, it needs fewer rows that always fail than a pass lists.
- Everything else is checked without fairness.

## 4. Known divergences

Some statements that the documentation or a comment makes do not hold of the code
in every interleaving. They are definitions of the modules, with the reason, and
no run states them:

1. `RecordCoversRun` (`Campaign`) of a campaign that is queued again.
   `reportInterruptedCampaigns` awaits the report of a dead run and then deletes its
   record *by campaign id*. If the cloud queues the campaign again meanwhile, the
   record deleted is that of the new run, and a death during it leaves no trace.
2. `OnlyTheDeadAreInterrupted` (`Campaign`). The reporter walks a snapshot of the
   records. A campaign that was running when the snapshot was taken and completes
   while an earlier record is reported is then no longer running, and is reported
   as interrupted.
3. `LogoutStopsRuntime` (`AgentSession`). `bootRuntime` does not look, after
   `initializeZalo`, whether its session is still there: a logout during it stops a
   runtime that is not started yet, and the boot starts it afterwards with the deleted
   credentials. The next 403 ends it (`RevokedRunnerStops`) if the logout's
   best-effort disable reached the cloud.
4. `OnlyRevokedSessionsGo` (`AgentSession`). `revoke` deletes whatever session is
   current when its await ends, also one that a forced sync activated in between.
5. `SilentInCooldown` (`ChatbotReply`). The bot looks at the conversation's state
   once, before the AI and the typing signal are awaited; a reply of an operator in
   between does not hold back the bot's.
6. `BreakerCountsRelogins` (`ListenerPool`). The limit of relogins in a window counts
   the sends that ask for one, also those that share one: a burst of sends opens the
   breaker after a single relogin.
7. `ConfirmedIsNotFailed` (`ChatMessages`). The app's rows carry the client id with a
   prefix until Zalo has answered, and the echo carries it without. An echo that comes
   before the answer is stored as a message of its own; the unique index then refuses the
   answer, and the row that was sent is marked failed.
8. `OnlyCacheIsEvicted` (`MediaCache`). An attachment that was sent has the operator's
   own file as its `localPath`, and the cleanup takes every ready row: it deletes the
   operator's file.
9. `SharedIsServed` (`MediaCache`). When two messages were sent with one file, the eviction of
   the one row takes it from the other, which goes on offering it.
10. `SuccessIsComplete` (`Campaign`). A logout while a resume awaits `initializeZalo` sets the
   cancel-all flag, and the resume does not reset it. A campaign that starts then leaves its loop
   at once, and since `wasCancelled` looks at the campaign's own mark only, it is reported as a
   success with the whole list processed and nobody sent to. `SuccessIsWhole` says that this is
   the only way: everyone or nobody.
11. `ArrivesInOrder` (`SyncQueue`). Of two passes under way one may read a row before a change
   and report it after the other has reported the change. The entry is acknowledged, and the
   payload (`sync-worker.ts:102-148`) says nothing by which the cloud could tell.
12. `FriendsSwitchHolds` (`PersonalOps`). The switch for friends is asked only for the actions
   that are under it, and a friend request takes the name of its action from the body
   (`server.ts:1821`, `1832`), as a send does (`1753-1757`).

Seen while modelling, without a definition of their own: the handlers of `server.ts` pass
counters of zero to `evaluateCompliance`, so daily limit and failure limit never
refuse anything there although the header of `compliance.ts` speaks of them;
a write of `in-flight.json` that fails is swallowed, so the record then lags by more than
the recipient in hand, or stays of a run that is over, which the next boot reports as interrupted
(`HonestRecords` excuses the entries concerned); that a message sent from here was recalled reaches the cloud as its
content, never as `isDeleted` or a status; a message whose rows were deleted is new to the bot
when it is delivered again, and counts as another one in `ChatbotReply`; a run's record is deleted before its
final report, so nothing is left if that is lost (`command-executor.ts:404`); a message the
debouncer drops from a full buffer is never answered (`chatbot-debounce.ts:49`); after a friend request was accepted by the
channel itself, the cached list of friends is not dropped; a list that was requested before an operation and answered after it is cached for a
minute (`CacheShowsAnswered` excuses exactly these); after a change of user the bot answers by
the previous user's configuration until its first fetch has been answered.

## 5. Proofs

TLAPS checks the following for every value of the constants that satisfies the
assumption of the module: `CampaignAssumption` (any set of start commands and
campaigns, any map between them, any list length of at least one),
`SessionAssumption` (any set of operations with the resume among them),
`ChatbotAssumption` (any set of messages, a buffer of at least one), `AuditAssumption` (any
audits and passes, a limit of at least one row),
`PoolAssumption` (any accounts and calls with different names), `SyncAssumption`
(any items, finitely many passes), `MessagesAssumption` (any sends, retries and
messages with different names, finitely many of the customer, client ids no names),
`MediaAssumption` (finitely many attachments, any sizes and limits in bytes) and `RiskAssumption` (any environment, any inputs with valid fields). The
bounds are constants as well, so the theorems hold for each value of theirs. The
invariants each argument goes through are stated at the end of the module it is about,
and TLC agrees with all of them on the instances above.

**`CampaignProofs`.** `TypeCorrect`, `SendsAtMostOnce`, `RunsAreExclusive`,
`RecordsAreHonest`, `CancellationSticks`, `SuccessIsTrue`, `RecordsCoverRuns`,
`DeathsLeaveTraces` and `ImplementsContract`. None of the
properties is inductive by itself. The argument goes through the parts of `IInv`:

- `CursorInv`: a run in its loop has one of the recipients in hand, so the cursor
  stays in range (`TypeOK` needs it);
- `SendInv`: nobody beyond the recipient in hand was sent anything, the one in hand
  exactly when the send has left; this is why a run cannot send twice, and it
  survives a crash because no action puts a run back into its loop;
- `OneRunPerCampaign`: `runningCampaigns` is the set of campaigns with a live run;
- `RecordInv`: unless its entry missed a write, the record of a campaign belongs to its live run
  or to a dead one, and lags at most by the recipient in hand;
- `CancelInv`: the mark of a run that was told to stop stays until the run has left
  its loop. The mark is per campaign, so this needs `OneRunPerCampaign`: another
  run of the campaign would clear it.

`SuccessIsTrue` adds what the final report of a run may say while it is on its way
(`SuccessInv`), and that a run which was not told to stop leaves its loop only at its start or at
the end of its list (`WholeInv`). `RecordsCoverRuns` and `DeathsLeaveTraces` hold under two hypotheses they
state, a campaign is started once (`StartedOnce`) and no write fails (`MaxFaults = 0`); both
are needed: section 4 shows the first, and a file cut short holds no records at all. Their invariant,
`TraceInv`, says what the reporter's list and the closing reports can still
delete: only records of commands that are no longer queued or in their loop. `RecordAssumption`
keeps the value for "no record" apart from records.

`ImplementsContract` maps each step to a step of `CampaignContract` or a stutter:
a start to `Begin`, `Deliver` to `Send` (by `SendInv`), the end of a loop and a crash
to `End`.

**`AgentSessionProofs`.** `TypeCorrect`, `TellsOnce` and `RuntimeAgrees`.
`TellsOnce` needs only that each revocation that ended told Flutter (`ToldInv`),
because `revokePromise` is per session and never reset while its session is
current. `RuntimeAgrees` is about requests, the resume and revocations that follow each
other (`clean`):

- `EpochInv`: only an activated session is current or revoked, so a fresh
  activation always finds its own revocation unstarted; and only a boot that ended
  has started the runner, so no new request changes the credentials it works with;
- `AloneInv`: one operation is at work at most, and none beside a revocation;
- `RuntimeInv`: at every step of the one at work, runner, background sync and disk
  agree, phases behind a stop have no runner, and a boot (or a retry of the
  resume) has the credentials that are on disk.

**`ChatbotProofs`.** `TypeCorrect`, `AnswersOnce`, `StaysSilent`,
`OnlyHumansReopen` and `AuditsAreKept`.

- `BatchInv`: a message is in the buffer or in the batch of one flush, never
  both: messages are buffered only when they are not in the store yet. This is
  what keeps overlapping flushes apart; `processed` is not needed for it;
- `ReplyInv`: nothing was sent in answer to a message whose flush has not got there;
- `HeardInv`: while the bot may speak all stored messages are heard, and what a
  flush engages with was heard. It is why the single look at the conversation's
  state is enough for `SilentWhileSilenced`, and not for `SilentInCooldown`.

`OnlyHumansReopen` needs no invariant, but a look at every action. `AuditsAreKept` is about
`ChatbotAudit`: `AuditInv` adds to `AuditKept` that what is queued was recorded, so a new audit is
not in the queue yet. A row goes only after an answer, and what was answered is in the cloud;
that the deletion of a row takes that one alone needs that no row is in the queue twice (`DeleteRow`).

**`SyncQueueProofs`.** `TypeCorrect`, `NothingIsForgotten`, `PassesAreBounded` and
`ImplementsContract`. `AckedIsDelivered` says a change has an entry; a pass that read the row earlier
may be about to delete just that entry. `AckInv` therefore asks for an entry that
*no pass has in hand with an older state of the row*: every change enqueues a new one,
and whoever acknowledges that one has read the row after it. `WorkInv`
keeps the entry in a pass's hand an entry of its item, which holds since ids are not
used twice. `BoundInv` counts passes: a worker that may begin one was started once more
than passes are under way; this is arithmetic on cardinalities.

`ImplementsContract` maps `enqueueSyncAction` to `Change`, `deleteMessage` to `Delete`, and whatever
a pass, a retry or a failure does to `Settle`. That an item may be owed no more is `AckInv` in
the new state, together with `GotInv`: neither the cloud nor a pass has a state
the row has not been in. The contract promises arrival and no order of arrival (section 4). For groups the contract promises less on purpose:
an entry of a group that is not managed goes without a report.

**`ListenerPoolProofs`.** `TypeCorrect`, `OnlyPooledListen`, `NoSecondListener`,
`BurstsShareRelogins` and `DeletionLasts`, all from one inductive invariant:

- `CallsInv`: a session that a login has just got is in no pool and in no other call's
  hands, so adding it to the pool cannot make two accounts share one;
- `SessionsInv`: the session in the pool is of its account, and the listeners are those of
  the pool; `OneListener` follows, because a pool has one session per account;
- `SharedInv`: the relogin that is shared is under way and for that account; so it can
  end once only, and takes all that wait for it along;
- `DeletedInv`: of a deleted account there is neither a file nor a login under way. Both
  are needed, since either brings an account back, and this is why the property
  excepts an account that was deleted during its login.

**`MediaCacheProofs`.** `OffersAreServed` and `PassesKeepTheLimit`. `ServedInv` adds that a
download which is over is in place when its row is written, and that a file of the operator is
there until it is sent. A pass removes the file before the
row, which is one exception the property makes; a file that was sent twice is the other. It
needs of `OrderInv` that only received rows are downloaded. The limit goes through

- `OrderInv`: a row stands in each order once, and what is cached is in the order the cleanup
  reads; this is why the cleanup counts every cached file, and counts it once. It needs that
  what a pass has still to download is not downloaded yet;
- `LimitInv`: what is cached and not among the rows still to be removed is within the
  limit of this cleanup. A deletion between two removals only makes it less, and no
  download is recorded meanwhile, since one worker does both.

The loop of the cleanup is a recursive function, and a sum of sizes the number of
bytes, those of different files told apart, so that the library's theorems on finite sets apply.
`Recursion` shows by the least number that has none that functions over `0 .. n` defined by
steps exist; `OnlyFacts` and `DueFacts` then take the least index at which the loop is wrong. `DueFacts`
says what the cleanup is about: the total it counts down is the size of what it leaves, and it
ends within the limit or with nothing left.

**`PersonalOpsProofs`.** `SettingsPrevail`, `AnsweredIsShown` and `DecisionsGoByTheWord`. `SettingsInv` relates
the operator's last word to the file and to the live configuration field by field: what
is neither lost in a torn file nor in memory only is the same in all three, and a
restart reads from the file what the configuration held. `AnsweredIsShown`: `ListsInv` adds that what was read of
a list is never newer than the list. `DecisionsGoByTheWord`
needs that the configuration is as told (`ConfigAsTold`, from `SettingsInv`) and that the
test of the hour with its wrap over midnight says the same as the interval of ticks modulo a
day that the property goes by (`QuietIsQuiet`). The switch is that of the action the request named
(`AllowedUnder`), whatever the operation then does. Its hypothesis is the mode `personal_zca`, the
only one in which the service reaches Zalo.

**`ChatMessagesProofs`.** `TypeCorrect`, `WaitingIsOwned`, `SentIsReported`,
`CustomersAreStoredOnce`, `NewsIsActedOn`, `EchoesAreKnown`, `SendsMeetInOneRow` and
`MessagesAreReportedOnce`. `PendingIsOwned` is inductive with the types
alone: each way to lose the owner of a row ends the row's waiting or leaves the call refused
or dead. `SentReachesCloud` is about what would be posted of a row (`Payload`): whatever
changes that queues the very row, and what does not (a receipt, a status) leaves it as it was.

`CustomersAreStoredOnce` and `NewsIsActedOn` are about messages that were not sent from here,
and both lookups of the store could go wrong for them. Their invariant is

- `CidInv`: the name and the client id of a foreign message are its own, in the rows, in
  every call, mark and pin; in the rows the two go together (`RowsApart`). So neither an answer,
  nor an echo, nor a mark reaches the row of a foreign message, and a lookup by either key
  finds it if and only if it is stored;
- `StoredInv`: a stored message of the customer stays unless it is deleted, and what it
  counted as unread is bounded by what was stored;
- `HeardInv`: what of them is in the table was acted on, came as history first, or came with the
  bot switched off. What comes while the runner is stopped is not in the table. It
  is needed since a known message is not acted on again.

The other three are about what was sent from here, whose answer and echo look for one row under
two keys while the clock that makes client ids is shared. Their invariants build on each other:

- `OwnInv`: a call works with the client id of its row, and what Zalo gets is that one, that of
  a send which pins the clock, or one the library makes itself;
- `MarkInv`: every client id in use is marked or its mark's time is over, and so is every name
  that was answered. With `OwnInv` this is `EchoIsNotOperator`: the echo finds one of the two;
- `RowInv`: a row that was inserted for a message has its client id, no two rows have one, and a
  row bears a name only by its call or by that message's client id;
- `StandInv`: the row of a call stays until it is deleted, and loses the prefix with the answer;
- `PlaceInv`: where the client id of a send of the app stands in another row, there is a message
  that displaced it: one whose echo came before the answer, or after the answer was lost, or
  another call's that went out on the pinned clock. It, or an
  echo that put the name in a row of its own before the answer (`early`), is the only reason for a
  refusal by either index, and with the above `OneRowPerSend` follows;
- `ReportInv`: a foreign message that was reported is in the table unless it was deleted, and of a
  call the echo was reported as the operator's or the answer was. So the path that comes second
  finds the row, or the name among the marks (`MarkInv`), and `ReportedOnce` follows.

Only model-checked: liveness, because ENABLED and fairness are out of the prover's reach. Every
invariant and every action property of the runs is stated by a theorem.

## 6. Plan

Next, in this order:

1. `Debounce`: the debouncer with time: a message waits at most `maxWait`, nothing
   is flushed after a stop. `ChatbotReply` leaves the time open.
2. `BackendSupervisor`, `SseClient` and `ScheduledCampaigns` on the Dart side: restarts
   from several sources and the circuit breaker; an old connection's callbacks after
   a new one; a reload over newer jobs, a death between launch and delete.
3. `ChatMessages` above `SyncContract`: its set `jobs` as what the contract calls owed.
4. Backoff and business hours against reference definitions over bounded inputs.

## 7. Not modelled

The Flutter client, for the present: its screens and forms by their nature, the
three classes of the plan because the service came first. In the service: readers
and settings (SQL over one table at a time), migrations, logging, file and DPAPI access,
HTTP routing and parsing, the conversion of message contents, the other channels
(thin wrappers around vendor APIs), n8n webhooks, workflow templates, the files of
the knowledge store. The remaining commands of `executeCommand` are a call each
and a report. `markAutoApproved`, by which the bot keeps silent for ten minutes towards a friend the
channel has just accepted, only makes the bot answer less and is left out of `ChatbotReply`. The cloud and Zalo appear only as external actions (such as `Deliver`,
`Registers`, `TakenOver`, `Post`), which do what the code in `src/` shows it expects of them.
