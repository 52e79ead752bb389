# Kuroome: verification of what its processes, pages and tables share

TLA+ modules of the parts of this repository where something is shared: the
credit ledger both backends write, the messages that go through Redis and
RabbitMQ, the WebSocket and the login of a browser, and the pages whose
asynchronous functions overlap. TLC checks the modules on small instances;
TLAPS proves every invariant of the passing runs, their action properties and the
refinement for all instances. The reference is the code: each definition that
models code is listed with its lines in `PROJECT.json` under `map`.

Paths below leave out `src/`; `go/` stands for `src/go-backend/internal/`,
`py/` for `src/backend/app/`, `vue/`, `react/` for
`src/frontend/apps/vue-app/src/` and `.../react-app/src/`, `pkg/` for
`src/frontend/packages/`.

## 1. The system

A Go backend (HTTP and WebSocket API, users, content, sync) and a Python
backend (language-model features, learning, scheduled and queued tasks) share
one PostgreSQL database, one Redis and, for Python, MongoDB and RabbitMQ. Two
web applications and a browser extension (Nomu) are the clients.

```
 pages --HTTP (access token, refresh cookie)--> Go handlers --> CreditService ---\
   |  |                                          |   |                           >-- credit_wallet,
   |  +-- WebSocket /ws (visitor count) --> ws_handler   |  Python call_with_billing/   credit_transaction
   |                                         |   |         |
   |                                         |   |         +-- dispatch --> RabbitMQ --> worker parse_product_snapshot
 extension --WebSocket /nomu/sync--> HandleSyncWS  |                                          |  HSET, PUBLISH
                     | read loop  ---> syncbus.Bus ---------------------------> Redis <-------+
                     | delivery loop <- pubsub.Dispatcher <-- SUBSCRIBE, one connection
```

### 1.1 Components that are modelled

| Component | State it keeps | Operations | Interacts with | What is hard |
|---|---|---|---|---|
| Credits: `go/service/credit_service.go`, `go/repository/postgres/credit.go`, `py/services/credit_service.py` | wallet row, transaction rows with a unique index on (source, user, biz id), prices | Preconsume, Refund, Settle, Grant, GrantRegisterBonus, GetBalance; Python preconsume, refund | both backends write the same rows | look-ups before the transaction go stale; duplicates meet at the unique index; answers lost after the commit; debts |
| Billing: `py/api/v2/_billing.py`, `go/service/nomu/design_service.go` | none of its own | call_with_billing, dispatch_with_billing, Generate | credits; the paid service | cancellation at every await, crash between charge and refund, replay of a key |
| Product parse: `py/plugins/task/tasks/nomu_parse.py` | the queue, the pool | parse_product_snapshot | billing, broker, pool | redelivery after a worker died, refund after delivery |
| Dispatcher: `go/infra/pubsub/dispatcher.go` | table of subscribers, their Go channels, one Redis connection | Subscribe, cancel, consume, Close | sync bus, pool, visitor count | lock released before the sends; SUBSCRIBE executed later; full channels; loss of the connection |
| Sync bus: `go/service/syncbus/bus.go`, `go/handler/nomu_sync_ws_handler.go` | a Redis LIST per device | Publish, Replay, Subscribe, Ack | dispatcher | pipeline of three commands, replay against live messages, several connections of a device |
| Collection pool: `go/service/syncbus/collection_snapshot.go`, same handler | a Redis HASH per account | Put, List, Claim, ClaimClear, notify | dispatcher, the Python worker | competing claims, best-effort notifications, list and updates from two goroutines |
| WebSocket manager: `pkg/utils/src/websocket.ts`, the hooks that drive it | one socket, one timeout, the handlers on them | connect, disconnect, events, online, visible, unload | visitor count | replaced sockets whose events are still to come; overwritten timeouts |
| Visitor presence: `go/service/ws_service.go`, `go/handler/ws_handler.go` | a set of visitors, reference counts | register, clean up | WebSocket manager, Redis | several handlers of one visitor, a command at a time |
| Session: `go/service/user/auth.go`, `pkg/api/src/apiClient.ts`, `refresh.ts`, the auth stores | a HASH of refresh tokens per user; cookie; access token per tab | login, refresh, eviction, logout, retry of a 401 | one cookie, several tabs, other devices | HGET then HSET then HDEL; eviction from a stale look; cooldown; lost answers |
| Course page: `vue/features/learning` (`useLearningCourse.ts` and its two views) | refs, one poll timer | submitTopic, loadCourse, generateNextLesson, markSessionDone, polls | the course API | overlapping polls that share one timer; late answers; unmount |
| Blog editor: `vue/features/blog/BlogEditorView.vue`, `upload/runtime/markdownImageRuntime.ts` | text, draft in localStorage, files behind blob URLs | edit, autosave, restore, upload, publish, leave | posts API, uploads | publication that fails half-way or ends after the page |
| Fishing map: `vue/features/fishing/stores/fishingMap.ts`, `pkg/utils/src/sequencedTask.ts`, the React store | data, error, loading | fetchWeatherAndFishing | weather API | overlapping fetches answered in any order |
| Picture wall: `vue/features/pic/composables/useGallery.ts`, `react/features/pic/PicGalleryView.tsx`, `py/repositories/gallery_repo.py` | rows of `gallery_image`, the list on each page | fetch, save of a whole list, PATCH of a caption | two applications, one table | replacement of all rows at READ COMMITTED, ids that go stale, answer before commit |

What makes them correct, in a sentence each. Credits: the rows of a wallet add
up to it, one of the callers of a key is told that it was charged, a refund gives
back no more than its charge. Billing: what was delivered stays charged, what
was not is refunded. Product parse: an acknowledged task left a product or a
refund. Dispatcher: nothing is sent on a closed channel, nobody is deaf or
waits for ever, a slow reader holds up nobody. Sync bus: an envelope stays in
the queue until it is acknowledged, expired or pushed out, and a connection
sees what is in it. Pool: one claimer gets an entry, and a client renders what
is there. WebSocket manager: a page has one live socket and gets it back.
Presence: who has left is not counted. Session: the cookie a browser holds
works, and no more devices stay logged in than the limit. Course page: every
poll can be stopped and ends. Blog editor: a page that closes without a warning
holds nothing that is nowhere else, but for what a publication took away.
Fishing map: the last request is what is shown. Picture wall: a caption stays
on its picture, and a failed save costs nothing.

### 1.2 Components that are not modelled

`PROJECT.json` lists each with its reason. Where the reason is not size:

* Learning progress (`py/services/learning_progress_service.py`,
  `py/repositories/learning_repo.py`). A course id is made per submission, so no
  two workers share a document, and `merge_progress` has no caller under `src/`.
  What is left is two writers of one field: the expiry of a pending course and
  its worker. The page that polls it is modelled, with any answer.
* Magic login, the deduplication guard, rate limiters, event bus. One Redis
  command, or one critical section, per operation: a model would restate it.
* Passkeys. The protocol is the library's; the code adds the storage of a
  challenge.
* Dev tasks. CRUD, and an optimistic update that is undone by fetching
  everything again; `syncColumn` has no caller.
* Language-model features. Prompts, streams and parsing. In `Billing` and
  `ProductParse` such a call is one outcome. The AI companion of the Vue
  application runs one stream at a time, by its flag.
* Content, RSS, notifications, monitoring, proxies, third-party data: CRUD,
  schedules of single passes, formatting and I/O.

## 2. Plan

| Order | Module | Of | Composes | State |
|---|---|---|---|---|
| 1 | `CreditLedger`, `CreditService` | the tables and the operations | ledger + service | checked; safety proved |
| 2 | `CreditSpec` | what the service promises | refined by `CreditService` | checked; the refinement proved |
| 3 | `Billing`, `ProductParse` | charge, call, refund; queued tasks | ledger + calls + broker + worker + pool | checked, with liveness; safety proved |
| 4 | `Dispatcher`, `PubSub` | the shared subscription | dispatcher, any client | checked, with liveness; safety proved |
| 5 | `SyncBus`, `CollectionPool` | device queues, the shared pool | dispatcher + Redis + connections (+ worker) | checked, with liveness; safety proved |
| 6 | `WebSocketManager`, `Presence` | the page's socket, the visitor count | page + network + handlers + Redis | checked, with liveness; safety proved |
| 7 | `Session` | login, refresh, logout | tabs + refresh client + service + other devices | checked; safety proved |
| 8 | `CoursePage`, `BlogEditor`, `FishingMap` | three pages | page + backend | checked; safety proved |
| 9 | `Gallery` | the picture wall | pages of two applications + transactions | checked; safety proved |

The plan is done, and every property of the passing runs but liveness is proved.
What could come next is an abstract mailbox that `SyncBus` refines, with `KeptInv`
and `GapInv` as the invariants the mapping would need. Of what is not modelled, the course document against its expiry and
the passkey challenge are the two with more than one step.

Abstract specification: `CreditSpec`. The properties of the other modules are
stated on their own variables; for a mailbox (`SyncBus`) or a one-shot cell
(`CollectionPool`) an abstract specification would say what `KeptUntilAcked`,
`NoGap` and `TakenOnce` say.

## 3. The modules and the code

Names are the code's where TLA+ allows it. An action is one handler's stretch
of code between two points at which others can run: a query, a transaction, a
command to Redis, a channel operation, an `await`.

### 3.1 CreditLedger, CreditService, CreditSpec

`CreditLedger` is the two tables and the statements that write them. `wallet`
is `credit_wallet`, `txs` the rows of `credit_transaction` per user in the
order they were committed, `price` the table of unit prices. A transaction is
one action: it locks the wallet row, so transactions of one user are serial.
`Posts` is insert-and-update, `Hits` the same transaction meeting the unique
index and rolling back. `Covers` is `Debit`'s `balance >= cost`, and
`RefundApplies` the Go `total_spent >= amount` guard, which Python does not
have. A key of the ledger is a pair of a prefix (`refund:`, `settle:` or none)
and the client's key: validation refuses client keys that carry a prefix.

`CreditService` runs requests over them. A request has a program counter `pc`
whose values are the gaps between the queries of `Preconsume`, `Refund`,
`Settle`, `Grant`, `GrantRegisterBonus` and `GetBalance`; `seen` and `amt` are
its local variables (the row it read, the amount it worked out), which may be
stale by the time they are used. Where Go and Python differ, the `source` says
who runs: only Go looks the key up before the wallet (`Entry`), looks for an
earlier refund (`RefundFrom`) and guards the refund. `Transact` may commit and
still answer with an error (the connection drops after the commit), and
`Fail` ends a request at any gap.

| Operator | Code |
|---|---|
| `FindCharge`, `UnitPrice`, `Debit`, `Resolve("hitcharge")` | `Preconsume` / `_preconsume` |
| `FindConsume`, `FindRefund`, `Credit`, `Resolve("hitrefund")` | `Refund` / `_refund` |
| `SettleFind`, `FindSettle`, `SettleDelta`, `Resolve("hitsettle")` | `Settle` |
| `FindGrant`, `Grant`, `Resolve("hitgrant")` | `Grant`, `GrantRegisterBonus`, `runGrant` |
| `ReadWallet`, `CreateWallet` | `GetBalance` / `get_balance` |

`CreditSpec` is the promise: per user and key a charge that is made once, given
back once and by no more than it took, and completed once, a grant that is made
once, and what each does to the balance; nothing of tables or requests.
`Implements` is its specification under a refinement mapping that reads all of
it off the rows and the wallet.

### 3.2 Billing, ProductParse

`Billing` is a call that is paid for: `at` is where it stands, `mine` is the
`created` flag of the charge (the call made it; it is not a repetition), `imgs`
what the model yielded, `fate` how it ended. It stands on `CreditLedger`; a
charge, a refund and a settlement are one action each here, because
`CreditService` already takes them apart. `Break` is an exception or a
cancellation while the work runs, `Debit` with the fate `lost` a cancellation
while the commit of the charge is under way, `Refund` with `unrefunded` the
refund that fails and is logged, `Crash` the end of the process, or a panic in
`Generate`, whose deferred function then finds no error to refund for.

`ProductParse` puts a queue and workers between the charge and the product:
`Accept` and `DispatchFails` are `dispatch_with_billing`, `Take` to `Ack` the
task `parse_product_snapshot`, one action per await. A call that hands its task
over is answered with a receipt (`accepted`); its charge is accounted for by the
task. The broker and the task library are external: a message stays until its
worker has stored the result and acknowledged it, and comes back when the worker
dies (`WorkerDies`).

### 3.3 Dispatcher, PubSub

`Dispatcher` is `dispatcher.go`: `subs` is the table, `chan` and `box` the Go
channels and what is buffered in them, `fan` the consume loop's copy of the
targets after it released the lock, `wire` the commands written to the
connection and not yet executed, `listed` what Redis sends to the connection,
`inbox` what is on the way. `Subscribe` and `Cancel` hold the lock from end to
end. `Take` and `Send` are the consume loop, `TrySend` with its closed flag and
its drop on a full channel. `ConnectionLost` is go-redis connecting again and
subscribing to what it has; a prefix of what was on the way survives (`Cut`).

`PubSub` adds publishers and readers of every kind. `SyncBus` and
`CollectionPool` extend `Dispatcher` and use its actions for their own
subscriptions and publications.

### 3.4 SyncBus

`queue` is the LIST of a device. `push` goes through the three commands of
`Publish`'s pipeline, `RPush`, `LTrim`, `PublishLive`, and other clients'
commands run between them; `PushFails` ends it after any of them, after which
the client may push again. `loop` is where the delivery loop of a connection is:
subscribe, read the LIST (`ReplayRead`), write what was read (`Replay`, which
drops what expired, by value: `AllRemoved` is LREM 0), then write what the
dispatcher hands it (`WriteLive`).
An element of `Msgs` is a raw value, `SentAt` (in seconds) included: a push again
within the second appends the same value, a later one another with the same
`IdOf`. `AckRead` and `AckRemove` are `Ack`: LRANGE and the first entry with the
id, then LREM by value. `recent`,
`acked` and `unlisted` are history that the properties read.

### 3.5 CollectionPool

`pool` is the HASH of an account, each entry named by its id and the number of
the put that stored it. `req` is the request that a caller's read loop, or the
worker, is serving: a put is HSET, then the notification, then the answer;
`ClaimClear` is the script that reads and deletes at once; `Claim` only reads.
`List` may fail, and the client may ask again.
`view` is what the client renders, by the rules of `collection-snapshot-sync.md`:
the list is merged in, an update adds or removes an entry. The delivery loop
(`SubscribePool`, `WriteUpdate`) and the read loop (`Ask`, `List`, `Answer`) of
a connection are goroutines of their own and are not ordered.

### 3.6 WebSocketManager, Presence

`mgr` is the `WebSocketManager` of a page with all sockets it has made: for each
its `readyState` and the handlers (`hooks`) that are still on it, the pending
timeout (`timer`) and timeouts whose id was overwritten (`strays`). Methods and
events run one at a time on the page's thread, so each is a function of that
record: `Replaced` and `Connected` are `connect()`, `Disconnected` is
`disconnect()`, which leaves `onerror` on the socket, `OnError` closes the
manager's socket, whichever failed, `OnClose` schedules unless the code was
1000. `Online`, `Visible`, `ReconnectWs`, `BeforeUnload` and `Unmount` are what
the hooks of the two applications make of page events.

`Presence` adds, for each socket, the handler of `ws_handler.go` that serves it
(`conn`), and Redis: `member` is the visitor's place in the set, `refs` its
count. `AddMember` and `AddRef` are the pipeline of `addVisitor`, which is no
transaction; `RemoveRef`, `RemoveMember` and `DropRef` are the three commands of
`RemoveVisitor`, the last two only after a count at or below zero. `GivesUp` is
a failure after which the handler leaves what it had registered. A socket may end
with 1006 as soon as its handler's context is cancelled (`Cancelled`).

### 3.7 Session

`stored` is the HASH `refresh:{uid}` of the service, whose tokens are numbered in
the order they are issued (their `iat`); `cookie` is the browser's, `access` the
access token each tab keeps in memory. `req` is a refresh or a login on its way
through `CreateTokens` and `RefreshTokens`: `Look` (HGET), `Store` (HSET),
`Survey` (HGETALL), `Evict` (one HDEL after another), `Rotate` (HDEL of the old
token). `RedisFails` and `RevokeFails` are the same commands failing: an HGET or
HSET ends the request, an HGETALL or HDEL is passed over, and `spared` remembers
the token that stays for it. `Begin` and `Refused` are the interceptors of `apiClient.ts`, `Refresh`
and `Throttled` the single flight and the cooldown of `refresh.ts`, `Answered`
what happens when its promise settles: the calls that waited go out again or
fail. The Vue application clears its token when the logout is answered, the
React one before it is sent. Logins of other devices run through the service
only.

### 3.8 CoursePage, BlogEditor, FishingMap

`CoursePage`: `page` has the refs of `useLearningCourse`, `timer` the id in
`pollTimer`, `intervals` those that run. A run of an async function (`run`)
goes from await to await; its poll ticks (`Tick`) whether or not the last tick
was answered, and each answer (`TickAnswered`) stops the timer there is,
whichever poll it belongs to. Functions go on after `onUnmounted`. `loadCourse`
may begin at any time on a course or lesson page: when it is opened, by the button
after an error, and by `LessonView`'s watch on the route.

`BlogEditor`: a text is the edits it holds and the images in it that are still
`blob:` URLs; `blobFileMap` has the files of those. `Open`, `Fetched`,
`adoptDraft`, `discardDraftAndLoadServer`, `Edit`, `saveDraft`, `toggleAutoSave`,
`LeavePage` and `Reload` are the page, `submit` the calls of `handleSubmit`, which
outlive it. A call takes the body and its files at the click; title, summary,
cover, tags and pin (`Fields`) are read when the uploads are done (`Payload`).

`FishingMap`: `seq` is `sequencedTask.ts`'s counter; the store is the Vue one
(guarded by it) or the React one (not).

### 3.9 Gallery

`wall` is what each page shows, an entry being an id, a picture and a caption.
`save` is a call of `saveGallery` and the transaction it leads to: `DeleteAll`
takes the rows it sees, and waits when another transaction has them locked
(`Wakes`); `Inserts` draws ids from the sequence; `Saved` answers, before or
after `Commit`, because FastAPI's dependency commits after the handler is done.
`upd` is a PATCH by id: `Find` is the SELECT, `WriteCaption` the UPDATE, which waits for
a DELETE in progress and may then find no row. Ids made up by the page
(`newPictureId`) are one value, `Local`, which no row has.

## 4. What the runs show

| Run | Question | Outcome |
|---|---|---|
| `credits` | Do requests of both backends, in any interleaving, with errors and lost answers, keep the ledger right? | All ten properties hold, and `CreditService` implements `CreditSpec` |
| `credit_replay_python` | Is a repeated key honoured as `credits-api.md:52` says, by Python too? | No: 8.1 |
| `billing` | Three calls with one key, answered at once or queued, failing, cancelled, crashing, repeated, with workers that die: is what was delivered kept and the rest refunded? | Yes, and every queued task ends |
| `billing_docs` | Does a failed call cost nothing, as `credits-api.md:40` says? | No: 8.2 |
| `product_parse_notify` | Does a failed notification leave the result alone, as `nomu_parse.py:54` says? | No: 8.3 |
| `pool_guide` | Are one list and the updates after it enough, as the guide says? | No: 8.4 |
| `realtime` | Does a page get its socket back and leave none behind? Is who left still counted? Can the shared consume loop panic, be blocked, or leave a subscriber deaf? Is a pushed envelope shown? Does every poll end? | Yes; no; no; yes, also behind one that expired; yes |
| `clients` | Do overlapping polls, publications, fetches and saves keep what their page and the backend promise? Does one of several claimers get an entry of the pool, and does a client render what is there? | Yes; one gets it; nothing is missed but by what `MissesNothing` names |
| `devices` | Does a browser keep a cookie that works, and the user the limit of devices? Can an envelope be lost by interleaved pipelines, acks, replays and trims, or fall between replay and live? | Yes; nothing is lost but by what `NoGap` names |
| `poll_after_unmount` | Does polling stop with the page, as `useLearningCourse.ts:423` says? | No: 8.5 |
| `react_logout` | Does a logout delete the token of its device, as `docs/rules/auth.md:66` says? | No: 8.6 |
| `gallery_replace` | Does a save replace all pictures, as `gallery_repo.py:28` says? | No: 8.7 |

The runs `clients`, `devices` and `realtime` look at parts that share no
state: `part` is chosen once, in the initial state, and only that part moves.
The states of such a run are the sum of its parts', not the product.

The properties, and what it takes to violate them:

* `LedgerChain`: every row's `balanceAfter` follows from the row before it, and
  the wallet agrees with the last row. A wallet update lost between two
  transactions breaks it; so does an insert that overwrites a wallet.
* `NetSpent`: `total_spent` is what the rows say, settlements and refunds
  included. The refund guard reads it.
* `RefundCovered`: a refund or a settlement has a charge before it, and a refund
  gives back no more, although the amount was worked out from a row that was
  read before the transaction.
* `RefundNeverRefused`: the `total_spent` guard, a sum over all services, never
  refuses a refund that is due.
* `ChargedOnce`: of the callers of a key one at most is told that it was charged
  (only this one may refund later), and all get the same row. That there is one row
  is the unique index, which the model takes as given; the property is about the
  requests that lose against it.
* `HitAnswersOwnRow`: who meets the unique index finds the row, of the right kind.
* `ReplayHonouredGo`, `ReplayHonouredPy`: a key that was charged before a
  request came is not refused for lack of balance.
* `OverdrawnBySettleOnly` (of steps): only a settlement takes a balance below zero.
* `DeliveredKeepsCharge`, `UndeliveredIsRefunded`: the two sides of the rule that
  only the call that charged may refund. The second names the losses that are
  left for reconciliation.
* `NetWithinImages`: a key costs between nothing and its richest attempt.
* `DoneIsAccounted`, `TasksEventuallyAccounted`: a charge ends as an answer, a
  product, a refund or a logged loss.
* `OneProductPerDelivery`: more products than one need a redelivery.
* `KeptUntilAcked`: an envelope leaves its LIST only by an ack, by expiry, or
  by `QueueCap` newer ones.
* `BacklogBounded`: a LIST is over its cap only by pushes that have not trimmed yet.
* `NoGap`: what is in the queue of a device has been written to its live
  connection or is on the way to it, but for what met a full channel or a
  SUBSCRIBE under way. `EventuallyShown` is the same as liveness, of a device
  with one connection.
* `TakenOnce`, `TakenReachesClaimer`: an entry is in the pool or has one taker,
  and the taker gets it.
* `NoPhantoms`, `MissesNothing`: what a client renders is or was there, and what
  is there is rendered unless the client can have missed it.
* `OneLiveSocket`: only the manager's own socket can make it reconnect, no
  timeout is pending that it cannot clear, and a page that was left has nothing
  under way, although replaced sockets have events to come.
* `PageConnects`: once page and network are quiet, the page is connected, or was
  told to leave, or the server has closed with 1000.
* `NobodyLeftNobodyCounted`: when no handler serves a visitor, it is neither in
  the set nor counted, in whatever order the commands ran.
* `NothingAfterClose` (of steps): nothing is sent on a closed channel, in Go a
  panic of the process, though targets are copied before they are cancelled.
* `SubscribersListed`: once the commands written are executed, Redis sends
  exactly the channels that have subscribers.
* `ClosedWakesAll`: after `Close` no channel is left open with nobody to close it.
* `NeverBlocked`: the loop finishes each message, although nobody reads.
* `OneInterval`, `EveryPollEnds`: the interval that runs is the one that
  `stopPolling` clears, and it ends, by an answer, an error, a new load, the
  unmount or its timeout.
* `CookieAlive`: the token in the browser's cookie is stored, or its successor is
  on the way; but for an answer that was lost, the device limit, and a logout.
  Two tabs that rotate one token at once are the case it is about.
* `DeviceLimit`: when no token is being issued, no more than `MaxDevices` are
  stored, although concurrent evictions each work from their own reading; but for
  one token for each command that failed before or while it was to be evicted.
* `NothingOnlyOnThePage`: a page that closes without a warning has its text in
  the draft or in a stored post, whatever publications fail or overlap. What one
  that succeeds takes away is exempted (`overrun`): `clearDraft` drops what was
  written after the click, and an update replaces a post with later edits. The
  warning is `beforeunload`; leaving inside the application gives none, and the
  property does not ask for one.
* `LatestWins`: the Vue dashboard shows the outcome of the last fetch, and loads
  as long as that is not answered.
* `OwnCaption`: a caption is on the picture it was written for, though the saves
  of others renumber all rows.
* `KeptBySaves`: a picture that all saves have stays stored, whichever of them
  fail, overlap or are answered before they commit.

Each property has a mutant: a definition changed the way a plausible bug would
change the code (an ack that pops the head, a replay before the subscription, a
refund that is not compared with its charge, a DELETE committed on its own),
under which TLC finds the property violated. The mutants stand in the modules
next to what they change and are named as such; no specification uses them.

## 5. Bounds and fairness

| Bound | Where | Value | Why it is enough |
|---|---|---|---|
| `Reqs` | CreditService | 4 requests, one user, one key | a charge, its refund, its settlement and a duplicate of any of them overlap; wallets of two users share nothing, keys meet only in the balance, which the two services share |
| `Prices` | CreditService, Billing | `{1}` or none | amounts differ by quantity; a price change between look-up and debit is explored with `NoPrice` |
| `Calls`, `MaxImages` | Billing, ProductParse | 3 calls, 3 images | a first attempt, a repetition, and one more after a refund; settled delta of 0, 1 and 2 |
| `Workers`, `MaxDeliveries` | ProductParse | 2 and 3 | a message that dies twice while another is served; the last delivery is not allowed to die, the broker's patience having no bound in the code |
| `Subs`, `Msgs`, `Buffer`, `MaxLosses` | PubSub | 3 on two channels, 2, 1, 1 | the last subscriber of a channel leaves while another joins; a full channel; a reconnect in the middle of either |
| `QueueCap`, `MaxPushes` | SyncBus | 1 with two connections and ids of their own (`devices`); 2 with one, and two envelopes of one id of which one expires (`realtime`) | both envelopes compete for the last place; `MaxPushes` 2 is a push of both, or a push that failed and its retry |
| `Ids`, `MaxPuts` | CollectionPool | one id, one put, two connections, one worker | the claims compete for one id; putting over an entry is modelled (`HSet`) and left out of the run for its size (a second put takes it past ten million states); the theorems hold for any number of puts |
| `Sockets`, `MaxAsks`, `MaxBreaks` | Presence | 2, 3, 1 | a socket that was replaced and its successor overlap; sockets that are done on both ends are used again, so there is no bound on reconnections |
| `Tabs`, `Others`, `MaxDevices`, `MaxTokens` | Session | 2, 1, 2, 4 | two tabs rotate one token while another device logs in: three tokens, one too many; a fourth for a refresh after that. `MaxExpiries` is 1, and so is `MaxFaults`: one answer that is lost, or one command that Redis fails, at any step |
| `Runs`, `MaxTicks` | CoursePage | 3, 2 | two polls overlap and a third function replaces both; two ticks unanswered at once |
| `Edits`, `Fields`, `Images`, `Submits`, `MaxVisits` | BlogEditor | a title and an image, 2, 2 | two publications of one visit, or one that ends in the next |
| `Fetches` | FishingMap | 4 | any order of more than two |
| `Pages`, `Old`, `New`, `Saves`, `Updates` | Gallery | a Vue and a React page, 1, 1, 2, 1 | both pages save over each other while a caption is on its way |

`MaxLosses` of the dispatcher is 0 in `devices`: after a lost connection to Redis
the code promises delivery at the next connection of the device only, so
`NoGap` would have to exempt everything after it. The loss is explored in
`realtime`. Symmetry is used over requests, connections and envelopes, in runs
that check safety only. What a connection that has hung up leaves behind and
nobody reads any more (its buffer, its view) is emptied.

`CHECK_DEADLOCK FALSE` stands in every configuration: requests and messages
are finite in number, and when all are done nothing is left to do.

Fairness:

* `ProductParse`: weak fairness of `Request(r)`, a coroutine of a live process,
  and of `Work(w)`, the loop of a live worker. Deaths, crashes and
  failures are other actions and carry no fairness; they may happen or not.
* `PubSub`: weak fairness of the consume loop alone. Readers are not assumed to
  read, which is what `NeverBlocked` is about.
* `SyncBus`: weak fairness of the consume loop, of Redis executing what it was
  sent, and of the delivery loop of a connection that is up: goroutines and a
  server that run. Clients are not assumed to connect, push or acknowledge.
* `Presence`: timeouts fire, handshakes are answered one way or another, sockets
  that are closing close, and handlers run. Page events and failures are not
  assumed.
* `CoursePage`: an interval that was not cleared fires. Answers of the backend
  are not assumed: a poll ends by its timeout.

## 6. Proofs

Eight modules of proofs, for every value of the constants. Two have lemmas only:
`CreditLedgerProofs`, what a posted row does to the table, and `SetSums`, sums
over functions and finite sets. The assumptions are those the modules declare:
`SourcesAssumption`, `PricesAssumption` and `AskedAssumption` (services of the two
backends are distinct and no grant channel; prices are natural numbers; what is
asked passed the validation of the handlers) for the credits; the first two and
`BillingAssumption` (wallets start with something, a generation yields something)
for the calls; `ChannelsGiven` (a subscription is to one of the channels),
`PoolAssumption` (in `CollectionPool` to the pool's), `SomeSockets` (there is a
socket, and finitely many), `NoSocketApart`; `SessionAssumption` (devices are not
tabs, a call has a tab, the limit is positive, `MaxFaults` is a number); `GalleryAssumption` (the pictures
stored at the beginning are finite in number); `BusAssumption` (an envelope is for a
device, there are finitely many, the cap is positive); for `FishingMap` a natural
number of fetches.

| Theorem | Module | States |
|---|---|---|
| `TypeCorrect`, `LedgerAddsUp`, `RefundsCovered` | CreditServiceProofs | `TypeOK`, `LedgerChain`, `RefundCovered` |
| `OneIsTold`, `HitsAreAnswered`, `ReplaysHonoured` | CreditServiceProofs | `ChargedOnce`, `HitAnswersOwnRow`, `ReplayHonouredGo` |
| `SpendingAddsUp`, `RefundsGoThrough` | CreditServiceProofs | `NetSpent`, `RefundNeverRefused` |
| `OnlySettlementsOverdraw`, `ServiceImplements` | CreditServiceProofs | `OverdrawnBySettleOnly`, `Implements` |
| `DeliveredStaysPaid`, `UndeliveredIsPaidBack`, `TasksAreAccounted` | BillingProofs | `DeliveredKeepsCharge`, `UndeliveredIsRefunded`, `DoneIsAccounted` |
| `KeysCostTheirImages`, `ReplaysAddNoProduct` | BillingProofs | `NetWithinImages`, `OneProductPerDelivery` |
| `OneTakes`, `TakersAreGiven`, `NothingAhead` | CollectionPoolProofs | `TakenOnce`, `TakenReachesClaimer`, `NoPhantoms` |
| `ListedMissNothing` | CollectionPoolProofs | `MissesNothing` |
| `LeavesByAck`, `HeldToCap`, `NothingFalls` | SyncBusProofs | `KeptUntilAcked`, `BacklogBounded`, `NoGap` |
| `OneLive`, `NobodyCounted` | RealtimeProofs | `OneLiveSocket`, `NobodyLeftNobodyCounted` |
| `CloseWakesAll`, `ClosedStays`, `NobodyDeaf` | RealtimeProofs | `ClosedWakesAll`, `NothingAfterClose`, `SubscribersListed` |
| `CookieStaysAlive`, `DevicesWithinLimit` | PageProofs | `CookieAlive`, `DeviceLimit` |
| `OneIntervalOnly`, `NothingIsLost`, `LatestFetchWins` | PageProofs | `OneInterval`, `NothingOnlyOnThePage`, `LatestWins` |
| `OwnCaptions`, `SavesKeep` | PageProofs | `OwnCaption`, `KeptBySaves` |

The arguments.

*Sums and folds.* The induction theorems of the library take an operator, which
the provers cannot instantiate. `NatSetInduction` and `SubsetInduction` say the same
of sets: a set of numbers (or of finite subsets) that has the first and, with each,
the next, has all. With a property written as such a set the induction goes
through, and from it the few facts a state invariant needs of a sum: what one row
more adds, what changing one summand changes, that a sum of natural numbers is
one and is not less than that of smaller ones. What is summed is a recursive
function of the community modules or a fold, so the model stays as TLC checks it.
The provers know nothing of `SelectSeq`; `AllRemoved`, the LREM of a replay, is
therefore written as a fold.

*Credits.* `TypeOK` is not inductive: the quantity of a settlement row is a
natural number only because `Settle` compared the quantities before, and that a
refund or a settlement has a charge cannot be seen in the types at all. The
strengthening is `IInv`: `TypeOK`, `ChargesTake` (a consume row takes), and for
every request `RequestOK`: what a request in flight still knows after any number
of steps of others. A request that refunds or settles holds a row that is a
charge of its key, and the row is still in the table because rows are only
added; the amount it worked out is at most that charge. A step does one of six
things to the tables (`Move`), which `StepIsMove` derives from `IInv` once; each
of the ledger facts is then kept by a `Move` (`ChainKept`, `CoveredKept`, and
`OneRowKept`, which says what the unique index gives) without looking at requests
again. The debt theorem and the
refinement follow from `Move` too: `MoveOverdraws`, and `MoveContract`, which maps
each of the six to a step of `CreditSpec`. What requests are told is one more
invariant over `IInv`, `AnswerInv`: a request is at a step of its own operation; one
that met the unique index has a row there to find, because rows stay; a Go
request that came after the charge of its key is at the look-up or done; and of
the requests for a key one posted the charge (`CreatedOnce`). `NetSpent` is kept by
every `Move`. It says too little for `RefundNeverRefused`: that the total covers one
charge does not follow from what all rows add up to. `SpentCovers` sums only the
charges that were not given back (`Unreturned`) and keeps the total above that; the
refund in flight has found its charge among them.

*Billing.* `CallStep` says what a step of one call may do to what all calls know:
charges and refunds stay, `mine` becomes true with a charge that was not there,
a refund appears only when the call that owns the charge has failed. Every action
of `Billing` is one (`StepOfParts` and the lemmas after it). `ChargeInv` gives each
charge one owner; with `RefundsFit`, a refund has a failed owner, so one that
delivered keeps its charge. The worker of `ProductParse` posts refunds of its own:
`TasksFit` adds that a worker that announces has put its product and one that
acknowledges has settled its call, so a message is gone only when the charge is
accounted for. `RowsFit` says what each row of a key may be worth (`Earns`): the
charge its price, the refund as much, the settlement what a call that is done owes
for its images; since a key has one row of each kind, its sum has at most three
parts, and each combination of them is worth between nothing and the images of
the call that settled.
`DeliveriesFit` numbers what a worker has put by the deliveries of its message.

*The manager.* `OneLiveSocket` alone is not kept by `onclose`: it has to be known
that a timeout is pending only when no socket would schedule another, and that a
replaced socket is closing. `Sane` says so of one record; each method and each
event maps a sane record to a sane one, and an action is a method or an event.

*Presence.* `CountInv`: as long as no handler gave up, the count is at most the
number of handlers that hold it (`Counting`), a count that is not zero has a
handler that will end it, and so has the membership. It is an inequality because
HDEL of one handler may take a reference that another has just made; the
theorem needs no more than that nothing is left when nobody is.

*Dispatcher.* `TableInv`: a channel that is open is in the table, and the table of
a closed dispatcher is empty. That the consume loop holds a copy of targets that
were cancelled since is harmless because `trySend` looks at the flag again:
`ClosedStays` is proved from `TableInv` and `BoxInv`, the types of what is
buffered. `ListedInv` is about the commands on the wire: what Redis will list when
it has executed all of them is what has subscribers. A command that is appended
changes the end of that fold, one that is executed its beginning; `SubscribersListed`
is the case of an empty wire.

*Pool.* `PoolInv`: a put is in the pool, went under a later one, or has one taker,
and the taker bears it from the script to its answer, or its connection has
ended. Commands on the pool are atomic in Redis, so what has to be carried is the
request between them (`ReqFits`: its kind, its step and what it holds). `TellInv`
is for `NothingAhead`: whatever names an id as put - a list that was read, a
notification to be sent, a message on the connection, in the hands of the consume
loop or in a buffer, a view - names one that has been put. It holds because the
steps of a put have the HSET first. `KnowInv` is for `MissesNothing`: of each id in
the pool that was put once, a client that has listed renders it, has its update
coming, or is recorded to have missed it. What is in the pool when the list is
read is in the answer. What is put later is announced later (`Announcing`): it is
sent to a connection in the table, and recorded for one that is not there yet.

*Sync bus.* That the last envelopes are in the queue is not inductive, since LTRIM
cuts what is oldest: `KeptInv` says of each (`Backed`) that no more came after it in
the queue than came after it altogether, fewer than the cap, and LTRIM keeps
those. `CapInv` counts less than the property: a push that has not appended yet is
not counted (`Owing`), so RPUSH adds one to both sides, a push that fails goes on
being counted, and LTRIM takes the length below the cap whatever is counted.
`GapInv` is on everything between a push and a connection: while no connection
to Redis was lost (`Reached`), what a connection is owed (`Owed`) is in what it has
read, written, on its way, or missed at a full channel or before its SUBSCRIBE.
All that is owed when the LIST has been read was in it; what is appended later is
published later, to a connection that was in the table before it read.

*Session.* `SessionInv` is the types, `Undelivered` and `CookieAlive`: a token that was
issued and not yet delivered is stored or evicted, and no cookie, request or
logout has seen it. So whoever deletes a token deletes one that was seen, and
the cookie can only lose its token to a request that carries the successor.
`StaysInLimit` counts the stored tokens less those whose own request has still
to look at the limit, or is taking them out: that number is kept within the
limit by every step (`YoungestFit` bounds what one look leaves), and when no
request is under way only what a failure spared is subtracted.

*Course page.* `Tidy`: a page's running intervals are among the one in its timer;
every function that starts an interval has stopped the old one. *Blog editor.*
`EditorInv` adds to the property that a publication that was answered with success
has its text in the posts (`StoredKept`), which the page relies on when it clears
its draft. *Fishing map.*
`MapInv` adds that calls are numbered in order. *Gallery.* `OwnCaption` alone says
nothing of a save or a PATCH on its way. `OneId`: an id the table has given
belongs to one picture for ever, in rows, pages, saves and updates, and all are
below the sequence; `Given`: rows and stored updates have such ids; `OwnText`:
every caption anywhere, also the one a Vue page would put back, was written for
its picture. Steps that hold nothing new keep these by one lemma (`Derived`);
only the insertion makes ids, above all there are. `KeptBySaves` needs no more of
one save than that it inserted its list (`InsertedFits`): a commit puts all of that
list into the table, and no other step takes a picture out, so where no save
leaves one out (`NoneDrops`) none is lost by a save that fails.

## 7. What is model-checked only

Liveness: `TasksEventuallyAccounted`, `NeverBlocked`, `EventuallyShown`,
`PageConnects` and `EveryPollEnds`. The prover does temporal steps without ENABLED, so
what fairness brings about stays with TLC and its small instances. All else that
a passing run checks is proved.

The type invariants of the modules other than `CreditService` stand in the
modules and are in no run; those of the modules with theorems are part of the
invariants proved.

## 8. Where the code and its documents differ

1. Repeating a charged key with an empty wallet (`py/services/credit_service.py:161`).
   Python updates the wallet before the unique index sees the key, so the
   repetition is answered 402; `docs/credits-api.md:52` says that it is processed
   as the first request was. Go looks the key up first.
2. A client that goes away while its charge is committed (`py/api/v2/_billing.py:48`,
   `go/service/nomu/design_service.go:188`). The charge is outside the `try` that
   refunds; `docs/credits-api.md:40` says that a disconnect is always refunded.
3. A failed notification of a parsed product (`py/plugins/task/tasks/nomu_parse.py:55`).
   It is inside the `try` whose handlers refund; the comment above it says that
   a failed notification does not affect the result.
4. The list of the pool and the updates after it (`go/handler/nomu_sync_ws_handler.go:138`).
   The subscription is made in a goroutine of its own and not waited for; the
   guide (`collection-snapshot-sync.md:55`) says one list after connecting and
   the updates are enough.
5. Polling after the page (`vue/features/learning/composables/useLearningCourse.ts:169`).
   `onUnmounted` stops the poll there is; a request that is pending then starts
   one afterwards. The comment at `:423` says that polling stops with the
   component.
6. Logout of the React application (`react/features/auth/stores/authState.ts:111`).
   It clears the access token, then posts `v3/logout` without one: 401, and the
   refresh token stays in Redis and in the cookie. `docs/rules/auth.md:66` says
   that a logout deletes it.
7. Overlapping saves of the picture wall (`py/repositories/gallery_repo.py:29`).
   The second DELETE waits for the first transaction and does not see the rows
   it inserted; the table has the lists of both. The docstring says that a save
   replaces all images.

Behaviour the models show that no document denies, or that is weaker than a
divergence:

* A task delivered again may fail and refund a product its first delivery
  stored; it may also store it twice. A key whose charge was refunded runs free
  when it is repeated (`credits-api.md:161`).
* A device that is past its replay while its SUBSCRIBE is under way gets an
  envelope only at its next connection, since `Publish` reads zero receivers as
  offline (`bus.go:125`); the same holds for what met a full channel
  (`dispatcher.go:117`). LTRIM drops the oldest envelopes of a device that stays
  away.
* A visitor that connects between the HINCRBY to zero of a leaving handler and
  its SREM and HDEL is connected and not counted.
* A rotation at the device limit takes the token of another device: the old
  token of the rotation still counts when the limit is looked at. An answer that
  is lost after the rotation leaves the browser with a cookie that is dead.
* A late answer of a poll stops the timer of a newer one, whose promise is then
  never settled, and the button it disabled stays so.
* A publication that fails after its uploads empties `blobFileMap`; the second
  attempt publishes the `blob:` URLs that are still in the text, and so does one
  from a restored draft (the comment at `markdownImageRuntime.ts:142` says that all
  blob images are uploaded and their URLs replaced). A second click during the
  uploads posts twice.
* The React fishing map shows whichever fetch was answered last
  (`react/features/fishing/stores/fishingMapStore.ts:113`).
* The picture wall: a first fetch that failed, or was answered with the empty
  list of a database error, followed by an upload, saves a list without the
  stored pictures. After a save every page has ids that are gone, and its next
  PATCH is refused. The Vue page's rollback of a failed PATCH undoes another one
  of the same picture (`useGallery.ts:71`), and the React page, whose functions
  keep the list of an earlier rendering, may save a picture that was deleted.

## 9. What is abstracted

* Credits: a database transaction is atomic. `Settle` for fewer images calls
  `Refund`, which reads the charge again; the second read is merged with the
  first, as charges never change. Reading the ledger page by page is left out.
  Python refuses a refund of nothing, Go does not; both are modelled.
* Billing: wallets start with the registration bonus. The upstream request, the
  image store and prompt handling are one outcome. `Faults` says which
  failures of the environment a run admits; a cancellation at the commit is
  always admitted.
* Product parse: the usage record written after the `try` is left out. So is
  `model_validate` before it (`nomu_parse.py:47`), where an exception would keep the
  charge: the route sends what it has validated with the same model
  (`py/api/v2/nomu.py:106`), so only a worker of another version could raise there.
* Dispatcher: a subscription is used once. go-redis' own channel of 100 messages
  and the TCP buffers are folded into `inbox`, which is unbounded; a
  `Subscribe` that fails is one that was never made.
* Sync bus: one service is registered. The goroutine that forwards a
  subscriber's channel to the connection, and its channel of 16, are folded
  into the subscriber's buffer. Queue entries that do not decode, presence
  (`TouchPresence`, which when it fails ends a connection that has done nothing yet,
  and `Devices`) and the close of the process are left out; the
  last is in `PubSub`.
  A device acknowledges what a connection of it, still up, has been sent; after
  a reconnect the replay sends it again.
* Collection pool: a `Claim` that fails changes nothing and is left out. What it
  answers changes nothing the client renders. The worker
  is a caller without a connection. A script whose reply is lost has removed the
  entry; `TakenReachesClaimer` exempts it.
* Presence: one visitor. The broadcast of the count goes through the dispatcher
  and is not repeated. Pings are a flag.
* Session: tokens do not expire in Redis (seven days), access tokens do. Two
  tokens issued in one second have an order; the code's sort by `iat`, in seconds, leaves it
  open.
* Course page, fishing map: an answer is any that the backend can give. Courses are
  not told apart: that the answer for a course which the route has left is written
  over the new one is not stated.
* Blog editor: a `fetchPost` that is answered after its page was left is over; the
  fields it would write into the closed page, which an upload of that page could
  still read, are left out.
* Picture wall: a caption stands for every field a PATCH writes (date, EXIF).
  UPDATE and commit of a PATCH are one step. A picture is uploaded once.

## 10. What is not modelled

`PROJECT.json` lists every component with its status and the reason, and every
hazard with the properties that would catch it; a hazard with a note instead is
behaviour the models have and the code makes no promise about.

The models stand for a small share of the lines of the repository, and will: most
of the 91,000 are views, styles and templates of two web applications, static
pages, charts, third-party clients, and handlers that validate, write one row and
answer. There is no second actor in them and no state that a later step could
find changed; a model of such a handler would repeat its assignment.
