# Enter: a TLA+ development

Enter is a messenger: a Rust server (`server/`, axum, SQLite or PostgreSQL) and
clients (`desktop/`, Tauri and React; `mobile/`, React Native) that share the
TypeScript of `common/`. Messages are encrypted on the clients. The server stores
one copy for each device, keeps a durable event log per account, pushes its events
over a websocket and serves them in pages at `/api/v1/sync`. This directory models
that core and the state the clients keep around it in TLA+, model-checks it with TLC
and proves its main invariants with TLAPS.

## The system

| Component | State | Operations | What makes it correct |
| --- | --- | --- | --- |
| Message store (`server/src/storage.rs`) | accounts, conversations, message rows, read marks, receipts, `realtime_events` and their cursor | create and delete an account, open a conversation, insert, deliver, copy for a device, mark read, acknowledge, sync | the log is dense; it mirrors the rows; receipts are true, once, and go forward; pages skip nothing |
| Realtime delivery (`server/src/main.rs`) | one broadcast channel per account, a receiver per websocket | commit then publish, subscribe then snapshot, forward, recover from lag | what is committed reaches a connected client, in any order of publication |
| Realtime hub (`server/src/main.rs`) | `presence_sessions`, `active_connections`, `channels` | `try_connect`, `subscribe`, `unsubscribe`, `presence_disconnected`, presence events | limits hold, slots are given back once, nobody listens to a dead channel, watchers are told the truth |
| Client synchronisation (`common/src/sync-queue.ts`, `desktop/src/App.tsx`, `mobile/App.tsx`) | cursor, sync queue, realtime queue, task chain, decryption attempts | connect, apply a snapshot or an event, detect a gap, recover, fall back to polling | the cursor never passes an event that was not applied; no wakeup is lost |
| Send pipeline and federation (`send_message`, `deliver_local_message`, `forward_federation_message`, `federation_delivery`) | none of its own | check keys and blocks, store the primary and further copies, publish, deliver to each device | a resend is idempotent; a failure half way leaves something the retry completes |
| Sessions, devices, keys | `sessions`, `devices`, `device_keys`, `account_keys`; private keys on each device | register, login, revoke; make, store, register, forget a key; copy history to a new device | a device has one key; what it holds a key for is read, or given up only after its retries |
| Client session (`App.tsx`, `presence.ts`, `presence-lifecycle.ts`) | socket, timers, heartbeat, window and network as heard of | suspend, resume, connect, reconnect, poll, sync | nothing runs in the background; in front there is always a way back to the server |
| Outbox (`App.tsx`) | the queue in a ref, in React's state, in localStorage of several tabs | queue, send, retry, give up, block, clear, reload | a message leaves the queue only for a reason |
| Message cache (`message-cache.ts`, `App.tsx`) | messages and cursor in memory and in two stores | restart, write, crash, clear, remove | the cursor never runs ahead of the messages; what was cleared is gone |
| Message state (`message-state.ts`) | the messages of a chat | merge, edit, react, receipts | all devices come to show the same text |
| Screens, settings, attachments, sign-in (views and `App.tsx`) | what is shown, what is under way | requests answered late or not at all | a late answer changes nothing it is not about |
| Preview extension (`vscode-extension/`) | a panel, the active preview, builds under way | open, pick, edit, save, reload, close | the panel shows the active preview |
| Push, configuration, formatting, primitives of encryption, styling | single rows or none | reads and writes | not modelled, see below |

Handlers of the server are tokio tasks; the store is one mutex-guarded SQLite
connection (every operation one transaction) or a PostgreSQL pool. A handler commits,
releases the store and only then publishes: that gap, the bounded broadcast channel,
and the client's awaits between reading its cursor and moving it are where the hard
behaviour is. `PROJECT.json` lists every hazard at its line.

## Modules

| Module | Models | Of |
| --- | --- | --- |
| `EventLog` | the abstract log: per account events 1, 2, 3, ...; append, forget | what clients rely on |
| `EventStore` | every message operation of the store, one action per operation | `storage.rs`, SQLite |
| `EventStoreProofs` | proofs about `EventStore` | |
| `RealtimeStream` | one account and one client: commit, publication, channel, websocket session, paged sync, cursor and queues | `main.rs`, `sync-queue.ts`, `App.tsx` |
| `RealtimeStreamProofs` | proofs about `RealtimeStream` | |
| `Presence` | the hub and its websocket tasks | `main.rs` |
| `PresenceProofs` | proofs about `Presence` | |
| `SendPipeline` | one message from the sender's request to the peer's devices: overlapping attempts, fan-out, federation, revocations, blocks | `main.rs`, `storage.rs` |
| `SendPipelineProofs` | proofs about `SendPipeline` | |
| `OutboxPromise` | what an outbox promises of each message | the user's view |
| `DesktopOutbox` | the outbox of the desktop client in one or two tabs | desktop `App.tsx` |
| `ClientSession` | the realtime session of a profile on both clients | both `App.tsx`, `presence*.ts`, `sync-queue.ts` |
| `DeviceKeys` | keys of an account's devices, copies, directory, history | `e2e.ts`, `rn-e2e.ts`, both `App.tsx` |
| `Screens` | profiles, chats, search, notifications, quote | both `App.tsx` |
| `AccountWrites` | folders, privacy, revocations, blocklist as a client changes them | settings views, `enter-api.ts`, `rn-api.ts` |
| `MessageState` | merging of messages, edits, reactions, receipts | `message-state.ts`, both `App.tsx` |
| `ClientCache` | messages and cursor across restarts, two stores, tabs | `message-cache.ts`, `storage-models.ts`, both `App.tsx` |
| `KeyStore` | where a phone keeps a private key | `rn-e2e.ts`, `with-timeout.ts` |
| `MediaBubble` | fetching and showing an attachment | both media bubbles, `media.ts` |
| `MediaSend` | sending attachments | both `App.tsx`, composers |
| `AuthPage` | checking a server and signing in | `auth-page.tsx`, `AuthScreen.tsx` |
| `Preview`, `PreviewPanel` | the preview extension, and its panel | `extension.js`, `previewCompiler.js`, `previewParser.js` |
| `Messenger` | the eight modules from `Screens` to `AuthPage` as scenes of one specification | |
| `MessengerProofs` | proofs about the scenes of `Messenger` | |
| `ClientSessionProofs`, `DeviceKeysProofs` | proofs about these modules | |
| `ClientProofs` | proofs about `DesktopOutbox` and `Preview` | |
| `MCEventStore`, `MCRealtimeStream`, `MCPresence`, `MCSendPipeline`, `MCDesktopOutbox`, `MCMessenger` | finite instances for TLC | |

### EventStore

The variables are the tables. A row is identified by how its id was built: the
client's message id for the primary copy, `copy:`, `inbound:` and `device-copy:` ids
for the others; that is what the idempotence of the code rests on, so ids are modelled
exactly (as tuples). The conversations of an account are identified with their peer,
as `UNIQUE(owner_account_id, handle)` makes them. An event is its cursor, its kind and
its `source_id`. Each operation is a transaction under the store's mutex, so it is one
action, with the event it appends. Timestamps are taken before the store is reached
and the clock may step: an operation's timestamp is any member of `Times`.
`Deliverable` says who can ask for a delivery: a request that stored its own row, or
another server. Whether the sender is blocked and the key registered is decided before
the store is reached and is left open: an action may always not be taken.

`EventLog` is the interface between the two sides of the system. `EventStore`
implements it under the identity mapping of `log` and `cursors`
(`ImplementsEventLog`), and `RealtimeStream` starts from what it promises: a log whose
events are 1 to `last`, none missing and none changing. So `RealtimeStream` can
represent the log by the number `last`.

### RealtimeStream

One account, one client, two ways to the client: the websocket and HTTP.

* `Commit`, `Publish`, `HandlerDies`: handlers overlap, so events are published in any
  order, or never (further copies are not published at all; a handler's future is
  dropped when its caller hangs up). The channel is tokio's broadcast: full, it
  overwrites its oldest event, and the receiver finds out (`lagged`).
* `Connect`, `AcceptHello`, `Snapshot`, `Forward`, `RecoverFromLag`, `Drop`: the session
  subscribes before it reads its snapshot. With `TornSync` the snapshot and the sync
  read their page and the cursor in two steps, as the PostgreSQL store does.
* `RequestSync`, `Answer`, `ReceiveAnswer`, `RequestFails`, `SyncEnds`: `createSyncQueue`,
  one request at a time and one more round when asked meanwhile.
* `HandleSync`, `HandleEvent`: the client's promise chain, one frame after another, where
  a snapshot's task also waits for the queue to drain (`chained`).
* `Drain...`, `Applied`, `NotApplied`, `UnknownConversation`, `Learned`, `Recovered`:
  the loop of `createRealtimeQueue`, with a step for every await.
* `ApplyPage`, `ApplyPartOf`, `ApplyNothing`: what `applySyncResult` does with a page,
  including the attempts counted per message and the quarantine after
  `MAX_DECRYPT_RETRIES`. `settled` collects the events applied or given up.

Not in it: the client in the background (`ClientSession`), its cache (`ClientCache`), and
frames refused at the hello (wrong token, too many connections). The end of a sync run is
one step; the microtasks between the last look at `queued` and the reset of `running` are
not distinguished.

### Presence

One action per method of `RealtimeHub`, as each takes its own lock and the task awaits
in between, and one per stage of `realtime_session`. A task that fails while it greets
keeps its receiver until it returns and never unsubscribes, as in the code. `told` is
what one watcher was told last; every watcher sees the publications in the order of
its own channel.

### SendPipeline

One message, and the attempts of its sender to send it: each request is a handler, and
every await of a handler is a place where another attempt, a revocation or a block may
come in between, or where the handler ends (`Die`). `Check`, `StoreOwn` and the
delivering actions are the three loops of `send_message` over the copies of the request
(`Step`). Asking the blocklist and storing the copy are different calls and different
actions, on this server (`ClearLocal`, `DeliverLocal`) and on the peer's (`ClearRemote`,
`DeliverRemote`). A delivery to another server may be lost, may be worked on long after
the sender gave it up, and is posted to one url after the other. `rows` says which
attempt stored a row, so that a property can relate it to the moment the attempt began:
`shut` and `revoked` remember the blocks and revocations that lasted since then.

Keys stand for the devices of an account and for its account key alike, as in the code
both make a `key_id` acceptable. What a row means to readers is in `EventStore`, what is
published in `RealtimeStream`; the checks that fail for reasons outside this module
(account deleted, conversation read-only, malformed request) are a dying handler here.

### DesktopOutbox and OutboxPromise

Each tab has the queue three times: `ref` (`outboxRef`, written at once), `state` (the
next render's) and, shared by all tabs, `disk` (localStorage). `Render` is the effect
that saves the state, `HandleStorage` the event another tab's write causes, which
changes the state and, by the render, the ref. `Send` is the first half of
`sendMessageToConversation`, up to the request; `Accepted`, `RequestFailed` and
`Unauthorized` are its ends, `Uploaded` the await in between. `RetryOutbox` starts every
entry that is due and not being retried, as the loop does. It follows a sync, so `polls` says
whose session has no ready socket: it connects or polls and goes on syncing by itself.
`SocketReady` ends that (with the retry its snapshot brings), `SocketLost` begins it again;
with a ready socket a retry may come at any time (an event, the window) but need not. A
request may have reached
the server although it failed. `SanitizeOutbox` is what a reload makes of the stored
list. `OutboxPromise` is what the user is told of a queued message; the refinement maps
the state a tab shows to `phase`, and does not speak of two tabs, which overwrite each
other's lists.

### ClientSession

`window` and `net` are what is the case, `front` and `online` what the session has heard
(`notices` are on their way). `HandleWindow`, `HandleOnlineOffline`, `AppStateChanges` and
`ApplyNetworkState` are the lifecycle; `Suspend` and `Resume` the two functions of that
name. Socket, reconnect timer, fallback timer and heartbeat are variables of their own,
and `Reconnects`, `FallbackFires`, `Heartbeat` are the timers' callbacks. Before a page
is applied `ensureOwnBundle` may still prepare the keys: `Prepares`, `PrepareDone`,
`PrepareFails`, `WaitOver`. An answer, of a sync or after a hello, carries one `Page` of the
log and is applied as far as its messages can be read (`Apply`); `partial` says that the
last one was cut or is to be retried. `pending`, `Drain` and `recovering` are
`createRealtimeQueue`: what was pushed waits for the gap before it to be closed by a sync, which
the drain asks for again as long as that brings the cursor forward. The mobile client has
actions of its own where its code differs. Server and network are external.

### DeviceKeys

A message is a set of copies, each for a key and signed by a device. `Ensured`,
`StoreDevice` and `RegisterDeviceKey` make a device's key; `SignIn`, `Restart`, `Forget`
are what the user does. `Sync` is `applySyncResult` as far as keys go: `SenderDevicesFor`
looks a sender up once per session, `DecryptRemoteMessage` needs the key and the sender's
device, `Retries`, `Skips` and `Left` count the attempts. `BackfillHistoryToAccount` and
`BackfillHistoryToDevices` copy what a new device lacks. `polls` has the device whose session
has lost its socket and polls (`SocketLost`, `SocketReady`): only such a session is certain to
sync again after a page it could not read. One device polls at a time, a bound; a page holds
the whole log, `MaxLog` being far below `MAX_SYNC_EVENTS`.

### The scenes of Messenger

Eight parts of the clients that share no state with each other are checked as scenes of
one specification: the initial state chooses a scene, the others stand still in one
initial state, so the behaviours are those of each module by itself.

* `Screens`: what is shown and the composer's quote. Every handler that awaits keeps the
  `profiles` of the render it was made in, as the closures do; effects that follow a
  render are part of the action that caused it.
* `AccountWrites`: a document of the account is edited, the write waits its turn, is
  stored, is answered, fails, or times out and is stored later. `GetBlacklist` and its
  like read it while writes are under way; another device writes too.
* `MessageState`: a log of messages, edits, reactions and receipts; answers of syncs that
  are older than what the socket brought; an own message, edit or reaction shown before
  it is in the log. `ResolveMessageEdits`, `ApplyMessageReaction`, `MergeRemoteMessages`
  and `MergeReadReceipts` are the functions of `message-state.ts`, `MergeOne` the body of
  the loop of the third. `resolveMessageEdits` puts the edits behind the messages; as nothing
  looks at how a message and an edit stand to each other, and the order of the edits stays,
  here they keep their places. The loop is a recursive function over the events.
* `ClientCache`: `messages` and `cursor` in memory, `stored` and `indexed` in the two
  stores, writes pending in each; `Crash` at any moment, another tab, limits that cut the
  list, `ClearCache`, `RemoveProfile`, `ExpireSession`. A session of the desktop client reads
  both stores (`local`, `ReadIndexed`) and hears of the result at any time (`LoadIndexed`), as it
  waits for it nowhere; syncs, clears, other tabs and removals may come first. `stale` says that
  something has changed since the read began, or that a deletion still waits to be written,
  and `overtaken` that an answer has replaced the memory all the same.
* `KeyStore`: every step of `ensureDeviceKeys` and `deleteDeviceKeys`, with a Keychain whose
  calls fail, or are given up after ten seconds and land later, and an app killed at any
  step.
* `MediaBubble`: the effect that fetches an attachment, with every change of settings,
  network or mounting that runs it again.
* `MediaSend`: uploads, aborts, forwarded messages and the composer's progress.
* `AuthPage`: checking a server, signing in, leaving the page.

### Preview

`RefreshPreview` is a request; `InitializeEsbuild`, the build and `ProcessProjectStyles` are
its awaits, in which builds overtake. `ChoosePreview` has `Ask` and `Pick` for the quick
pick. `Superseded` is the build number's test, `Current` the test of panel and preview.

## Runs

| Run | Instance | Shows |
| --- | --- | --- |
| `event_store` | 2 accounts, 1 remote peer, 3 messages, 1 key, 2 times, page of 1 | rows and events, truth and order of receipts, paging, refinement of `EventLog` |
| `stream` | log of 3, channel of 3, page of 2, 1 drop, 2 failures, 2 attempts | no event skipped when the channel does not overflow |
| `stream_live` | log of 2, channel of 1, page of 1, torn sync, 1 drop | no lost wakeup, events in flight arrive, catching up after a drop |
| `stream_lag` | log of 4, channel of 1, page of 2 | violation: lag recovery skips events |
| `presence` | 2 accounts, 4 tasks, limits 3 and 2 | counts, nobody cut off, offline once gone |
| `send` | 2 attempts, 2 keys of the peer, 1 of the sender, 2 urls, 2 changes, local and remote peer | accepted means delivered, the peer never ahead of the sender, blocks and revocations respected |
| `desktop_outbox` | 1 or 2 tabs, 2 messages, queue of 2, one with a file | the queue keeps its promise, tabs agree, a session that goes on polling drains the queue |
| `session` | both clients, log of 2, page of 1, 2 moves, 1 failure, 1 session | quiet in the background, connected in front, silence noticed, the socket catches up unless its last answer was cut or is to be retried |
| `keys` | a desktop, a phone and a peer, 2 messages, log of 2, 2 retries, 2 sessions, 1 fault | passed over only after the retries, held up while polling only by mixed pages |
| `keys_unheard` | the same | violation: a device added during a session is not heard |
| `messenger` | both clients in each scene; bounds in `Messenger.cfg` | the eleven properties of the scenes |
| `preview` | 1 document, 2 directives, 2 offsets, 2 edits, 3 builds, 2 panels, 1 failure | the panel shows the active preview, loading ends |

Bounds and why they are enough. `event_store`: two timestamps give every order of two marks
or ACKs, three messages give two of the same sender (to be read at once) and one relayed; a
page of one event makes every backlog longer than a page. One key is enough for a second row
of each kind, and a resend or a duplicate is a repeated action. States with more than two
events in a log are checked but not expanded. `stream`: a log of three lets an event be
missing in front of two that were published in the wrong order; two failures with two
attempts reach both the retry and the quarantine. A channel as large as the log cannot
overflow, which is the condition of the run. `stream_live`: the smallest sizes make lag,
paging and gaps happen with two events; failures are left out because its properties say
nothing once something failed. `presence`: more tasks than slots, more slots than one
account may have, so both limits are met; `Symmetry` is sound because no property or action
names an account or a task, and no run with it checks liveness. `send`: two attempts
overlap, fail and retry; a batch with two keys of the peer can fail between them, one with a
single key lets the attempts differ; two changes are enough to revoke and register again, or
to block and unblock, at any two moments. `desktop_outbox`: two messages fill the queue and
let one block the other's place, two attempts reach the last one, and two tabs suffice to
overwrite a list; sockets become ready and are lost with a single tab, two tabs stay with
polling. `session`: two moves are away and back, by window or network; one failure (a silent
or closed socket, a failed request, an answer to be retried) can come at any point between
them; a log of two with pages of one is more than a page, and lets a pushed event come with
a gap before it. One session is enough because a new one starts from nothing but the cursor.
`keys`: two devices that make, forget and make keys again, with retries reached on both
sides of a restart. `messenger`: two profiles and three chats, two searches, two overlapping
calls, three writes, two edits or an edit and a reaction of a message, three cached messages
with limits of none, one and two, two stores, three starts of the app, four uploads, three
runs of an effect, four questions to a server: in each scene one more than is needed for two
to overlap and a third to come after. `preview`: three builds, of which the last two can
overtake the first at each await.

Every type invariant is `TypeOK` of its module. For the four modules `EventStore` to `SendPipeline`
and for `DesktopOutbox`, `ClientSession` and `ClientCache` it is a theorem.

Deadlock is checked in `presence`. `SendPipeline` stops when every attempt has ended,
`EventStore` may stop when every account is deleted, the bounded `RealtimeStream` when its
log is complete and everything was delivered; the modules of the clients stop when their
bounds are used up.

Fairness. `stream_live`: weak fairness of the publication of each committed event, of the
session's task, the reconnection and polling timers, the answers to requests, the client's
task chain and its drain loop: tokio and the JavaScript event loop run what is ready, and a
timer or a request ends. Commits, dying handlers, lost connections and failures are not
fair: they need never happen. `UnknownConversation` and the failing outcomes are choices of
the environment, not progress, and are not fair either. `desktop_outbox`: renders and
storage events come, a request ends (all have a timeout), back-off delays pass, and a
session that goes on polling is answered in the end, and then retries its queue. Nothing
else makes it sync for certain: on a ready socket that stays quiet nothing does, and
`QueueDrains` promises nothing there. `session`: a server that is reached answers, notices
are handled, timers fire, requests end, a socket closes when the network is gone; nobody has
to move, sign in or write, and a socket need not go silent. A sync is only asked for where
the code asks: at the start, when the cache was read, when the session resumes, when a socket is lost, by the
fallback timer, and by the drain of the realtime queue. `keys`: a device that polls goes on
syncing and preparing its keys; one with a socket need not. `preview`: the compiler starts
or fails and every build ends.

## Findings

* `stream_lag`: after `RecvError::Lagged` the session's snapshot starts 256 events before
  the end of the log (`main.rs:2274`). The receiver's first unread event is further
  back than that, and the client takes the snapshot's cursor for its own.
* `keys_unheard`: a client asks for a sender's devices once per session (`App.tsx:488`). A
  device the sender adds later is not known to it; its messages are tried against the
  old list, given up and passed over, while `ENTER_PROTOCOL.md:22` has every registered
  device of the sender heard.

## Known divergences

Stated in the modules, and found violated. They are kept beside the runs, which are about
what holds and about the two findings above. Where a cfg is
named, `tlc -config` with it shows the trace (modules in parentheses). Those of
Messenger show it when added to `Messenger.cfg`: `LoadedAgain`, `OnlyItsProfileGoes`,
`ReadStays` and `EditStays` as PROPERTIES, the others as INVARIANTS, `ReactionsAgree` with
two reactions in `OneMessage` (`MCMessenger`).

| Property (module), cfg | What happens |
| --- | --- |
| `NoEventSkipped` (RealtimeStream), `RealtimeStreamTorn.cfg` | the PostgreSQL `sync` (`storage.rs:4231`) can return an empty page with a cursor that already counts an event committed in between |
| `FailedIsRetried` (RealtimeStream), `RealtimeStreamStall.cfg` | "I will try again" (`App.tsx:692`), but on a healthy connection nothing does until another event, a reconnection or a change of focus |
| `OnlineUntilLastCloses` (Presence), `PresenceRace.cfg` | the session that was first fails while it is greeted, and the next one relies on its announcement (`main.rs:2188`) |
| `EveryCopyIsKept` (SendPipeline), `SendPipelineCopies.cfg` | the server keeps the first copy of a message under the message's id; a resend whose copies come in another order loses the one that is now first (`main.rs:2533`), while `ENTER_PROTOCOL.md:22` calls the resend idempotent |
| `SavedIsKept` (DesktopOutbox), `OutboxDropped.cfg` | a queued message is dropped when the conversation is missing from the render its retry was made in (`App.tsx:1250`), after "I will send it again" (`App.tsx:1364`) |
| `SentOnceBack` (DesktopOutbox), `OutboxIdle.cfg` | "I will send it again once the connection is restored" (`App.tsx:1364`), but the queue is retried only after a sync (`App.tsx:698`), and `ready` ends the polling (`App.tsx:855`): a message that fails, or whose back-off ends, after the snapshot waits on a healthy, quiet connection until something else makes the session sync |
| `CatchesUp` (ClientSession), `SessionPage.cfg` | `ENTER_PROTOCOL.md:24` has a connection begin with the data after the cursor; the answer is one page (`storage.rs:4231`), a sync asks once (`App.tsx:702`), and a client more than a page behind stays there on a quiet connection |
| `CatchesUp` (ClientSession), `SessionGap.cfg` | on the phone the first sync and snapshot are dropped while keys are being prepared (`mobile/App.tsx:485`); on a healthy connection nothing asks again |
| `ClearedStaysAway` (ClientCache), `CacheCleared.cfg` | "The message cache is cleared" (`settings-panel.tsx:243`), but IndexedDB, read before that, answers after it and the messages are back (`App.tsx:974`) |
| `KeepsAllItHasSeen` (ClientCache), `CacheCleared.cfg` with this invariant | the session syncs without waiting for IndexedDB (`App.tsx:1020`), whose older record then replaces the messages, while the cursor stays where the sync has moved it: what came is missing until the client starts again from nothing |
| `QuoteAlwaysStays` (Messenger) | on the desktop a sign-in to another profile (`App.tsx:1065`), or the removal of the active one by another tab (`App.tsx:425`), leaves the reply in the composer, which then quotes a message of another chat |
| `LoadedAgain` (Messenger) | "local messages will be loaded again" (`SettingsScreen.tsx:214`): the client clears them and goes on from its old cursor |
| `OnlyItsProfileGoes` (Messenger) | a handler that awaited writes back the `profiles` of an earlier render: one added meanwhile is gone |
| `FolderStays` (Messenger) | an older folder write's answer replaces a newer change, and the next write makes it final |
| `ReactionsAgree` (Messenger) | a sync's old answer brings back a reaction that was replaced over the socket |
| `ReadStays` (Messenger) | ending an edit writes back the message as it was when the edit began (`App.tsx:1410`): its read mark is lost |
| `EditStays` (Messenger) | the late answer to the first send copies the first text over a delivered edit (`App.tsx:1333`) |
| `KeyStaysAnyway` (Messenger) | a Keychain write given up after ten seconds lands over the key made and registered after it |
| `NoneVanishes` (Messenger) | a message whose upload was aborted by a forwarded one, or by changing the profile, is gone without a word (`App.tsx:1342`) |
| `PhoneIsHonest` (Messenger) | the phone's keyboard submits while the page is busy: of two checks the earlier may be answered last, and its server is signed in to |
| `CancelledStaysOut` (Messenger) | leaving the sign-in page calls nothing off: the profile comes in front later |
| `SaveKeepsPreview` (Preview), `PreviewSaved.cfg` | a preview is found by its offset: an edit above it changes what a save rebuilds, while `preview.md:109` says the open preview is rebuilt |
| `NeverGoesBack` (Preview), `PreviewGoesBack.cfg` | two builds of one preview may overtake each other in the styles; an error of a superseded build is shown |

`NothingSkipped` (below) says that the torn sync and the lag are the only ways for the
client's cursor to pass an event.

## Proofs

`EventStoreProofs`, for every set of accounts, messages, keys and timestamps, from
`StoreAssumption` (a message has one sender; finitely many messages; times are positive):

* `IInv == TypeOK /\ RowsWellFormed /\ LogIsDense /\ LogMirrorsRows` is inductive.
  `LogMirrorsRows` needs density (a new event must not take a cursor or a source that
  is used), and both need `RowsWellFormed`: the id of a row determines its message, owner
  and author, so a receipt is appended to the log of a local account and an event's
  source never collides with another row's.
* `TypeCorrect`, `LogDensity` and `RowsMatchEvents` follow.
* `StoreImplementsEventLog`: every action is an `Append` to one log, a `Forget`, or leaves
  `log` and `cursors` alone. One lemma says that a new event is an append, another that a
  batch of read receipts, numbered by a bijection, is.
* `ReceiptsGoForward`, `ReadReceiptsTrue`, `DeliveredOnceTruly`: `ReceiptInv` says why each
  receipt in a log is there (`HeardOf`: its reader's mark, its row in `readReceipts` or
  `deliveryReceipts` and a copy of the message are still at least as late as the receipt
  says, or the reader's account is gone). That is what no step takes back, so it needs that
  ids of rows are unique, that a deleted account keeps no rows, and that a message has one
  reader (`RowsInv`): two readers' receipts of one message could otherwise interleave.
* `PagingSkipsNothing`: the log is dense, so the events from `since` to one of them are as
  many as their cursors differ; a page cut by number is therefore an interval.

`RealtimeStreamProofs`, for every size of log, channel and page and any number of drops
and failures, from `StreamAssumption`:

* `TypeCorrect`: the bounds in `TypeOK` are not only types; no cursor anywhere runs ahead
  of the log.
* `NothingSkipped`: without `TornSync`, `Spec /\ [](~lagged) => []NoEventSkipped`. The
  invariant `CoverInv` adds to it: every request and hello starts at or behind the
  cursor; every page under way continues a prefix the client has settled
  (`Covered`); and the drain loop works on the event right after the cursor, or one the
  cursor has passed. The two hypotheses are exactly where `Covered` would fail.
* `LoopNeverAsleep`: `WakeInv` says, while nothing has failed, that a loop that waits for a
  request waits for one that starts at its mark or later, and that some queued event lies
  past the mark. So the page it gets is not empty and the cursor moves past the mark,
  whatever enqueues, runs and recoveries overlap; the loop gives up only otherwise.

`PresenceProofs`, for any accounts, tasks and limits, from `PresenceAssumption` (finitely
many tasks): `TypeCorrect`, `CountsAreTrue`, `NobodyCutOff` and `GoneMeansOffline`. The
counts are cardinalities of sets of tasks, so a step that admits or dismisses a task
needs the lemmas on finite sets. For the announcements the invariant adds
`OnlineIsOwed`: while the watchers believe an account online, some task of it is still
registered or still on its way to tell them.

`SendPipelineProofs`, for any number of attempts, keys and urls and any batches that
carry a copy for the sending device, from `SendAssumption`: `TypeCorrect`,
`AcceptedReachesPeer`, `SenderStoresFirst`, `BlockIsKept` and `RevocationIsKept`. The
invariant says for each attempt what the copies before its present one have behind them
(`AttemptHolds`), and for each delivery on the wire that it comes from an attempt past
its stores and, once cleared, past registry and blocklist (`DeliveryHolds`): a delivery
nobody waits for any more still has to satisfy it when it is stored. `Steady` is what
every step leaves alone, so what an attempt, delivery or row has is kept by all others.

`ClientSessionProofs`, without assumptions on the constants: `QuietWhenSuspended` and
`StaysConnected` together, with `NothingComes` (without a socket no frame is on its way and
the session is not ready), because a frame that came late would end the polling of a
client that has no socket. For `PresenceFollows` the invariant `NoticeInv` says of the
queue of notices that the last one about the window, or the network, is true.
`TypeCorrect` adds to the types that nothing on its way to the client, and so the cursor
neither, is ahead of the account (`FrameInv`). It needs `KeysInv`: when the keys arrive and
no sync waits for them, a frame does, whose number the cursor may take over. What the drain
applies are events of the queue, all of them of the log.

`DeviceKeysProofs`, for any devices, messages, sessions, faults and retries:
`PassedAfterRetries`. A session counts a try for each copy that cannot be read, and another
session begins at zero again; the invariant (`Counted`) bounds every count by the copies
that were refused, which nothing resets. Until a device has made a second key its first
one is what it reads with in every session (`Passed`). `KeysAreCounted` is the typing that
needs: keys are numbered as they are made, logs and requests are finite.

`ClientProofs` has the outbox, from `OutboxAssumption` (finitely many tabs, a positive number
of attempts and entries), and the preview:

* `OutboxTypes`, `OpenTabsAgree` and `OutboxKeepsPromise`, the refinement of `OutboxPromise`.
  The first lemmas are about filtering: what `Only` keeps of a queue is what was at the
  positions kept, in their order, because the positions of a finite set of numbers are
  counted by their ranks (`NthIs`). Every operation on a queue then has a lemma that says
  what it keeps of `Fits` (each message once, no unblocked entry without attempts left) and
  of `Counts` (an entry was taken by the outbox, and its attempts were counted). `Counts` is
  what makes giving up honest: an entry leaves after its last attempt, so `failures` has
  reached the limit by then, in whichever tab. `Settled` says of a tab with nothing to
  render and no event to handle that it shows nothing or what is saved, as it was written or
  as it is read; that the two look alike once read needs that reading twice is reading once
  (`ReadFits`). `Alone` says that a single tab hears of no other, and `RequestTypes` that a
  request past its upload is of a message the outbox has taken, without which an answer could
  confirm a message nobody was promised anything of. The refinement then goes step by step:
  a queued message is `Take`, the three ends of a request are `Confirm`, `GiveUp` or no step
  (`EndsOne`), a retry that finds no conversation is `Lose`, clearing is `Clear`, a reload is
  `Restart`; every other step leaves the phases alone.
* `PanelShowsActive`, for any documents, builds, panels and failures. There is an active
  preview only while there is a panel, and panels are numbered, so the test a build makes
  when it ends (`Current`) tells a panel from the one opened after it. `DesktopOutbox` and
  `Preview` use the same names for other things, so `Preview` is an instance here, around
  the state of `PreviewPanel`.

`MessengerProofs`, from `MessengerAssumption`, which collects what the parts assume of
their constants. A behaviour of `Messenger` is in each of its parts a behaviour of that
part's module, so each theorem comes from the steps of one module alone.

* `OneKeyPerDevice`, for any callers, keys and outages: `KeyInv` says what a request knows
  at each of its awaits (`Knows`: it moves the key that is held, or makes one while none
  is), that there is one request at a time, and that a deletion, or a request it has come
  across, hands nothing out. It holds until a write that was given up lands;
  `KeyStaysAnyway` shows why it cannot hold after that.
* `LastRunShows`, for any number of runs of the effect: a load that was not disposed of is
  the only one, is of the last run, and nothing is shown yet.
* `SignInIsHonest`, for any servers, pages and requests: on the desktop a page has one
  request under way, and no request is of a page that is yet to come.
* `ComposerIsFreed`, for any uploads, aborts and forwarded messages: an upload has a number
  of its own, none is ahead of the last.
* `QuoteIsOfItsChat`, for any profiles, chats and late answers, but for the two ways of the
  desktop client that keep the reply (`foreign`, see `QuoteAlwaysStays` above): besides the
  quote itself the invariant follows the last chat of each profile (`Remembered`), which a
  new sign-in to the active profile opens again with the quote in place.
* `LatestSearchShows`: searches are numbered; a step asks again, shows the answer to the
  last search, or begins anew.
* `SettledIsTheServers`, for any changes, failures and readings: what the server has is what
  is shown after the writes that were stored and not answered yet (`Settles`). Whole lists
  are written one after the other (`InTurn`), so the first stored one is what the server
  has; additions and removals overlap, and must not touch the same account, which needs that
  the id of an account about to be blocked is known nowhere (`NewIsNew`).
* `AnswersKeepTheChoice`: the write that carries the number of the last change carries the
  user's choice (`ChosenIsLast`).
* `KeepsSeenMessages`, for any limits, messages, writes, starts, clears and tabs. `Covers`
  says what a set of messages with a cursor may be without: messages that so many newer ones
  push out. `SeenInv` says it of the memory, of every copy of the desktop client
  (`CopiesCover`: localStorage, IndexedDB, each write on its way there) and of the two keys
  of the mobile client after any number of the writes that are pending, because a crash may
  fall between them (`KeysCover`). `TimesFit` says that a copy as late as the one in
  localStorage is that copy: a start takes the later of two. IndexedDB may answer at any
  time: as long as nothing has changed since a session began to read, either its cursors are
  still at nothing (`StartsAtNothing`), or every copy it may answer with, being at least as
  late as the one in localStorage, covers them (`AnswersAll`), whatever is written
  meanwhile. An answer after a change ends the promise (`overtaken`), which is the
  divergence above. That the newest `n` of a set leave out only messages with `n` newer ones
  (`RecentKeeps`) is proved from cardinalities, as the invariant is about sets.
* `ClearedStaysGone`: after clearing, nothing but empty copies may be read (`GoneInv`),
  although older writes may still be pending and land before the empty one, or never; a
  session that reads IndexedDB when nothing has changed since reads nothing but empty
  copies.

* `EditsAlwaysAgree`, for any messages, edits, reactions, receipts, syncs and faults.
  `ChatInv` says how the list stands to the log up to `seen`: it has the edits of that part
  (`EditsThere`) and no other (`EditsOfLog`), in the log's order (`InOrder`), although old
  answers bring events a second time and gaps are let through (`passed`); a message without
  an edit has the text it was sent with or that of an own edit under way (`Untouched`). An id
  names one event of log and outbox (`OneEvent`) and a row is of one event (`OneRow`), so the
  local updates of `sendMessageToConversation` touch nothing else. `MergeAll` is the lemma of
  the loop: one event is merged (`MergeOneFits`), and if some number of events broke the
  invariant there would be a least such number (`LeastOf`, from the well-foundedness of `<`);
  that the recursive function exists is shown the same way (`MergeGoesOn`). `InOrder`
  leaves out the messages in `passed`: an edit that could not be read is appended after
  later ones once it can, and then the last edit in the list is not the last of the log.

`CacheTypeCorrect` types the cache without assumptions about IndexedDB: no cursor and no
copy is ever ahead of the account.

`KeepsSeenMessages` and `ClearedStaysGone` assume nothing about when IndexedDB answers; what
they leave out is in the properties (`overtaken`), and `CacheCleared.cfg` shows that they
have to. `CacheAssumption` has every limit a user can choose bounded by what memory keeps,
as `storage-models.ts` and `storage-limits.ts` have them (the standard policy is the
memory's limit, the others are smaller).

Only model-checked, and why:

* Every liveness property (in `stream_live`, `session`, `keys`, `preview` and
  `desktop_outbox`): they need fairness and `ENABLED`.

The other modules of the clients state no type invariant; their proofs carry the types
they need in the inductive invariants.

RECURSIVE operators and the induction theorems of the library are out of the provers' reach.
The modules with proofs declare no such operator; where a loop has to be followed
(`MergeRemoteMessages`) it is a recursive function, and the induction is done by hand with a
least counterexample.

## Not modelled

* On the server: push notifications (fire and forget), configuration and parsing, the
  rows of media objects, settings and folders (single statements), password hashing and
  token expiry. PostgreSQL is modelled only where its `sync` differs (`TornSync`); its
  other operations run as separate statements what SQLite runs as a transaction.
* On the clients: primitives and encodings of encryption (which key opens what is
  modelled), the mobile outbox, pinning, muting and archiving chats, normalisation of
  settings, logs, the media viewer, mappers of the API, and all rendering.
* `createSyncQueue` below the level of one step per end of a run: a sync asked for in the
  microtasks between the last look at `queued` and the reset of `running` is lost there.
* Time: back-off delays and timeouts are steps that may happen, `last_seen_at` is not
  compared with a clock.
* Two tabs in `OutboxPromise` and `QueueDrains`: whole-list writes of two tabs can lose an
  entry or keep adopting each other's list, so nothing is promised there.

`PROJECT.json` has the reason for each component and, under `hazards`, what is not
covered by a property.

## Plan

1. Done: `EventLog`, `EventStore`, `RealtimeStream`, `Presence`, `SendPipeline` with the
   proofs above, and the modules of the clients.
2. The PostgreSQL store where its transactions differ from the SQLite one.
3. `SyncQueue`: `createSyncQueue` by microtasks, and its abstract promise (a sync asked
   for is followed by a run that starts after it).
4. The mobile outbox and the list of conversations.
5. Proofs: every safety property the runs check is a theorem, and so is every type
   invariant. Nothing is planned beyond that.
