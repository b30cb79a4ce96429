# Matrix Chat in TLA+

A verification project for Matrix Chat: TLA+ modules of its core protocols, TLC
configurations that check them on small instances, and TLAPS proofs of what
holds for every instance. Paths below are relative to the repository.

## 1. The system

Matrix Chat is a messenger: an Express and socket.io server (`server/src`) over
PostgreSQL through Prisma, and a Next.js client (`web/`), which also runs in an
Android shell (`web/android`). Messages are end-to-end encrypted with the
Signal protocol; the server relays opaque ciphertext and keeps it only until
the recipient acknowledges it. Calls are WebRTC connections the server only
helps to set up.

| Component | State | Operations | Talks to |
|---|---|---|---|
| Message relay (`signal.gateway.ts`, `messages.controller.ts`) | `Message` rows, `onlineSockets`, `socketVisibility`, `pendingDeliveryChecks` | `signal:message`, `signal:receipt`, `signal:viewed`, `signal:typing`, `signal:visibility`, connect, disconnect, `fetchInbox` | client sockets, HTTP, FCM |
| Chat page, messages (`web/app/chat/page.tsx`, `socket.ts`) | `seenMessageIds`, `inboxSyncRunning`, `inboxSyncQueued`, `inboxReady`, the active thread | live handler, catch-up pass, `markThreadRead`, opening and closing threads, view-once | relay, local database, Signal store |
| Local database (`localDb.ts`) | one array of messages per thread, conversations, groups, lists | append, status update, delete, merge | chat page |
| Keys (`keys.controller.ts`, `signalClient.ts`, `IndexedDbStore.ts`) | identity, signed and one-time prekeys on both sides; sessions | generate and publish, fetch a bundle, first message | HTTP, libsignal |
| Calls (`call.gateway.ts`, `page.tsx`, `callClient.ts`, `CallOverlay.tsx`) | the call refs and timers of the page, the `CallClient` with its peer connection and tracks | invite, answer, reject, end, ICE, connection callbacks, timers | relay, WebRTC |
| Call link (`callClient.ts`) | `reconnecting`, restart and give-up timers, quality tier, camera, screen share | ICE restart both ways, sampling, switching tracks | relay, WebRTC |
| Attachments (`attachments.controller.ts`, `attachments.ts`, `useAttachment.ts`) | `Attachment` and chunk rows; in-flight loads, cached blobs | create, put a chunk, complete, fetch, purge; retrying upload and download | HTTP |
| Accounts (`auth.controller.ts`, `mailer.ts`) | users, verification and reset codes with expiry | register, verify, resend, log in, forgot, reset, delete | HTTP, SMTP |
| Groups (`groups.controller.ts`) | groups, members, roles | create, add, remove, change role | HTTP; read by the relay |
| Presence and typing (`presence.controller.ts`, gateway, page) | sockets per user, last seen, typing timers | connect, disconnect, batch fetch, typing on and off | sockets, HTTP |
| Blocks, mutes, reports (`social.controller.ts`) | rows | set, clear, list | read by the relay, the call gateway and push |
| Push (`push.ts`, `pushNotifications.ts`) | FCM token, delivery checks | register, notify | FCM |
| Voice notes (`VoiceRecorderButton.tsx`, `VoiceMessagePlayer.tsx`) | recorder refs, limit timer; the audio that plays, the decode chain and cache | press, drag, lock, release, pause; play, seek, decode | microphone, audio elements |
| Screens (`page.tsx`, `CallOverlay.tsx`) | panels, open thread, exit prompt, overlay controls with their timer | open, close, hardware back, tap the stage, minimize | Android shell, calls |

### What is hard about it

* **Two ways in.** A message reaches the client live and through the inbox, in
  any order, and both handlers await the Signal store, the server and IndexedDB.
* **The row lags.** The server relays and acknowledges first and stores the
  row afterwards, so receipts may overtake the row they are about.
* **Keys are spent once.** A message key is consumed before the message is
  stored; what fails in between is gone.
* **Check, then act.** Most server handlers read and write in two statements at
  READ COMMITTED; `localDb.ts` reads a whole thread and writes it back.
* **Late continuations.** A call's tasks wait on permission prompts and acks and
  go on after the call was torn down, perhaps next to a newer one; timers
  outlive what set them.
* **Silent loss.** Frames and awaited acks vanish with a socket; a page may be
  reloaded anywhere.

### What makes each component correct

* *Relay, inbox, page*: no message is shown twice or decrypted twice in a
  session; a receipt never claims more than the client did; the server drops a
  ciphertext only if the client has it or met a failure of its own; the
  catch-up pass ends and the inbox drains.
* *Keys*: the server hands out only keys of the current identity, and to one
  sender each; a first message can be read.
* *Calls*: the microphone is open only for the call at hand; the caller is told
  the truth about the callee; the log says what happened; nobody waits for good;
  one call's timers leave the next alone.
* *Call link*: one offer at a time, by the caller; a restart in the end settles;
  no capture outlives the call.
* *Attachments*: what a reference points to is complete and stays as it was
  written until it expires; the quota holds; progress under retries.
* *Accounts*: the code in the newest e-mail is the one that works; a code works once.
* *Groups*: who changes a group is an admin then; a group keeps an admin.
* *Presence*: the last state shown is the last one that held; a typing label
  goes away; a message is receipted or somebody is told of it.
* *Sender's side*: a tick claims no more than the recipient did and never goes
  back; a sent message stays until it is deleted; the screen shows the open chat.
* *Chat list*: a deleted chat stays away until it is begun anew; the list
  shows no mute the server does not have.
* *Voice notes*: what the finger last asked becomes of the note; one note plays
  at a time and is decoded once.
* *Screens*: hanging up stays one tap away.

## 2. Modules

| Module | Models |
|---|---|
| `Mailbox` | the abstract promise of the message path: each message is entered once or is gone, for good |
| `Inbox` | relay, inbox rows, receipts, and the client that merges live messages and inbox pages |
| `MCInbox`, `MCFirstConnect` | instances of `Inbox` for TLC; the second adds a history variable |
| `InboxProofs` | invariants of `Inbox` and its refinement of `Mailbox`, proved |
| `Prekeys`, `MCPrekeys`, `PrekeysProofs` | key generation, publication, hand-out, first messages |
| `Calls`, `MCCalls`, `CallsProofs` | call lifecycle on both phones and the relay in between |
| `CallLink` | the media path of an answered call: drops, restarts by either end, giving up |
| `CallMedia` | camera button, camera switch, screen sharing, and the end of the call among them |
| `CallQuality` | the tiers of outgoing video on a poor link |
| `CallLinkProofs` | theorems about these three |
| `BlobStore` | the abstract promise of the chunk store: a file is filled, completed with all its pieces, and not changed again |
| `Attachments`, `AttachmentsProofs` | a heavy file: upload with a pool and retries, the chunk store, download and cache |
| `Accounts` | one user name: registration, codes, login, reset, deletion, and the forms |
| `Groups` | members and roles on the server, each page's copy, messages to the group |
| `Conversation` | the sender's page of a private chat: sending, ticks, deletion, the screen |
| `Roster` | the chat list on the device: favourites, lists, mutes, unread counts, deletion |
| `Presence` | sockets, visibility, push decisions, and the online dot another page shows |
| `Typing` | typing events of private chats and a group, with their timers |
| `VoiceRecorder` | the microphone button |
| `VoicePlayer` | the players of a thread's voice notes |
| `Screens` | the layers of the page, the back button, the call's controls |
| `ServerProofs` | theorems about `Accounts`, `Groups`, `Presence` and `Typing` |
| `DeviceProofs` | theorems about `Conversation`, `Roster`, `VoiceRecorder`, `VoicePlayer` and `Screens` |
| `MCParts`, `MCLive` | the thirteen components above from `CallLink` on, side by side, for TLC |
| `PartsProofs` | each of them behaves in the composition as it does alone, and what follows |

### Inbox

One recipient, one page at a time, any number of senders (a sender is the
occurrence of `Relay`). The correspondence of the state:

| Variable | Code |
|---|---|
| `relayed`, `persisting`, `row` | messages past the `emit` of `signal:message`; `prisma.message.create` not yet settled; `Message.status` |
| `jobs` | handlers of `signal:receipt` and `signal:viewed` inside `updateMessageWithRetry` |
| `downlink`, `uplink`, `conn` | frames in flight, socket.io's send buffer, the connection; `joined` is after `socket.join` at the server and before `connect` at the client |
| `seen`, `sync`, `queued`, `batch`, `boot` | `seenMessageIds`, `inboxSyncRunning`, `inboxSyncQueued`, the rest of `pending`, how far `init` got (`ready` is `inboxReady`) |
| `pc`, `inPass`, `snap` | where a message's handler stands, whether it is the pass's, what `appendMessage` has read |
| `keyUsed`, `store` | the Signal store, `conv:<peer>` in IndexedDB, as copies per message |
| `active`, `opening`, `toMark` | `activePeerRef`/`activeGroupRef`, threads whose history `markThreadRead` has yet to read, the rest of its loop |
| `entered` | auxiliary: written to the history at least once |

A handler is one action per stretch between two awaits:
`ReceiveLive` or `PassMessage`, then `DecryptOk`/`DecryptFails`, `EnsureThread`/`LookupFails`,
`AppendWrite`, then `DecideOpen`, which looks whether the thread is open now, `AckShown` once the messages
of an open one are read, and for the live handler the ack it awaits (`ResumeAfterAck`). Opening a thread sets `active`
(`OpenThread`); its history is read later (`ReadUnread`) and acknowledged message by message (`MarkNext`). The pass does not await its receipts, as in the code. Both handlers share
the actions of the middle part because the code repeats the same statements in
both. `snap` makes `appendMessage` two steps.

`Drop` loses what was in flight and leaves an awaited ack pending for good;
what was emitted before the `connect` event stays in socket.io's buffer.
`ServerCrash` loses what the server had not handed to the database. `Reload`
loses the page and keeps IndexedDB.

### Prekeys

One account that may go through several identities (`gen`), and senders that
each fetch a bundle and send a first message. The upload is one step, because its
statements take row locks on the same rows in the same order; the fetch is four: the identity and the signed
prekey, which Prisma selects one after the other outside the transaction (`ReadIdentity`, `ReadSigned`), `findFirst`, and `update`.
A bundle whose signed prekey is of another identity is refused by `processPreKey` (`RefuseBundle`), and the sender may ask again. A row of the database
is identified by its generation and key id, so `MarkFails` is the update of a
row an upload has deleted.

### Calls

Each user's `phone` is the page's call refs; `placing` and `taking` are the
tasks `startCall` and `handleAcceptCall`, which live on after their call; `applying` the answers a
caller's connection is busy with, which may fail or be torn down first (`ApplyAnswer`); `mic`
is the set of live microphone streams; `inbox` what the server sends to a
phone, in order; `lookups` the `call:invite` handlers that wait for the block
lookup, which may fail and then answers nobody. `phone[u].ring`, `.fallback` and `.err` are the three timers, each with
the call it was set for. `Reset` is `resetCallState`, `FailCall` is `failCall`,
`MarkConnected` is `handleCallConnected`.

Timers have no duration: they fire at any time after they were set. That is
sound for safety, and the liveness property only uses that they fire.

### Components that share no state

The modules from `CallLink` to `Screens` share no variable with one another or
with the three above, and no step of one enables or changes another's.
`MCParts` therefore puts one of them to work in each behaviour (`part`), while
the others keep their initial values: its states are the sum of theirs, not the
product, and each property speaks of one component. `MCLive` does the same with the four that
have something to wait for; where another component works they stay in their initial
states, in which none of their fair steps is enabled, so their fairness asks nothing.

All of them follow the same rule as `Inbox`: an action per stretch between two
awaits, with what was read before kept in the state until it is used. Where a
promise of the code has exceptions, an auxiliary variable records that one of
them has come about (two requests overlapped, an answer was read before the
change it overwrites, an event was lost), and the property holds the code to its
promise in every other case. The auxiliary variable is read by no guard.

* **CallLink.** A *round* is one offer to restart ICE and its answer; `applied`
  says which round each end is in, and the caller's may be a mix (its own
  description of one round, the peer's of another). `over` is `failCall`.
  `collided` records an offer made while one was open, or a lost message.
  `Works` stands for the transport: same round at both ends, and a network.
* **CallMedia.** Every tap is a task that waits for a device, the picker or
  `replaceTrack`; a track is named by the tap that opened it. `live` is what
  captures, `stream` what `localStream` still holds, `told` the last `call:camera`, which the button and `onVideoPaused` send.
* **CallQuality.** A sample is good, thin, weak or severe; `streak` are the three counters,
  cut at the lengths the thresholds look at; `applying` the `setParameters` under way.
* **Attachments.** `requests` are attempts the server has not finished with,
  the client listens to the newest of each operation. Server handlers that
  read and then write take two steps. `load` is the load all views of a message share.
* **Accounts.** A request is looked at, mails or checks, and writes; a code is
  named by the request that made it, so that "the newest mail" and "the stored
  code" can differ.
* **Groups.** A change passes the admin check, the write, for an addition a
  second read, and is applied by the page to the roster it had when the button
  was tapped; it or its answer may be lost. A page keeps three copies of the roster: `disk`, what is stored; `cache`,
  the list as of the last `refreshGroups` (`groupsRef`); `shown`, the open thread's (`activeGroup`). `TakeUp` and `StoreHeld` are
  `ensureGroup`, which stores the list's copy again for every message of the group. `diverged` marks pages
  that were told no newer roster (somebody else's change, a lost answer, requests that overlap), `undone` those that put an older copy over a newer.
* **Conversation.** A history is one value that is read and written back;
  only ticks are set in one transaction. `torn` records a write that fell
  between another's read and write, `early` a receipt that found no bubble.
* **Roster.** The same for the chat list. A page load lists the server's `peers`, chats with `Message` rows, and
  then copies the mutes. `gone` are chats deleted and not begun anew, `clashed` those whose own operations got in each
  other's way, or whose row was written back older than it was.
* **Presence.** A frozen page has a dead socket that the server counts until the
  ping timeout. Broadcasts come in order, answers to HTTP reads at any time.
* **Typing.** One clearing timer per thread; the events of a group may change
  places at the relay, which awaits the members.
* **VoiceRecorder.** A press is granted its microphone, and a recorder reports
  its stop, some time later; `meant` is what the user last asked.
* **VoicePlayer.** `decodeChain` is the chain of promises, `decodedCache` what is
  remembered of each note. A player that is unmounted leaves its decode behind.
* **Screens.** `BackOrder` is the order in which the back button looks at the
  panels; `hideTimer` the timer that hides the controls of a video call.

## 3. What TLC checks

| Run | Instance | Shows |
|---|---|---|
| `inbox_safety` | 2 messages of a thread, pages of 1 row, socket losses, reloads, failed lookups and receipt updates; 4.1 million states, with symmetry | `AtMostOnce`, `ReadOnlyEntered`, `AckOnlyTakenUp`, `DecryptOncePerSession`, and `ImplementsMailbox`: the refinement of `Mailbox` |
| `inbox_live` | 1 view-once message, socket losses, server restarts, failed writes and requests; fair | `TypeOK`, `AckedIsEntered`, `PassTerminates`, `InboxDrains` |
| `inbox_first_connect` | 1 message, no faults | **violated**: `FirstConnectCovered` |
| `inbox_overwrite` | 2 messages of a thread, no faults | **violated**: `AckedIsKept` |
| `prekeys` | 3 senders, 2 key ids, 2 identities | `TypeOK`, `RowsOfPublished`, `FreeKeysUsable`, `SharedOnlyIfMet`, `FailsForAReason` |
| `prekeys_twice` | 2 senders, 2 key ids, 1 identity | **violated**: `NeverIssuedTwice` |
| `calls` | 2 users, a call each way, in the Android shell, every fault; 1.6 million states | `TypeOK`, `NoOrphanMedia`, `LoggedReached`, `DeclinedNeverAnswered`, `CallerConnectsAnswered` |
| `calls_live` | 2 users, two calls in a row, fair; reloads, refused permissions, bad answers | `CallSettles` |
| `parts` | see *Bounds*; 2.3 million states | types of the thirteen components, and for each what the table below says |
| `parts_live` | four of them, smaller, fair; 336 thousand states | `TransfersEnd`, `MessageHeard`, `ReconnectEnds`, `VideoRecovers` |
| `calls_newer` | two calls in a row, no faults | **violated**: `ErrorSparesNewer` |
| `calls_ghost` | 1 call, no faults, fair | **violated**: `NoGhostRing` |

What `parts` and `parts_live` show:

| Property | Component | In words |
|---|---|---|
| `CodesSound` | Accounts | the newest mailed code is the stored one, and a reset code lets one request in, unless requests about codes of a kind overlapped |
| `RosterCurrent` | Groups | a page stores and shows the group as it is, unless somebody else changed it since the page load, its own requests overlapped or failed, or it put an older copy over a newer |
| `HistoryRight` | Conversation | ticks claim what the recipient did and never fall back; sent messages stay, deleted ones stay away |
| `ScreenMatches` | Conversation | the messages on screen are those of the open chat, unless it was changed during an operation |
| `ListKept` | Roster | however operations overlap, a deleted chat stays away until it is begun anew and no mute shows without the server's, if those on the chat itself did not clash |
| `QuotaHeld` | Attachments | the quota holds unless two creates were between sum and write together |
| `RejectedOnlyIfPurged` | Attachments | no late attempt makes the server reject an upload of its own that was in order |
| `CopyDropped` | Attachments | a deleted message's file leaves the device, unless it was being loaded just then |
| `DotCurrent` | Presence | the dot is right once everything was heard, unless a change was missed or overtaken |
| `MessageHeard` | Presence | a relayed message ends with a receipt, a push, or the decision not to push |
| `StoppedNotShown` | Typing | a member who stopped is not shown as typing in the group |
| `SameRound` | CallLink | both ends are in the same round when nothing is under way |
| `ReconnectEnds` | CallLink | "Reconnecting" comes to an end |
| `CamerasReleased` | CallMedia | no camera outlives the call, or its button |
| `PeerToldCamera` | CallMedia | the other side is told of a picture just when the camera is on and video is not paused, however taps and pauses overlap, but for a camera turned on during a pause; and just when one is sent, unless a switch found no camera |
| `StepUpSlowly`, `VideoRecovers` | CallQuality | video is given back slowly, one tier at a time, and in the end entirely |
| `NoteAsMeant` | VoiceRecorder | a recording becomes what was last asked of it, and the microphone is released |
| `TransfersEnd` | Attachments | every upload and every load ends |

### Bounds, and why they are enough

* `Msg` of two in one thread: two handlers interleave, append to one thread, and
  compete for a page. More threads only separate them. One message is enough for
  the liveness run, whose properties speak of one message and of the pass.
* `PageSize = 1` in place of 200, so that an inbox can exceed a page.
* `MaxReceipts = 2` (a constraint of `inbox_safety`) bounds the receipts in
  flight, waiting on the database or about to be sent for an open thread at a time; two suffice for a receipt of each
  message, or for READ and DELIVERED of one, to cross. `inbox_live` has no constraint.
* `MaxGen = 2`: one reinstallation. Three senders and two keys let two senders
  share a key while a third holds another, and let the keys run out.
* Two calls: a call next to a newer one of the same caller (`calls_live`,
  `calls_newer`) or of the peer (`calls`, with glare). A call id is used once, so
  a third would repeat the second's part.
* `Faults` names the faults a run allows, each any number of times.
* `parts`: three requests (`Requests`) are a registration and two that cross;
  two roster changes by two users, one of whom (`Followed`) has a page with its copies, while the other may ask for anything, and one `upsertGroup` of a page at a time; one
  message each way in `Conversation`, since the history is one value and a
  second of a kind repeats the first; three operations on two chats (`Jobs`), two at once (`Overlap`);
  two chunks, two attempts each, room for one file, so that attempts of one
  operation overlap and the quota can be exceeded; two pages of a user; two
  typists, one of them also a contact; three rounds, so that an answer can be
  taken for an offer that is not the one before it, and two messages on the way
  to an end; three taps during a call; two presses; two voice notes.
* `parts_live`: one lane and one page, two rounds; what must end is a single
  transfer, message or reconnection.
* Bounds stop a component when they are used up (requests, changes, jobs, taps, presses).
  `MaxEvents`, `MaxPings` and `MaxSignals` hold a sender back until a
  message has been taken; messages are lost by actions of their own (`Untune`, `LosePing`, `LoseSignal`).

`calls`, `prekeys`, `calls_live`, `parts` and `parts_live` do not check deadlock: the system
stops when every call id, sender, request or tap is used up.

### Fairness

`Inbox!Fairness` gives weak fairness to a handler's next step, to database
writes and their answers, to frames on a live socket, to inbox requests and to
the client's `connect` event. The event loop, Prisma's promises and socket.io justify each. Nothing is assumed of the user,
of faults, or of a socket that is down (`Join`). `InboxDrains` states its further assumption itself (`StableNetwork`): in the end the
socket stays up, and inbox requests keep being answered, which needs triggers
that keep coming (a resume, a reconnect): the code has no timer that polls.

`Calls!Fairness` gives weak fairness to the arrival of events, to the three
timers and to a task's code between two awaits. Nothing is assumed of a user in
front of a ringing phone or a permission prompt, nor of WebRTC. `CallSettles`
speaks of calls the server has put through and leaves lost events out: an ack of
`call:invite` that is lost leaves the caller waiting for good, which the code
does not claim to prevent.

`AttachFairness`: the server works on the attempts it has, `fetch` answers or
times out, and the browser's own steps happen. `PresenceFairness`: the delivery
check's timer fires and `notifyRecipient`'s reads end. `LinkFairness`: only the give-up timer fires; nothing is
assumed of the network, of the peer or of the retries. `QualityFairness`: the
sampling interval fires and the sender sets its parameters. `VideoRecovers` states
itself that the link stays up and good in the end.

### Findings

1. **`inbox_first_connect`** (`web/app/chat/page.tsx:707-710`). The comment says init's own catch-up covers the
   first connect. The request may be answered before the socket is in its room;
   a message stored in between is met by neither, until the next reconnect, resume or reload.
2. **`inbox_overwrite`** (`web/lib/localDb.ts:159-164`). Two messages of one thread that are appended at the
   same time can leave one of them, and both are acknowledged, upon which the server
   drops their ciphertext because "the recipient holds the message locally"
   (`signal.gateway.ts:277-279`). `updateMessageStatus` in the same file was changed to one
   transaction for this reason.
3. **`prekeys_twice`** (`server/src/controllers/keys.controller.ts:98-99, 115-127`). A one-time key that is "never issued
   twice" can be issued to two senders whose requests overlap; the second one's
   first message then fails (`FailsForAReason` has the case; its other reasons are a bundle that straddles an upload and a new identity).
4. **`calls_newer`** (`web/app/chat/page.tsx:2032-2043`). The error timer of a failed call that
   was closed by hand is not cleared, and tears down the next call.
5. **`calls_ghost`** (`server/src/sockets/call.gateway.ts:88-94`). `call:end` overtakes the
   invitation that waits for a lookup; the callee rings for a caller who is gone, without a timeout.

### What else the code does

The exceptions the properties of `parts` name are things the code does, and a
maintainer will want to know them. They have no violation run of their own; where a
comment says otherwise it is quoted here.

* *Ticks* (`localDb.ts:166-188`, `page.tsx:816-825, 1661`): a receipt that comes
  before `appendMessage` has stored the bubble is dropped, and an `appendMessage`
  under way writes older ticks back over newer ones, although a tick "only ever
  moves forward". Receipts look for a private thread only, so bubbles of a group keep one tick.
* *Screen* (`page.tsx:1641, 1679, 1771`): after sending or deleting, the messages of the
  thread that was open at the start are put on the screen, also if another one is open by then.
* *Group rosters* (`page.tsx:484-507, 957-973`): the page load syncs the rosters "(covers being added to a
  group, or a role change, since we last logged in)", but `groupsRef` keeps the copy painted from disk until the first
  `refreshGroups`, and `ensureGroup` stores that copy again: one pending message of a group undoes the sync.
  A group left on this device keeps its stored roster, and an open thread is not told of a newer one.
* *Chat list* (`page.tsx:982-1010`, `messages.controller.ts:55-94`): a chat deleted on the device is listed again by
  the next page load, as long as there are `Message` rows of the pair, which "persist indefinitely". A partial update "doesn't
  clobber fields like `favourite` that weren't part of this particular call" (`localDb.ts:210-212`), but the whole
  list is got and set in two transactions: an operation on one chat that another one's overlaps is undone. A logged call
  with somebody who is not on the list puts a chat without a name there (`page.tsx:1925`).
* *Mutes* (`page.tsx:1381-1408`): the local flag "never claims a mute the server doesn't also
  know about", but an unmute whose answer is lost leaves the flag, and so may a mute and an unmute that cross; only the next page load copies the server's mutes back, and only those set.
* *Codes* (`auth.controller.ts`): login shows the code form although the mail
  failed; a code is mailed before it is stored.
* *Groups*: a message to a group whose sender has been removed meanwhile is
  relayed as a private one (`signal.gateway.ts:143-155`).
* *Quota*: the retry of a create whose first attempt is still running counts, and writes, twice.
* *Typing* (`page.tsx:840-869`): the timer of a thread clears the last member
  heard; another one whose stop event is lost stays on the label.
* *Camera and screen* (`callClient.ts:694-756`): a share that starts with the camera off
  does not tell the peer that there is a picture; a camera turned on while video is paused is told on
  (`page.tsx:2234`), though the pause told it off and nothing is sent; a native track stopped by `track.stop()`
  raises no `ended`; a camera switch that opens neither camera should "keep whatever camera state we
  had" (`page.tsx:2245`), but the old track is stopped by then and the camera still shown as on; a screen picked after the call has ended is captured on.
* *Voice notes* (`VoiceRecorderButton.tsx`): `latestDragXRef` is not reset by a
  press, so a note after a cancelled one is thrown away if the finger does not
  move; two presses during one permission prompt leave a microphone open; a
  finger lifted before the permission leaves the bar recording until the limit, which sends.
* *Voice player*: a note tapped before its metadata is there, and whose length is unknown, ends at once.
* *Back button* (`page.tsx:374-452`): "back closes whatever's open (innermost first)" does
  not know the report, disappearing-messages, theme and add-to-list modals: the
  thread beneath is closed, and the modal returns over the next one. The emoji
  panel's flag outlives its thread and costs one press; the exit prompt stays
  armed if a thread is opened within its two seconds.

### Mutants

Each property of each passing run comes with a mutation of the model, next to
the definition it stands for and marked `Mutation:`, that a plausible error in the code would amount
to and that TLC finds to break the property: a pass that awaits its acks, a page
acknowledged before it is handled, an upload that keeps the old rows, a stream
kept after its client was disposed, and so on.

## 4. What is proved

All theorems hold for every value of the constants that satisfies the modules'
named assumptions (`ConstAssumption`, `PrekeyAssumption`, `CallAssumption`, `LinkAssumption`,
`MediaAssumption`, `QualityAssumption`, `AttachmentAssumption`, `AccountAssumption`, `GroupAssumption`,
`PresenceAssumption`, `TypingAssumption`, `ConversationAssumption`, `RosterAssumption`, `RecorderAssumption`,
`NoteAssumption`), which say little more than that bounds are numbers and stand-ins are not members of the set
they stand beside, and with every fault enabled. Every safety invariant and action property that a passing run
checks is among them. Invariance theorems have the usual shape: an inductive `IInv`, `Init => IInv`,
`IInv /\ [Next]_vars => IInv'` with one step per action, and `IInv => Inv`. Each `IInv` was an invariant of a
TLC run on the small instance before its proof was written.

**`InboxProofs`.** The named properties are not inductive by themselves, so
`IInv` adds three parts to `TypeOK` and `AtMostOnce`:

* `OnlyRelayed`: rows, frames, handlers and keys are of messages the server has accepted, and a
  handler that has started has its message in `seen`;
* `OneEntry`: a copy exists only of a message whose key was used; while a
  handler has the plaintext in hand no copy of it exists, neither in the
  history nor in a snapshot that an append will write back;
* `ReadsEntered`: whatever is about to be marked, waits for a READ ack, or travels
  as READ or VIEWED was entered.

From it follow `TypeCorrect`, `HistoryAtMostOnce`, `ReadsAreEntered`, the action properties
`DecryptsOnce` and `ReceiptsFollowHandlers` (an action that puts a receipt on the wire is one of a
handler that has taken the message up: the lemma `EmitsTakenUp` goes through them), and
`InboxImplementsMailbox`: each step of `Inbox` is a step of
`Mailbox` or leaves `fate` unchanged. `AcknowledgedIsEntered` has an invariant of its own on top:
of every receipt in flight, the message is entered or in hand, if no handler can fail.

**`PrekeysProofs`.** `Generations` orders identities, uploads, rows and bundles; `PostedOnce`
says that nobody has seen the keys of a bundle that is still to be applied; `Requests`
what a request holds at each point of the transaction; `Stored` that a posted bundle's private halves are in
place (with `FreeKeysUsable`); `Shared` extends `SharedOnlyIfMet` to requests in
the transaction; `Spent` says who may have spent a private half the device
lacks. The theorems are `KeysOfPublishedIdentity`, `HandedOutKeysWork`,
`PrekeysTypeCorrect`, `OnlyOverlappingShare`, `FirstMessagesRead`.

**`CallsProofs`.** The hard one is `DeclinedNeverAnswered`, which relates a
rejection in flight to an answer sent at another time by another action. It
needs to follow a call through all its stages: invited once (`InvitedOnce`); while
the invitation is on its way, of which there is one (`OnItsWay`, `OnItsWayOnce`), and while the
phone rings (`Ringing`), nobody has taken or declined it; a rejection in flight excludes that the
call was taken (`TakenOnce`). `CallerConnectsAnswered` needs that answers
in flight, being applied, applied, or behind a timer were sent (`AnswersSent`);
`LoggedReached` that acks are of relayed calls (`RelayedEvents`, `SentReached`);
`NoOrphanMedia` that client and call on a phone belong together (`ClientOfCall`, `OwnCall`). `IInv` is the
conjunction; `CallsTypeCorrect`, `MediaOfTheCall`, `NoAnswerReached`, `NeverAnsweredAndDeclined` and `CallersConnect` follow.

**`CallLinkProofs`.** Of `CallLink`: `SameRound` looks at empty queues only; what is inductive is
`Orderly`, which follows an open offer: it is the only message to the callee, or
the callee is in its round and the one answer on its way to the caller is to it;
and nothing else is under way that a round could be taken from (any number of
requests may be). `KeepsTrying` (an end that reconnects has its retry and give-up timers) needs only the types.
`LinkIInv` is their conjunction, `RoundsAgree` and `ReconnectKeepsTrying` follow. Of `CallMedia`: `MIInv` says
which steps each kind of tap goes through (`PhaseOK`), that during the call only what is in the stream captures and
after it only what was picked too late (`StreamOK`), that as long as taps do not overlap one that stopped the picture
leaves nothing capturing until it has a new one (`CalmOK`), and that the peer knows as long as no screen was shared, with `relit` for the camera turned on during a pause (`ToldOK`); `CamerasAreReleased` and `PeerIsToldCamera` follow. Of `CallQuality`: `StreakCalm` relates the counter of good samples to how long the
link has really been good since the last change of the tier; `NoFlapping` is the action property `StepUpSlowly`.

**`AttachmentsProofs`.** The retries make this one: any number of attempts of one request are with the server,
and the client listens to the last. `AIInv` has four parts besides the types. `QuotaKept`: as long as no two
creates have met between sum and write, one of them at most is there and has room. `UploadOK`: what the
client waits for in each phase (`ClientOK`), that the pool hands out chunks in order and forgets none
(`HandedOut`), and that attempts are numbered and the one that made the row is over (`WireOK`). `StoreOK`: the
server has every chunk that was acknowledged and is not complete before completion was asked for, or the
purge has been there. `CopyKept`: a dropped copy comes back only with a load that raced. The theorems are
`QuotaOnlyByOverlap`, `ConflictOnlyAfterPurge` and `NoCopyLeft`.

`ChunkStoreIsWriteOnce` is the refinement: `Attachments` implements `BlobStore` with `file`, `stored` and the
chunks loaded for its state. A chunk that is written after its file was completed must then be one the
file has, a completion that arrives late find the chunks that were counted, and a load read of the file whose
upload is over. That is `BlobsOK` (`RowsFresh`, `SealedWhole`, `CountedWhole`, `ReadersOK`), inductive with `AIInv`.
No run has `WriteOnce` as a property; the theorem is what shows it.

**`ServerProofs`.** Of `Accounts`: a code is mailed before it is stored, so `NewestCodeIsStored` needs that a
code in the row was stored by a request that has answered (`CodesStored`), and that while requests do not overlap
at most one has mailed and not written, and its mail is the newest (`OneMailed`), which the row has once none does (`NewestStored`). Of `Groups`: `PageCurrent` says that a page which has not fallen behind
makes one request at a time, whose copy is right until the write and whose answer, or that copy with the change, is right
after it (`RequestRight`); `ShownStored` that it shows what it has stored; `RequestsNamed` that a request was made by
somebody about somebody; from these `RosterIsCurrent`. Of `Presence`: `SightOK`, the last event under way, or else an
answer that is not out of date, or else the dot, says how things are; `DotIsCurrent`. Of `Typing`: a composer takes back
what it announced in the same thread (`ComposersOK`), and each start under way of a member who has stopped is
followed by another event (`StartsFollowed`); `StopIsShown`.

**`DeviceProofs`.** Of `Conversation`: two invariants carry `HistoryRight`. `NothingInvented` says of every
history, the stored one and each that an operation has in hand, that its ticks have arrived; it
holds whatever is lost. `NothingLost` holds until a write is lost: an operation about to
write holds the history as it is, which is why a receipt's single transaction must count
as a write only when it moves a tick. `SIInv` says who may put the chat on the screen
without looking (`ScreenIInv`). `HistoryIsRight` and `ScreenIsOpenChat` follow for any number of messages, where the
run has one each way. Of `Roster`: `RosterIInv` says that no count is above the number of operations
that have looked (`CountsOK`), which operations set a mute (`MutersOK`), and that of an unclashed chat at most
one operation is about its mute, no mute shows that the server does not have, but for one being removed, and, once it is deleted, nothing but a copy of the mutes that has yet to look at the list is under way (`KeptOK`); `ListIsKept`. Of
`VoiceRecorder`: `RefsOK`, while presses do not overlap, the refs name the recorder, its microphone and its limit, or nothing; `RecordingAsAsked`. Of `VoicePlayer`:
`PlayerIInv` is the conjunction of the types and three facts about a thread's
players, which support one another (`WaitersServed`: who waits is in view and has a decode under way): a decode under way is of a note that is not
remembered (`DecodedOnce`), a player that waits has one (`BarsShown`), and what
plays is mounted and active (`OneAtATime`); the theorems `OneNotePlays`, `NotesDecodedOnce` and `PlayersShowBars` state them. Of
`Screens`: `HangUpInReach`, whichever of taps, link changes, answers and the back
button come in between, the controls of a call are hidden only while it is a
live video call with closed reactions, and the timer that hides them runs only then on a good link.

**`PartsProofs`.** A step of the composition is a step of one component and leaves the others alone
(`PartsSteps`), so each behaviour of it is one of every component (`PartsAreComponents`). With the theorems above,
`PartsTypeCorrect` and `PartsAreSafe` state what the run `parts` checks for every value of the constants.

Only model-checked: the liveness properties (`PassTerminates`, `InboxDrains`,
`CallSettles`, `TransfersEnd`, `MessageHeard`, `ReconnectEnds`, `VideoRecovers`), which rest on fairness and with
it on ENABLED, outside what the prover handles. The findings are counterexamples, for TLC alone.

## 5. What is not modelled

* libsignal's ratchet: a message key is consumed by one decryption; nothing else
  of the ratchet shows. Sessions after their first message.
* What message bodies carry: polls, reactions, edits, replies, disappearing
  messages, view-once media beyond their event. They travel as any message does.
* Groups on the sender's side: the loop of `sendToActiveThread` over members is
  in `Groups` (who is sent to), its history is kept as a private chat's is.
* The encryption of attachments and their progress; files that travel in the message.
* Rate limits, wrong passwords, session tokens, profile changes, search, export, themes.
* Bitrates and resolutions, single ICE candidates, audio output.
* The Java side of the Android shell and FCM: external, seen from how the client uses them.
* Two tabs of one account over one IndexedDB.
* The HTTP shell, configuration and the stand-alone client in `src/client`, which
  have no state of the running system. Rendering and layout.

## 6. Plan

Done: every component with state of its own, the proofs of every safety property the runs check, and the
two refinements. Left, in order of what it would add:

1. `Conversation` composed with `Inbox`: a tick claims no more than the
   recipient's page did, through the relay and its lagging row.
2. `CallLink` in place of `Connect` and `ConnectionLost` in `Calls`.
3. A second tab of the recipient in `Inbox`.
