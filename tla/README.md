# Agentrove: TLA+ specifications

Agentrove is a self-hosted workspace for coding agents: a FastAPI server that runs
ACP agent processes on behalf of chats, streams what they do to browsers, and wakes
them for automations, channels and sub-threads. This directory specifies its
concurrent core in TLA+. TLC checks the modules on small instances; TLAPS proves the
most important results for every value of the constants.

Line numbers below and in `PROJECT.json` are those of the source tree (`src/` is the
repository root).

## 1. The system

The server is **one** uvicorn worker (`entrypoint.sh`): a single asyncio process. What
runs between two `await`s is atomic; every `await` is a point at which any other
request, background task or timer may run. State lives in class-level tables of that
process (lost by a restart), in the SQL database (SQLite, durable) and in a cache
(Redis, or an in-process store in desktop mode).

| component | source (`src/backend/app/` unless said) | state it keeps | operations | what is hard | correct when |
|---|---|---|---|---|---|
| Chat turns | `services/streaming/runtime.py`, `services/session_registry.py`, `services/chat.py`, `api/endpoints/chat.py` | `_starting_chat_ids`, `_background_task_chat_ids`, `_active_runtimes`, `_sessions`, `_pending_cancels`; per session `cancel_event`, `active_generation_task`; message rows | send, stop, revoke device, queue, send-now, steer, hand-off to the next queued message, idle reaping, restart | sends, stops, hand-offs and reaping interleave around shared sessions; cancels cross turn boundaries; a popped message is in nobody's queue | one turn at a time per session; each message runs once; every row settles; a stop stops what it aimed at and nothing else |
| Message queues | `services/queue.py` | a JSON list per queue, a send-now marker per chat | add, edit, delete, clear, pop next, mark, pop marked, requeue | read–await–write cycles; cache calls that fail half way; keys that expire | operations are atomic; no lost edit, no duplicate |
| Cache | `utils/cache.py` | keys with TTL, pub/sub | get, set, delete, publish, subscribe | lossy publish, `CacheError` before or after the effect | (used by the others) |
| Stream events | `services/streaming/runtime.py` (159–320, 464–665, 1367–1501), `services/message.py`, `services/chat.py` 842–1020; `src/frontend/src/services/stream*.ts`, `hooks/useStream*.ts` | `message_events` log with a sequence number per chat, snapshot rows, in-memory buffer; server and browser cursors | emit, flush, checkpoint, final snapshot and prune, replay, reconnect, re-entry | publish may be lost, log is pruned under a reader, cursors in three places | the browser's view is what the agent said, and it settles |
| Sub-thread wake-ups | `services/subthread_wake.py` | `_pending`, `_scheduled` | end of a child chain, debounce, steer into the parent or start a wake turn | parent busy, 409 races, restart loses the pending set | the parent hears of every child that finished |
| Channels | `services/channel.py`, `api/endpoints/channels.py` | message and delivery rows; in memory `turns`, `retries`, `permissions`, `timer`, `paused` per channel | post, wake, run a turn, stop, queue, revoke a device, recover | a member's unseen messages vs. a running turn; cuts between a turn's writes | every post reaches every member it addresses; nothing of a turn outlives it; the queue drains |
| Permissions and elicitations | `services/acp/client.py` | futures by request id, activity flags | request, resolve, dismiss, cancel | answer racing cancel, late answer | each request gets one answer; none hangs after the turn |
| ACP session, agent | `services/acp/session.py`, `services/agent.py` | agent subprocess, RPC | open, prompt, steer, cancel | subprocess death | (environment of chat turns) |
| Push delivery | `services/push.py` | outbox rows with lease, attempts | enqueue, claim, finish, retry | lease expiry with a slow sender | one live claim per lease; a registered phone stays registered; every notification is settled |
| Tokens, devices, pairing | `services/refresh_token.py`, `device_session.py`, `device_revocation.py`, `pairing.py` | token families, pairing secrets | rotate, revoke, redeem, cleanup | answers lost after the rotation, tabs that share a storage | the token the browser keeps is one the server accepts |
| Automations | `services/automation.py` | rows with schedule, next run, enabled | select, claim, fire, edit, delete, repair | overlapping dispatchers, edits between read and write, the end of summer time | each slot fires at most once; only broken automations are disabled |
| Terminals | `services/terminal.py`, `api/endpoints/websocket.py` | records by key; pty, active socket, tasks | attach, take over, leave, terminate, exit, close | attach racing exit, two closes of one record | a shell per record; an attached socket shows a live shell |
| Remote machines | `src/frontend/src/services/machine{Vault,Session,Actions}.ts`, `lib/api.ts`, `store/machineStore.ts` | refresh token, access grant, pairing, status of each machine | check, request, pair again, remove, follow another tab | answers that come after a removal or a new pairing | the status shown is true of the current pairing; nothing survives a removal |
| Panes of a window | `store/uiStore.ts`, `pages/ChatPage`, `pages/ChannelPage`, `utils/tileHelpers.ts` | open and visible tiles, split chats by slot, focus, the workspace that owns them | show, split, close, delete, visit, reload | slots are renumbered while tiles and focus name slots; effects of pages load and rebuild | a tile shows the chat it was opened for; a deleted chat does not come back |
| Handoff transcript | `services/handoff.py` | – (pure) | build | budget arithmetic | newest parts kept within the budget |
| Browser stores | `src/frontend/src/store/*.ts` | optimistic queues, streams | optimistic update, roll-back | a late failure undoing a newer edit | store converges to the server's state |
| Everything else | git, docker and GitHub wrappers, users, settings, storage, search, UI, shells, MCP server | | | | I/O, CRUD or rendering: see `PROJECT.json` |

Components call each other directly (the endpoints call `ChatService`, which calls
`ChatStreamRuntime`; the runtime calls `session_registry` and `QueueService`; the end of a
chain calls `subthread_wake` and `channel`), share the tables of `ChatStreamRuntime`, and
reach browsers only through the event log and the cache's pub/sub.

## 2. Plan

In order of importance. Everything listed is written, except where it says otherwise.

1. `ChatTurn`, with `ChatPromise` as the abstract specification it implements.
2. `MessageQueue`, with `AtomicQueue`: justifies the atomic queue operations of `ChatTurn`.
3. `EventLog`, and `EventFeed` on top of it: the writer of one chat's events; the live feed and
   a browser that follows it.
4. `Channel`: members, deliveries, retries, stop, revocation, queue, restarts.
5. `SubThreadWake`, `PushDelivery`, `TokenRefresh`, `Automation`, `Terminal`, `MachineSession`, `PaneLayout`:
   small protocols without common state, checked side by side by `MC_Background`.
6. Not written: the ACP client's permissions, the hand-off transcript, the browser's queue
   store. Section 8 says why.

12 runs (4 of which reproduce a disagreement between the code and its documentation), 40
properties of the passing ones, 40 hazards.

Proofs are kept apart, in a module `X_proofs` for each module `X` they are about (`Background_proofs` for the protocols
of `MC_Background` other than `Automation`), and are for every value of the constants. The 26 invariants the passing runs check are all theorems, as are the refinements
`PromiseKept` and `Linearizable` and the action properties `FinalStays`, `OnlyBrokenDisabled` and `ClosingKeepsPanes`; the paragraphs "Proved" below give the
inductive invariant of each. What stays with TLC, and why:

- **Liveness** (`CancelledTurnSettles`, `StartsResolve`, `CallsReturn`, `StreamSettles`, `EveryTurnEnds`,
  `MessagesReachMembers`, `QueueDrains`, `PushSettles`, `ReportsArrive`): it needs `ENABLED` and fairness, which
  are beyond the prover.
- What a recursive definition computes for every input, such as the library's `SelectSeq` and sorts: the
  provers cannot instantiate the induction theorems. Section 4 says how the proofs do without.

## 3. ChatTurn: the turns of one chat

All tables of the code are keyed by chat id, so one chat loses nothing. The module keeps
each of them under a name of its own:

| variable | code |
|---|---|
| `reserved` | `_starting_chat_ids`: the request in `chat_start_slot` |
| `phase[t]` | where the background task of turn `t` stands; `Live(t)` is "in `_background_task_chat_ids`" |
| `session`, `runner`, `cancelled` | `_sessions[chat]`; per session object `active_generation_task`, `cancel_event` |
| `pending` | `_pending_cancels[chat]`: absent, timed, timed and past its 30 s, persistent |
| `runtime`, `steerer` | `_active_runtimes[chat]`; holder of that runtime's `_steering_lock` |
| `row[t]` | `stream_status` of the assistant row |
| `queue`, `sendNow` | the two cache keys of `queue.py` |
| `held[a]`, `next[a]` | local variables: message popped, turn being scaffolded, by request or predecessor |

A turn goes `unused → claimed → created → booting → opened → bound → streaming → drained →
popMarked → popNext → (holding →) terminal → unwinding → done`, with `finalizing` for
`finalize_dead_stream`; a request `new → marked → locking → steering → check → cancelling /
starting / idleStart → launched → answered`. Each arrow is one await-free stretch of code:
for example `Bind` is everything `execute_chat` does between the commit of the session id and
its next `await`, and `HandOff` runs from `start_background_chat` for the successor to the
return of the predecessor's task function, because nothing is awaited in between. Operators marked "wrong" stand
before the one they mutate; nothing uses them.

History variables (`sent`, `removed`, `dropped`, `starter`, `aimed`, `early`) record what users
did and are read by properties only.

**Properties.** `OneTurnPerChat` (the start slot and the task table together exclude two turns
on a session, hand-overs included), `SlotExcludesTurns`, `SessionNotStolen` (reaper, respawn,
failing turn), `MessageConservation` (every message is in exactly one place; only a crash or a
cache failure loses one), `RowsSettled` (somebody is still going to settle each row in
progress), `StopBeforePromptHonoured`, `SteeringExclusive`, `PromiseKept` (refinement of
`ChatPromise`), and the liveness properties `CancelledTurnSettles` and `StartsResolve`.

**Bounds.** `Turns` has at least as many members as requests and messages together, so no turn
ever waits for a free name. Three requests are what the races need (two contenders and a stop
or send-now), four turns cover a chain of hand-overs with a competing start. `MaxFaults` counts
crashes and failed cache calls. Requests do not repeat; a user's second click is another
request.

**Fairness.** `Scheduling`: asyncio runs every ready task, so a request or turn whose next step
waits for nobody takes it. `AgentAnswers`: an assumption, not something the code enforces: the
agent answers the calls that open and configure a session and steer a turn (the code puts no
timeout on them). The agent's stream need never end; that is why `CancelledTurnSettles` is worth
stating.

**What the runs show.**

| run | shows |
|---|---|
| `turn_safety` | all safety properties and the refinement, four turns, three requests, one message, one fault (642 k states) |
| `turn_live` | both liveness properties, three turns, two requests |
| `stale_cancel` | violated: a Stop that reaches a reserved start that then fails leaves a pending cancel, and the turn the user starts next within 30 s is interrupted before it is prompted (`runtime.py:1193` and a test say it must not) |
| `handoff_stop` | violated: a Stop between two generations is recorded as pending, then consumed by the cleanup of the *predecessor*; the successor is prompted (`session_registry.py:39` says it is honoured) |
| `send_now_left` | violated: nothing fails, a send-now races the end of a turn, and its message stays marked in an idle chat. `SmoothSpec` removes failures, so the cause is the interleaving alone |

**Proved** (`ChatTurn_proofs`), for any sets of turns, messages and requests. `TypeInvariant`
needs `Typed`, which adds to `TypeOK` what links an actor that is starting a turn to that turn
(`next[a]` is a turn, `using[t]` is set once a session was opened). `OneTurnPerChat`,
`SlotExcludesTurns` and `SessionNotStolen` are not inductive: which turn may be created next
depends on who holds the slot, whether any turn is alive, and who is preparing whom. `Gate` says
so in eight parts: the slot belongs to the request that is starting (`SlotHeld`) and excludes
live turns (`SlotAlone`); at most one turn is upstream (`OneUpstream`); a start names a claimed
turn, and a claimed turn its only starter (`StartsClaimed`, `ClaimedStarts`); the active task of a
session is a turn that drives it (`RunnerDrives`); the driver's session is the registered one
(`DriverKept`), and so is the session a turn has opened (`OpenedKept`). The three theorems
follow from `Typed /\ Gate`.

The other safety properties and the refinement build on these two, each with an invariant of its own:

- `RowsAreSettled`: a row in progress is that of a turn at a point where something will settle it
  (`RowsBehind`), which is stronger than what `RowsSettled` asks.
- `SteersAlone`: a request is steering exactly if it holds the lock of the runtime, and the turn it steers is streaming (`Steering`).
- `StopIsHonoured`: `Honoured` follows a Stop from the moment it arrives to the prompt. A request has started
  a turn only once it holds the slot (`StarterPast`); until that turn has bound its session no other lives that could take its cancel (`BootsAlone`); so the
  cancel is pending until the turn binds, then set in its session's event, and the turn never streams (`CancelArrives`).
- `MessagesConserved`: `Placed` says that the queue holds a message once (`Once`), that the places a message can be in exclude
  each other (`Apart`), and that a message sent is in one of them or was lost by a fault (`Somewhere`). `FateIsPlace` reads from it
  the fate that `ChatPromise` gives each message.
- `ChatKeepsPromise`: under these invariants the initial states map to those of `ChatPromise` and each step to one of its steps or a stutter.

The proofs assume of the constants what `ChatTurn` states: `NoTurn` is neither a turn nor a request, and `NoMsg`
no message. Only the two liveness properties are left to TLC.

**Left out.** Deleting a chat (`terminate()`), failures of database commits other than those
that make a start fail, expiry of the queue keys (see `MessageQueue`), permission prompts.

## 4. MessageQueue: the operations of one queue

`queue.py` keeps the list as one JSON document and rewrites it whole. An action of the module
is one cache call (`GetMarker`, `DropMarker`, `Read`, `Write`, `SetMarker`) with the code up to the next;
`at[p]` is where call `p` stands, `copy[p]` the list it has read, `lock` the holder of the
`asyncio.Lock`. `CacheFails` lets any cache call raise, before or after its effect; `Expire` drops
a key at any moment; `CallRequeue` is `_requeue_message_quietly`, the caller of a pop giving the
message back. An item is its id with the set of calls whose edits its version has gone through:
that is all the properties tell apart.

`AtomicQueue` states the promise: each operation takes effect at one instant. The refinement
mapping is the interesting part: while an operation has read the list and not yet written it, the
abstract queue is the copy it holds (a key that expires meanwhile has not been noticed), and while
`pop_send_now_message` follows a marker it has already deleted, the abstract marker is the one it read.

Run `queue` (three concurrent calls, two messages, one of them stored before start, one fault,
551 k states) checks `MessagesIntact` (no message
stands twice in the queue, and an edit that was confirmed is in what is stored or popped), the refinement `Linearizable` and, under weak fairness
of each call's own steps, `CallsReturn` (no path keeps the lock). Three calls are enough for a
reader, a writer and one that interferes; two messages for a list with an order.

**Proved** (`MessageQueue_proofs`): `OperationsAreAtomic`, the refinement for any number of callers,
messages and faults. The inductive invariant has four parts: the shapes of the values
(`Shapes`), an operation is inside exactly if it holds the lock (`Locked`), where a call stands
agrees with what it was asked (`Asked`), and what it read is still what the cache holds, or has expired (`Fresh`).
Then every step maps to a step of `AtomicQueue` or to a stutter.

`QueueTypes` and `MessagesStayIntact` need more than that, because they are about what an operation writes. The code filters
lists, and `SelectSeq` and the sorts of the libraries are recursive or built on operators the provers do not know. `Subsequence` defines what is
needed without recursion: `InOrder(I)` lists a finite set of numbers upwards, the k-th being the one with
k - 1 below it, and `Picked(s, I)` is `s` at those places. `Subsequence_proofs` shows that such a list has exactly the elements
of the set, in order, and is the only one that has; `PickedIsSelection`, which TLC evaluates in run `queue`, ties it to
`SelectSeq`. `MessagesInv` says what each call was given and answered (`Args`), that no message stands twice in what the
cache holds or the calls have been given, together (`Once`), that the message of a pending add is nowhere yet (`Known`), and that an
edit which was confirmed, or is written and about to be, is in every version of its message there is (`Kept`).

## 5. EventLog and EventFeed: what a turn writes and what a page shows

`EventLog` is the writer. `events` is every event ever committed (the index is the sequence
number, as in the code, where it is chat-wide and gapless), `live` the numbers still in
`message_events`, `row[m]` the columns of the message row, `outbox` what was committed and is still to
be published before the task goes on, `unflushed` how much of `said[m]` is in `_event_buffer`. The
control state `pc` follows the one task that may write for the chat (which module `ChatTurn`
shows to be one): `booting` (before `stream_started`), `starting`, `streaming`, `flushed`,
`finishing` (an outcome is known), `saved`, `handing` and `handed` (queued message found), `ending`,
then `dead` and `folded` for `finalize_dead_stream`. `phase` is that of the process; `Boot` is a
new process, which reconciles rows in progress before it serves.
Text is abstract: the k-th text of a turn is the number k, and 0 is the error note.

`EventFeed` adds the readers. Server: `OpenPast`, `Subscribe`, `ReplayBacklog`, `Forward` follow
`create_user_streams_feed`, each database read or yield a step of its own. Page: `cursor` is the
event id in localStorage, `seen` the duplicate filter, `cache` react-query's copy, `shown` the
messages on screen, `stream` the turn whose stream is registered. `Send` and `Register` are the two
halves of `sendMessage` around its request, `Starts` the placeholder that it and `onQueueProcess` put on screen, `Probe` and `Reenter` those of
`reconnectToActiveStream`, `FetchRead` and `FetchApply` those of a fetch of the messages; the other page
actions are one delivered envelope each. Two history variables: `ended` has the turns whose end the page was told of, `early` those
that a page of messages had put on screen with text before their stream reached them.

| property | what could break it |
|---|---|
| `TextsKept`: `LogCompletes` | checkpoint and `last_seq` are written in a step after the flush |
| `TextsKept`: `FinalKeepsCommitted` | a turn dies between checkpoints; the save prunes what the fold did not add |
| `EndSurvives` | pruning after the end event instead of before, two ends of one message |
| `FinalStays` | a late flush or a second finalizer writes into a finished turn |
| `ViewFaithful` | replay, refetch and the live leg overlap: the same text twice, or out of order |
| `NothingSkipped` | cursor, URL, server position and duplicate filter disagree about what was delivered |
| `EndedViewFinal` | the refetch at the end reads the row before it is final |
| `StreamSettles`, `EveryTurnEnds` | an end event is missed by a page that is between connections |

A late `task.cancel()` can leave a batch in the buffer that was already committed (`CutShort`); the
text is then committed twice. `Doubled` marks such a turn, and the two properties that
speak of order and duplicates exempt it. `ViewFaithful` also exempts the turns of `early`: a page of messages that is applied
between a hand-off and its delivery, or between `createCompletion` and its answer, brings the next turn with the text of its
checkpoint; `insertMessagesById` keeps that entry, and the stream replays the turn from the page's cursor, which is before its
first event, so the text is shown twice (`useStreamCallbacks.ts:558`). A refetch is enough, and with three turns not even that: the
refetch at the end of the first can be this late. The page shows such a turn right again when it next
rests on fetched messages, and `early` forgets it.

**Fairness.** The task's awaits are answered (`TaskStep`), the agent ends its prompt (`Finish`, strong
fairness, since other events may always come in between), publications, the feed's loop, the page's requests and
its handler go on. Nothing makes a user send or a fault happen.

**Bounds and runs.** Two turns give one hand-over and one restart after an end; two texts are enough
to lose, repeat or swap; faults are counted together and chosen by kind in `Faulty`.

| run | shows |
|---|---|
| `log` | the five properties of the writer with any two server faults (195 k states) |
| `feed` | the readers' safety with two texts per turn and one dropped connection, reload, refetch, lost publish or crash (8.0 M states, under three minutes) |
| `feed_live` | the liveness properties; no text is needed for them, so `MaxText = 0`, the page may also refetch, give up and meet turns it did not start, and an agent may start before its `createCompletion` was answered (`SlowReply`; 234 k states) |
| `feed_gap` | violated without any fault: an event published after the page asked for the feed and before the feed subscribed is lost when the final save prunes the log before the backlog is read; the gap is noticed, the database has nothing to fill it with, and the next event is shown after a hole (`chat.py:972` promises a recovery). The refetch at the end of the turn repairs it |

The runs leave out faults under which a property fails in the code as it is, all of them listed
as hazards: a shutdown or crash between the final save and the end event, or a lost publish
of the last event, leaves a page waiting (`StreamSettles`); a page that gave up and re-enters can miss text
(`NothingSkipped`, `ViewFaithful`). `feed` keeps `SlowReply` and `OtherTurns` at `FALSE` for the size of its state
space only: the theorems below have no such restriction, and TLC checked `ViewFaithful` with `SlowReply`
(9.3 M states) and with three turns of one text (10.0 M) as well.

**Left out.** Several chats on one connection (they share only the socket), a connection kept
open by a channel page, the optimistic Stop of the page, the coalescing of rendered text into 50 ms
steps, pending permission forms.

**Proved of the log** (`EventLog_proofs`), for any number of turns, texts, notices and faults: `LogTypes`, `EndsSurvive`,
`FinishedStaysFinished`, `TextsAreKept`. `LogInv` ties the task's place to its turn and row (`Stages`, `StartUp`), and says that a turn in progress has no
end yet (`Unended`) and one with a verdict no text left in the log (`TextFree`), which is why pruning cannot
remove what a later fold needs. `TextInv` is about what was said: texts are committed in the order in which they were said
(`Numbered`, `Silence`); the row of a turn in progress holds them up to `last_seq`, and log and buffer
hold the rest (`Told`, with `Again` for the batch that was committed twice); a final row holds all that was committed (`AllHeld`).

**Proved of the page** (`EventFeed_proofs`): `FeedTypes`, `EndsAreShown`, `NothingIsSkipped` and `ScreenIsFaithful`, for everything the runs leave out
too: any mixture of faults, turns the page did not start, refetches while streaming, agents that speak early. The steps of the feed are steps of the
log or leave it alone, so that the log's invariants go on to hold; `LogOrder` adds what a reader relies on: a hand-off comes before
the events of the turn it names, the turn at work is the last that has any, and the row of an ended turn remembers a number
below its end's. `EndsShown` says that a page at rest shows a turn it was told has ended as the row has it, or has a refetch under way that will. `Following` is
the rest: what the feed has taken from the log and is still to come to the page is on the wire, in order (`Connection`);
what the page has handled precedes the turn it is about to follow and the end of the one it follows, so that the duplicate filter
never swallows anything it still wants (`Handled`); a cached or fetched copy has the turn's texts up to the number from
which the page would replay (`Covered`); and of the turn on screen, what is not shown is ahead of the cursor and unseen (`Pending`).
`ScreenIsFaithful` needs two more. `ReadInv` is about the log: every row's render was read from events up to the number the row has (`FinalRead`,
by way of what the final save will number it with, `Flushed`), and texts are logged in the order they were said (`Risen`). `Screen` carries this to the page: every entry
on screen, in the cache and on its way tells its turn in order, from the first text on while the turn runs; one from a page of messages was read up to its own
number (`CacheRead`), and the turn on screen up to the cursor (`Applied`). So the text that comes next is later than all that is shown, which rules out a repetition,
and by `Pending` it is the very next, which rules out a hole.

`EndsAreShown`, `NothingIsSkipped` and `ScreenIsFaithful` assume `[][~GiveUp]_vars`. It is needed: a page that gave up keeps its
numbers in the duplicate filter (`useStreamReconnect.ts:101`), so that re-entry skips what it had seen and dropped, and after a
dropped connection, a hand-off and a give-up it rests on an entry with a hole and asks for no refetch. TLC finds
both with `Faulty = {"drop", "giveUp"}` and `MaxFaults = 2`. The third way needs one give-up and a turn the page did not start (`OtherTurns`): re-entry makes a
placeholder with the number of the row but none of its text, and the next re-entry goes on past that number, so that the second text is shown without
the first (`ViewFaithful`). The invariant was checked by TLC with all other faults before
it was proved (5.9 M states).

## 6. Channel: one group channel

`services/channel.py` keeps a `ChannelState` per channel, most of it guarded by `state.lock`. An action
is one critical section of that lock, or what a task runs without it between two awaits. Variables
have the names of the fields (`turns`, `retries`, `permissions`, `timer`, `paused`); `messages` and `delivered`
are the tables; `task[m]` is where the `run_turn` task of member `m` stands and `agent[m]` what the
member's chat does; `control` is the holder of `state.control`, a post or a stop, with the turns it is about to
cancel in `cut`; `revocation` and `deviceCut` are the same for `cancel_device_turns`.

| action | code |
|---|---|
| `Wake`, `WakeFails` | `wake`: the timer, who needs a turn, the batch of each |
| `StartTurn`, `SkipStart`, `StartFails` | `run_turn` up to the accepted prompt |
| `BeginSpeaking`, `Ask`, `Answer`, `AgentEnds`, `AgentError` | what the chat's events do to the turn |
| `FinishTurn`, `FinishFails` | `finish`: reply, deliveries, audiences, the next schedule |
| `Post`, `PostFails`, `Stop`, `ControlCancels`, `ControlEnds` | `new_message`, `stop`, in two sections each |
| `QueueMessage`, `DispatchQueued`, `DispatchFails` | the channel's queue |
| `Revoke`, `CutDeviceTurns`, `CancelDeviceTurns` | `device_revocation.py` and `cancel_device_turns` |
| `Restart` | the process dies; `recover` |

A reply's audience depends on words the model does not have: `ReplyAudiences` is the set of those the
code may compute (somebody mentioned, else whoever asked). A failed, cancelled or cut turn delivers nothing, so its
batch comes back.

| property | what could break it |
|---|---|
| `NoLostWakeup` | a post while a turn runs, a cut between the turn's last event and `finish`, a retry that waits |
| `NothingOutlivesItsTurn` | an approval or a row that opens after the turn was cut |
| `RevokedNotPrompted` | a batch read before the revocation and prompted after |
| `MessagesReachMembers` | a batch marked delivered by a turn that did not succeed |
| `QueueDrains` | a way to become idle that nobody tells the dispatcher of |

**Fairness.** Timers fire, tasks run (weak), and an agent that is answered whenever it asks ends its turn
(strong, because it may ask in between). Owners need not post, and mishaps need not happen.

**Bounds.** Run `channel`: two members, so that a reply addresses the other one; two messages, one of them
queued; one mishap (a failed write, a restart or the revocation); 373 k states.

**Where the code falls short.** `Wedged` and `StaleRetry` name two states the liveness properties exempt
because the code does reach them: two failed writes in a row leave a cancelled turn that no task
serves; a failed read in `wake` leaves an entry in `retries` for a member nobody addresses any more, so the
channel is never idle and its queue never drains. `QueueDrains` is not claimed once the owner stops the channel, since
a stop unpauses without scheduling. `NoLostWakeup` holds with the run's one mishap but not with three: two failed writes wedge a turn, the revocation of
a device whose message it was prompted with takes that turn away, and `cancel_device_turns` (`channel.py:654`–`664`) schedules nobody, so that the member's other
messages wait for the next post. Not modelled, and listed as hazards where they bite:
the dispatcher returns on a `CacheError` without scheduling itself again; an exception in `stop_state` or
`cancel_device_turns` skips what was to follow; a crash between the pop of a queued message and its
row loses it; a crash after the agent's success and before `finish` commits repeats the turn.

**Left out.** Creating a channel and its worktree, renaming, deleting, changing members, unknown models, introductions.

**Proved** (`Channel_proofs`), for any members and bounds: `ChannelTypes`, `NothingLeftBehind`, `RevokedStaySilent` and `WakeupsKept`. `ChanInv` links the parts of
the state that separate awaits write: task, agent and turn of a member (`TurnsTyped`); a turn's batch and the rows it was prompted with
(`BatchesSettled`), its own row (`RowsOwned`) and, the other way round, a row that is open and the turn that will close it (`OpenRowsServed`,
`ApprovalsServed`); a request that holds the channel and the pause (`Controlled`); the device that was revoked, from the commit to the last cancelled
turn (`DeviceCutOff`). `WakeupsKept` shows `NoLostWakeup` under `[][~Strands]_channelVars`, which excludes exactly the step told above: a revocation that takes away
a wedged turn.

## 7. MC_Background: seven protocols beside the turns

The seven modules share no variable. `MC_Background` chooses one of them in its initial state and lets only
that one act, so that the run explores the sum of their state spaces and not the product. Run `background`
(720 k states, three minutes) checks all of them; its `SessionsSafe` is `SessionSurvives` of `TokenRefresh`
and `MachineSafe` of `MachineSession`, its `WindowSafe` is `TerminalSafe` of `Terminal` and `LayoutSafe` of
`PaneLayout`.

**Proved** (`Background_proofs`): each component has an inductive invariant of its own, given below, and the specification of each is a
theorem's hypothesis by itself. A step of the composition is a step of one component and a stutter of the others (`BackgroundSteps`), so
that all seven invariants hold of `BackgroundSpec`: hence `SessionsAreSafe`, `WindowIsSafe` and `BackgroundTypes`.

### TokenRefresh

`refresh_token.py` rotates the token of a session; the browser (`src/frontend/src/lib/api.ts`, `utils/storage.ts`)
keeps one token in localStorage for all its tabs, and in each tab a cached copy that a storage
event updates. `tokens` are those issued, each with its parent and whether it is revoked (a rotation revokes the
parent and the siblings of the token presented, which is itself accepted until its successor is used); `old` marks
those whose access token has expired; `refreshing[t]` is a tab's request and answer. Two tabs may refresh at once,
a request or an answer may be lost at any point, and a tab may reload.
`SessionSurvives`: the token the browser keeps is one the server still accepts. It exempts behaviours in which a tab wrote the storage while the other's event
was under way (`crossed`): there the older event overwrites the newer cached token, the next refresh presents a token that was
superseded, and the 401 signs the browser out. Five tokens are two rotations by each tab.

**Proved** (`Background_proofs`), for any number of tabs and tokens: `SessionSurvivesAlways`. A token is younger than its parent, and
an answer on its way is a child of the token that was sent, or that token was revoked (`Families`). As long as nothing crossed,
whatever a tab has cached, is told of or has sent is the stored token or comes no later than the parent of the stored token
(`Line`), so that no rotation can revoke the stored token; and a tab that has handled its last event has the stored token, an
accepted answer to which replaces it (`UpToDate`).

### PushDelivery

`push.py`: `device` is the row of the one phone, `phone` what the phone last registered, `delivery` the outbox row with
its lease, `sender[s]` the two loops that may overlap (two processes, or one that was stopped for longer
than its lease). A claim and the read of the row are two transactions, as in the code; every write
afterwards is fenced by the lease (`Fenced`). Account switches, a late 410 for an older
registration, crashed and stalled senders are in. `PushSafe` says that two senders are at work on a notification only
after one outlived its lease, and that a phone registered with a token Apple knows keeps its row;
`PushSettles` that each notification is sent, given up or withdrawn. Fairness: the loops run,
leases and back-offs end. Two attempts stand for the five of the code.

**Proved** (`Background_proofs`), for any number of senders, attempts and registrations: `PushTypes` and `PushIsSafe`. The invariant says that
of the senders at work only the one whose lease runs is the holder (`Leased`), and that what a sender has read is the row as it is
unless the device registered since the claim or is gone (`ReadsDated`): this is what makes a late 410 harmless.

### SubThreadWake

`subthread_wake.py`: `pending` are the reports of one parent, `scheduled` its debounce timer, `flush[f]` the flush tasks
that may overlap, each step between two awaits an action. Parent and children are chats that are idle,
starting or active. `ReportsArrive`: the parent hears of every child that finished, by a notice in its
running turn or by a wake turn. It exempts `stranded` reports: when the start of the wake turn raises
anything but a conflict, the code gives the reports back and schedules nothing. A restart, and an
exception after the reports were taken (`GiveUp`), lose them, which the code accepts.

**Proved** (`Background_proofs`), for any number of children, flushes and starts: `WakeTypes`. The part of it that is not about types says that
a report the parent has not heard of is pending or in the hands of a flush; it needs that a flush
which has not taken its reports yet holds none (`WakeInv`), so that what it takes replaces nothing.

### Automation

`automation.py`: dispatchers of several processes read due rows, claim each slot by a conditional
write, commit the batch and fire; edits, deletions and soft-deleted workspaces come in between. Database row locks are
`rowLock`. Time is a small clock on which the hour after `Fold` repeats, so that the two readings of a local time
exist. `SlotFiresOnce`: no slot fires twice, and no wall-clock time does either when the
clocks go back. The second half is not claimed once `refolded`: a slot of the last minute
before the change that is claimed after it, or an edit within the repeated hour, schedules the same local time again,
contrary to `automation.py:51`–`55`. `OnlyBrokenDisabled`: a dispatcher that gives up on a
row disables it only if the row is still what it saw, or its workspace is gone.
One automation, two dispatchers, two schedules and workspaces, and five instants with the change in the middle.

**Proved** (`Automation_proofs`), for any number of automations and dispatchers, any schedules and any change of the clocks: `AutomationTypes`,
`SlotsFireOnce`, and `BrokenIsDisabled` (`OnlyBrokenDisabled`). What a dispatcher holds of a row is the row as it was when it was due, and since
then the row was advanced or still has that schedule (`Selected`); a row that is locked is one its holder has written (`Locks`); and a slot that fired, or
that a dispatcher has committed to fire, is past for the row, by the wall clock too unless `refolded` (`SlotsOnce`). `NextRun` is the least
element of a set: that it exists is well-foundedness of the naturals.

`Fire` is one action: a crash inside it leaves an empty chat, and a crash between the commit and the
firing loses the slot (at most once, never twice).

### Terminal

`terminal.py` and the web-socket handler: one key of the registry, whose records follow one another.
`record[r]` has the fields of `TerminalSessionRecord` (PTY, active socket, the output and input
tasks, `pty_lock`); `client[w]` is how far the handler of a socket is and `closer[c]` how far a running `close()` is: kill
tmux, cancel the input task, kill the PTY, clean up. Who may close is the socket that
terminates, the exit callback of a PTY, and the end of the workspace.
`TerminalSafe` has three parts: `OneShell` (a record has at most one live PTY however many sockets open it at
once), `NoDeadShell` (what the next connection finds is alive, empty or being closed) and `Served` (an attached
socket is the one the output goes to, and its shell lives).

The code misses what one would like to claim in five ways, and `overlooked` and `stuck` mark exactly these:
a socket that attaches while `close()` awaits stays with the dying record (the comment at `terminal.py:145`–`148` says otherwise);
of two closes of one record the second removes whatever is registered by then, so that two records of one
key live; of two sockets that take over from a third at once, the earlier is replaced without being closed; a
failed write kills the PTY and cancels its reader, so that nobody reports the exit (`sandbox.py:109`); and a `close()` cut short
leaves its record registered. Two sockets, records, PTYs and stops are in the run; three
of each were checked once and hold as well.

**Proved** (`Background_proofs`), for any number of sockets, records, PTYs and stops: `TerminalIsSafe` and `TerminalTypes`. The invariant says who holds the
start lock (`Connected`), that a closer has something to close (`Closing`), that a record and its PTY name each other and a dead PTY is
about to be forgotten (`Shells`), that a record nobody has closed is whole (`Untouched`), and that a socket in service is attached, or
detached by a closer that has seen it and will close it (`InService`): that is why the exit of a shell
reaches the socket it began with. Sockets, PTYs and the sandbox close by their own name, which must differ (`TerminalAssumption`).

Left out: bytes and the bounded queues, `terminate_all` at shutdown, a PTY cancelled while it is being opened.

### MachineSession

One remote machine of one page of the browser: `vault` is the refresh token (`machineVault.ts`, in memory or in the
desktop's keychain), `grant` the access token, `pairing` what the stored machine names, `connection` its status and
`resolved` the pairing that status was found for. A token is reduced to the device it belongs to, since `alive` devices
are all the server asks for once retried rotations are accepted (`TokenRefresh`). `calls` is the queue of `withMachineLock`;
`check`, `request`, `repair` and `release` are how far `checkMachine`, a request with its refresh, `pairMachine` and the two ways
to remove a machine are. Devices are revoked on the server, access tokens expire, answers are lost and the page reloads at any point.
`MachineSafe`: a machine shown as online has a session of its current pairing in the vault (`OnlineHasSession`), the
status is of the current pairing (`StatusIsCurrent`), both at rest, that is when no check is under way; and after a removal
no token is left, and the device it reports as revoked is (`RemovalIsFinal`). `raced` exempts a removal that overlaps a
new pairing: `pairMachine` looks the machine up once, before its probes, so that the new session stays in the vault after the removal.
Two devices are one new pairing; three were checked once.

**Proved** (`Background_proofs`), for any number of pairings: `MachineIsSafe`, and with `SessionSurvivesAlways` the `SessionsSafe` of the run
(`SessionsAreSafe`). A caller is in the queue of the lock exactly while it is at the step that needs it (`Waiting`); only the head has
sent a token, and it is the one in the vault (`Locked`): that is the mutual exclusion `withMachineLock` is for. A
pairing has room for its device (`Roomy`, the bound on `devices`), the access token is of the session in the vault and that one of the current pairing (`Vaulted`), and a machine
that is removed keeps its pairing until it has lost its tokens (`Removed`). `Exit` takes a call out of the queue with `Picked` of
`Subsequence`, whose lemmas say that the other calls keep their order.

Left out: the first pairing, which is the initial state; a pairing answered by another server than the one
probed; several machines.

### PaneLayout

The panes of one window (`uiStore.ts`). The chat of the route has slot 0, the split chats the slots after it; a tile is a view
in a slot, as in the tile ids of the code. `screen` is the part of the store that is drawn, `workspace` the chat or channel that
owns it, `page` the route, and `saved` the deleted chats that still have a layout. Every operation of the store is an
operator from a screen to a screen, and every user action or page effect applies one. `due` says that React has effects to run
(load the workspace, drop the chat of the route from the split, rebuild missing panes): no other event comes between.

`LayoutSafe`: what `ui.types.ts` says of the layout (`LayoutSane`), the active pane is the focused one's and exists
(`FocusCoherent`), after the effects every split chat of a wide window can be reached and the chat of the route is not split too
(`SplitsShown`), and no layout of a deleted chat is saved when its page is left (`NoResurrection`). `ClosingKeepsPanes`: when a
split chat goes, by its tab, a failed fetch, a deletion or a visit, the tiles of the other chats and the focus keep their chats.
Three chats in up to three panes, one view beside the agent, one deletion of a single chat: a chat can close in front of another
and behind it. Four chats in the code's four panes, without deletions, were checked once.

The page of a chat that is already deleted is left out when it is opened or reloaded by its URL: it would load, and later save, a layout for it.
Also left out: rows of a layout, the chat tabs, editor and diff jumps, themes, the migration of old storage.

**Proved** (`Background_proofs`), for any chats, views and number of slots: `PanesAreSafe` (`LayoutSafe`) and `PanesFollowTheirChats`
(`ClosingKeepsPanes`). Most of the invariant is `Sane(screen)`: `LayoutSane`, `FocusCoherent` and the types of one screen, as a predicate that each operation of the store is
shown to keep (`RemoveTabSane`, `CloseOneSane`, `RebuiltSane`, ...), so that an action of the user needs no more than that its
operations do (`BecomesKeeps`). That the tiles behind a closed slot keep their chats comes from two facts: without its k-th element a list has its
later elements one place earlier (`WithoutShifts`), and `CompactAfter` moves tiles by one without giving two the same place (`Compacts`). The filters of the
code are `Within`, by `Picked` of `Subsequence`.

## 8. Not modelled

`PROJECT.json` lists every component with its status. Those without a module:

- **ACP client: permissions and elicitations.** Request ids are unique within one agent process and a request
  is a future that is resolved or cancelled once. The hazard is across processes: ids restart, and the page
  drops a form whose id it has seen.
- **Browser queue store** (`messageQueueStore.ts`). There is no protocol to state: an edit or a delete of an
  entry whose add is under way is never sent, a fetch that overlaps an add shows the entry twice, and
  a late fetch brings back what was removed. Any property strong enough to be of use fails at once.
- **Hand-off transcript, inbox, memories, storage, search, users, settings.** Pure functions or single
  database statements; unit tests reach them.
- **Workspaces, sandboxes, git, GitHub, agent processes.** Their behaviour is that of external programs.
- **Interface components, shells, MCP server.** Rendering, supervision and stateless calls; they are most of
  the repository's lines.
