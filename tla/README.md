# A TLA+ verification of CC2Wechat

CC2Wechat (the binary is still called `cc-connect`) connects a chat platform,
WeChat, with a coding agent, Claude Code. A message becomes a *turn* of an agent
process, and the events of that process become replies. This directory holds the
TLA+ models of the program, the TLC configurations that check them on small
instances, and the proofs TLAPS checks for all instances. Line numbers refer to
the files under `src/`; `PROJECT.json` maps every definition to its lines.

    tlc  -workers 2 -config TQ_turns.cfg MCTurnQueue.tla     # one run
    tlapm TurnQueueProofs.tla                                # one module of proofs

Contents: 1 Inventory, 2 Plan and status, 3 What is modelled, 4 What is checked,
5 What is proved, 6 Findings and known behaviours, 7 What is not modelled.

## 1. Inventory

### Components that carry state and protocol

| Component | State it keeps | Operations | Talks to |
|---|---|---|---|
| **Engine: turns and queue** (`core/engine.go`) | `interactiveStates`: per chat an `interactiveState` with the agent session, `stopped`, `pendingMessages`; `Session.busy` | `handleMessage`, queueing for a busy session, start or reuse of the agent, event loop, drain, cleanup, auto-reset, `/stop`, `/new`, `/compress` | platform handlers call it; it calls the agent, the session store, the platforms |
| **Engine: unsolicited reader** (`engine.go` 3060-3352) | `unsolicitedCancel`, `unsolicitedDone` of the state | start after a turn, stop before the next, relay of events nobody asked for | shares the agent's event channel with the turn |
| **Engine: permissions** (`engine.go` 2307-2400, 3892-3966) | `pendingPermission` and its `Resolved` channel, `approveAll` | ask, answer, cancel by cleanup or `/stop` | the turn waits on it while other goroutines resolve it |
| **Engine: reply text and display** (`engine.go` 3371-4473, `config.go` 616-702) | `textParts`, `segmentStart`, `toolCount` of a loop; `state.sideText`; `e.display` and the `[display]` blocks | one handler per event, `/quiet`, `/config`, reload, `cc-connect send` | agent events in, chat messages out |
| **Session store** (`core/session.go`, `atomicwrite.go`) | sessions, the active session of each chat, current and past agent conversations, counter; the JSON file | get or create, new, side session, switch, delete, set conversation, save, load, invalidate for another agent | turns and commands change sessions without `sm.mu` |
| **Workspace pool and reaper** (`core/workspace_state.go`) | last activity and active turns of a workspace | begin and end of a turn, reaping of idle ones | cleans up interactive states |
| **Cron** (`core/cron.go`) | jobs in memory and in a file, entries of the cron library | add, remove, enable, disable, update, run with a timeout | starts turns, possibly on side sessions |
| **Heartbeat** (`core/heartbeat.go`) | per project a ticker, paused flag, interval; the state file | start, pause, resume, interval, trigger | tries to take the session, never queues |
| **Claude Code process** (`agent/claudecode/session.go`) | alive flag, conversation ID, event channel, pending control requests | read loop, send, respond, close | events to the turn or the unsolicited reader |
| **WeChat platform** (`platform/weixin/weixin.go`) | poll cursor, context tokens, pause, seen messages | poll, dispatch, send with retry | one handler at a time; cursor and tokens in files |
| **Providers and proxy** (`agent/claudecode/claudecode.go`, `core/provider*.go`, `config.go`) | list and active index in the agent, `config.toml`, one local proxy | `/provider`, `/model`, `/config reload`, start of an agent | turns start agents between the steps of a command |
| **Relay between bots** (`core/relay.go`, `engine.go` 12590-12802) | bindings; a conversation and an agent process per request | bind, send with a timeout, drain in the background | the same agent object as ordinary turns |

### Components without a protocol of their own

Most command handlers, cards, media transfer, hooks, observer, skills, rendering
and languages, speech, run-as users and roles, most of the configuration, command
line, daemon, npm wrapper, most of the local API, directory history, rate limits.
They parse, format, or call the operating system or an external service. Message
recall, streaming previews, progress cards, rich and streaming cards and the
asynchronous recovery of platforms are optional abilities of a platform which
WeChat, the only platform here, does not have: their code returns at once. Each is
listed in `PROJECT.json` with the reason it is left out.

### What is hard

* **Three locks, none held throughout.** `interactiveMu` guards the map, `state.mu`
  one state, `Session.mu` the busy flag. A handler looks a state up under the first,
  lets go, and appends under the second. In between the entry can be replaced.
* **A lock that is handed over.** `Session.busy` is taken by the handler and given
  back by the turn's goroutine, on a dozen paths: deferred unlocks, the unlock inside
  the drain loop under `state.mu`, and the early returns of error paths.
* **Tear-down against use.** `/stop`, `/new`, the reaper, the idle timeout and the
  death of the agent all detach the agent while a turn waits on it, and close it,
  slowly, outside every lock.
* **One channel, two readers.** The turn and the background reader hand the agent's
  event channel to each other; the read loop blocks when it is full, and `Close`
  waits for the read loop.
* **Text by five ways.** What the agent says is held back and reaches the chat by a
  flush, as a rest, as a whole, or not at all, depending on counters of the loop.
* **Two mutexes in turn.** The cron store and its entries, the agent's provider list
  and `config.toml`, the environment of the next process and its start: each pair is
  changed in two steps, by goroutines that interleave.
* **Saves that overlap.** `Save` holds `sm.mu` for reading only.
* **Crash and restart.** The session file, the poll cursor, tokens, cron and heartbeat
  files and `config.toml` are all that survives; each is written at its own moment,
  some of them in place.
* **Timeouts that leave work behind.** A cron run, a heartbeat, a relay request or an
  idle turn is given up while what it started goes on.

### What makes each component correct

* Turns and queue: one turn per Session; a message is in one queue or with one turn
  or has an outcome, and its outcome is final; the queue is bounded; every lock is
  given back; nothing stays in a queue when nobody is at work; order is kept; a live
  agent can be found and stopped; one event loop per agent.
* Channel, readers, permissions: a request is answered once; what is torn down is
  closed in the end; the count of turns of a workspace balances.
* Reply text: the chat reads in the order the agent spoke, nothing twice, nothing of
  a clean turn missing; display settings survive a restart.
* Session store: session IDs are never reused; the file follows memory; no
  conversation is forgotten without a deletion.
* Cron and heartbeat: entries match enabled jobs and their expressions; one holder
  of the Session; settings survive a restart; runs end and the heartbeat goes on.
* WeChat: every message of a batch is handled, none twice; files follow; the chunks
  of a reply arrive in order, each once.
* Providers: what a command set survives a restart; the proxy forwards to the active
  provider; the chat that switched runs on it.
* Relay: every request ends without leaving a process behind; no chat gets the
  environment of another.

`PROJECT.json` lists the hazards behind these properties, each at its line.

## 2. Plan and status

| # | Module | Contents | Status |
|---|---|---|---|
| 1 | `TurnQueue` | turns, queue, cleanup, auto-reset, `/stop`, `/new`, `/compress`, reaper | modelled, checked |
| 2 | `TurnQueueProofs` | types, exclusion, readers, accounting, order, refinement | proved |
| 3 | `MessageDesk` | what the queue promises to those who write, and that `TurnQueue` implements it | checked and proved |
| 4 | `SessionStore`, `SessionStoreProofs` | sessions, conversations, saves, crash and restart | checked and proved |
| 5 | `AgentChannel`, `AgentChannelProofs` | read loop and `Close`, unsolicited reader, a turn, permission requests | checked and proved (safety) |
| 6 | `ReplyText`, `ReplyTextProofs` | from the events of a turn to the messages of the chat; display settings | checked and proved |
| 7 | `CronJobs`, `Heartbeat`, composed in `Schedules`; `SchedulesProofs` | cron store and entries, runs, ticker, state file, one Session | checked and proved (safety) |
| 8 | `Weixin`, `WeixinProofs` | poll cursor, batch, deduplication, pause, restarts, replies in chunks | checked and proved (safety) |
| 9 | `Providers`, `ProvidersProofs` | provider list, config.toml, proxy, starts of agents | checked and proved (safety) |
| 10 | `Relay`, `RelayProofs` | a request from bot to bot, against turns and the shutdown | checked and proved (safety) |

Left of the plan: the routing of chats to workspaces (section 7).

## 3. What is modelled

### `TurnQueue`: one chat of the engine

Processes are goroutines. A message `m` is the process of its handler and, when it
gets the lock, of its turn; runs of `/stop`, `/new`, `/compress` and of the reaper
are processes named by constants. `pc[p]` is the place in the code. A step is what
the code does between two points where another goroutine can get in. An
`interactiveState` is named by who allocates it: `Boot` (left by an earlier turn),
`Placeholder(m)`, `Started(m)`.

| Model | Code |
|---|---|
| `table` | `e.interactiveStates[key]` |
| `attached`, `agent`, `have` | `state.agentSession # nil`, its process, `CurrentSessionID()` |
| `stopped`, `queue` | `state.stopped`, `state.pendingMessages` |
| `busy`, `want`, `active` | `Session.busy`, `Session.AgentSessionID`, the active Session |
| `request` | the permission request an event loop waits on: `pending` in `state.pending`, `answered` (`Resolved` closed), or `lost` (overwritten) |
| `sess`, `ref`, `expect`, `grab`, `cur` | local variables: Session, state, state to clean up (named by the caller or found in the map), agent to close, message |
| `mode`, `back`, `nested` | how the process got the lock; the return address of its cleanup; an auto-compress under way |
| `fate`, `crashed` | observation: what became of a message; a nil dereference |
| `Arrive`, `TryLock`, `EnsureState`, `QueueLookup`, `QueueAppend`, `RetryLock` | `handleMessage` and the queueing functions |
| `Reset*`, `Relock` | `maybeAutoResetSessionOnIdle`: the Session that was locked is given back and a new one taken |
| `OrphanLookup`, `OrphanCheck` | `drainOrphanedQueue` |
| `ReuseState`, `StartState` | `getOrCreateInteractiveStateWith`: one step, `interactiveMu` is held even while the agent starts |
| `Begin`, `OpenEvents`, `Loop*`, `NextQueued` | `processInteractiveMessageWith`, `processInteractiveEvents` |
| `LoopAsk`, `Pend`, `Resume`, `Answer`, `TakePending` | the case `EventPermissionRequest` and its wait, `handlePendingPermission`, and the resolution of a request by a cleanup or `/stop` |
| `Drain`, `Deliver`, `Exit` | `drainPendingMessages`, deferred unlocks |
| `Detach`, `MarkStopped`, `NotifyDropped`, `CloseAgent`, `RemoveEntry` | `cleanupInteractiveState`, the agent's close outside every lock |
| `Stop*`, `AsyncClose`, `New`, `ForgetOld`, `NewSession`, `Reap*`, `Compress*` | the commands and the reaper |

`Faults` switches on what may go wrong: the agent fails to start (`startfail`), a
prompt cannot be sent (`sendfail`), the reply cannot be sent (`replyfail`), an error
event (`error`), death of the process (`die`), the idle timeout (`idle`), a context
large enough for an auto-compress (`compress`), a permission request (`ask`), during
which the chat's messages are answers or met with a hint (`Asked`). `MaxHandlers` is how
many handlers the platforms run at once; the WeChat platform dispatches one at a time.
`MaxCommands` bounds the commands and reaper runs of one behaviour. An
auto-compress nests once (the code could nest deeper; the first level already gives
the lock back under a loop that uses it). What an agent says inside a turn is one of
the ways the wait of the event loop can end.

`MessageDesk` is what this promises to those who write to the chat, without queues,
locks, states or agents: a message is received, may wait, is on at most one desk, and
comes to one end. Its refinement mapping takes `fate` to itself and the desk of a goroutine to
the message its event loop works on (`cur`, when `pc` is in a loop).

### `SessionStore`: the session manager of one engine

`mem` is the `SessionManager`, `disk` the snapshot in the file, both records of the
counter, each chat's sessions and active session, each session's current and past
conversations and agent type, and the legacy flag. `made` is what the agent keeps
(external), `kind` the agent type of this run of the program. A worker is a goroutine
that runs a turn (`Turn`/`SideTurn`, `StartAgent`, `Report`, save), `/new` or another
command that clears the conversation (`Reset`, `Clear`, save, `NewSession`),
`/switch` (`Switch`) or `/delete` (`Delete`, `Forget`).

An operation that takes `sm.mu` for writing changes the maps and saves before it
lets go: one step. `Save` takes it for reading: it copies session by session (`Copy`,
`CopyLast`), then replaces the file (`Write`; `AtomicWriteFile` writes a temporary
file and renames it). Writers wait for it (`WriteLock`), other saves and changes of
single sessions do not. `Restart` is a crash at any step followed by `load` and
`InvalidateForAgent`, possibly with an agent of another type. Bounds: `MaxSessions`
on the counter, `MaxRestarts`.

### `AgentChannel`: one agent process and all who read its channel

`cs` is the `claudeSession` (channel of capacity `ChanCap`, the line its read loop
holds, alive, loop and shutdown stage), `agent` the process and what it works on, `rd`
the background readers by the turn that starts them, `st` the `interactiveState`.
Turns stop the old reader (with its timeout, `slowreader`), drain what is stale, send,
read, ask and wait; `/stop` and `/new` detach, wake and close at any moment; the read
loop reports, blocks on a full channel, and gives up when the session is closed. It is
the life of one state with one agent; replacing it is `TurnQueue`'s subject.

### `ReplyText`: from events to messages

One event loop. `stream` is what the agent said in this turn, a text is its index in
it, `parts`, `segStart`, `toolUsed`, `sideText` are `textParts`, `segmentStart`,
`toolCount > 0`, `state.sideText`; `shown` is what the chat has got since the turn
began. `HearThinking`, `HearToolUse`, `HearText`, `HearPermission`, `HearResult`,
`HearEnd` are the cases of the `switch` in `processInteractiveEvents` for a platform
without previews and cards, `GiveUp` all its other ways out, `NextQueued` the turn of a
queued message in the same loop. `SetMode`, `SetFlag` and `Reload` change the display in
mid-turn too; `SideSend` and `SideNote` are the two steps of `cc-connect send`.
External: a message of the agent is a thought, a text and tool uses, each optional, and
every message but the last uses a tool; NO_REPLY comes last. Abstracted: the texts (four
kinds), splitting, truncation, footers. Saving the display is one step (the three fields
are written one after the other under `configMu`). Bounds: `MaxEvents` per turn,
`MaxSwitches`, `MaxSide`.

### `CronJobs`, `Heartbeat`, `Schedules`

`CronJobs` has the store (`jobs`), the entries noted by the scheduler (`entries`) and
those of the cron library (`live`, external), and goroutines (`Admins`) that carry an
operation out, a step per mutex. A `run` has two halves that outlive each other: who
waits for it (`wait`, ended by the time limit) and what works (`work`). `Heartbeat` has
the ticker, the executions (`beat`), the idle probe that takes the Session's lock for a
moment, and the state file, written in place: a crash while `writing` leaves `Torn`.
`Schedules` composes both over one `busy` and adds `Restart`. Bounds: `Runs`, `Beats`,
`Ids`, `MaxOps` operations at once while the Session is quiet, `OpsBeside` next to a
heartbeat (0: an operation on jobs and the heartbeat share no variable, so that their
interleavings are those of each alone).

### `Weixin`: the WeChat platform

The gateway (external) has a `log` in which a message may come again and gives what
follows a cursor. The loop polls, pauses for an expired session, writes the cursor,
takes the messages of the batch one by one (duplicate, too old, ignored, or handed to
the engine) and writes the tokens. `Restart` may fall anywhere, into a write too
(`Torn`). Replies go out in chunks; a chunk may be declined (`ret = -2`, tried again up
to `MaxRetries`) or its request may break after the gateway took it. `MaxLog` bounds
the log. One peer. The key of the deduplication (`weixin.go` 417) is taken for the
identity of a message; `Undated` are the messages without a create time, which are never
too old (408).

### `Providers`: providers, proxy and config.toml

`providers`, `activeIdx`, `proxy` are fields of the agent, `file` the parts of
`config.toml` a command saves, `agent[c]` what the agent process of chat `c` was
started with and whether its proxy still runs. A command is a goroutine with its own
`pc`: it reads the list, changes it, persists, selects, cleans up, saves. Commands
(`Workers`), starts and deaths of agents, one edit of the file (`MaxEdits`) and
`Restart` interleave. `/provider remove` drops every entry with the name from the list
(`Without`), but only the first inline one and the first reference from the file
(`WithoutFirst`), as the two loops in the code do. `Kept` is the filter, written as a
recursive function so that it can be reasoned about.

### `Relay`: a request from bot to bot

`from`, `pc`, `late` describe each request, `conv` the conversation the target keeps
for each source, `proc` its agent process. `env` is the environment the next process
will get, in the agent object that ordinary turns use as well (`tpc`, `turnEnv`,
`mutex`, the last being `interactiveMu`). `Hear*` are the events before the timeout
(`Expire`), `Drain*` what goes on after it.

## 4. What is checked

Each property of a passing run is also run against a changed definition (marked
`mutant:` in the modules) that breaks the code the way a plausible mistake would; TLC
finds each of them.

| Run | Instance | Shows |
|---|---|---|
| `TQ_turns` | 3 messages and a heartbeat, 1 handler, queue of 1, warm agent; `error`, `ask` | `TurnExclusion`, `NoMessageStranded`, `NoOvertaking`; liveness `MessagesSettle` |
| `TQ_commands` | 2 messages, 2 handlers, `/stop` or the reaper, cold start, queue of 1; `die`, `replyfail`, `startfail`, `idle`, `ask` | `QueueBooks`, `SingleReader`, `LiveAgentReachable`, `OneOutcome`; refinement `KeepsDesk`; liveness `SessionReleased` |
| `TQ_sessions` | 2 messages, both may find the Session idle too long, `/new`, `/compress`; `compress`, `sendfail`, `error`, `ask` | `DeliveredOnce`, even where turns overlap |
| `TQ_lost` | 2 messages, cold start, no faults | violated: `NoMessageStranded` (finding 1) |
| `TQ_doubleunlock` | 2 messages, `compress` | violated: `TurnExclusion` (finding 2) |
| `SS_store` | 1 chat, 2 goroutines, 2 conversations, 2 sessions, 2 agent types, 1 restart | `IdsNeverReused`, `DiskFollows`, `KnownKept` |
| `AC_channel` | 2 turns, a background task that may ask, `/stop` or `/new`, channel of 1; `slowreader` | `TypeOK`, `AnsweredOnce`, `PoolBalanced`; liveness `AgentClosed` |
| `RT_reply` | a turn of 3 events and a queued one of 3, 3 configurations, 1 change of the display, 1 `cc-connect send`, sends that fail | `TypeOK`, `InOrder`, `AllSaid`, `DisplayKept` |
| `SC_schedules` | 1 job, 2 users, 1 run, 2 beats, 2 intervals, restarts | `EntryCurrent`, `ScheduledIfAlone`, `OneHolder`, `RestartNeutral`; liveness `RunsSettle`, `HeartbeatGoesOn` |
| `WX_platform` | 2 messages, one without a create time, log of 3, a reply of 2 chunks, 2 tries, restarts | `HandledOnce`, `FilesFollow`, `ChunksInOrder`; liveness `MessagesHandled`, `RepliesEnd` |
| `PR_providers` | 2 providers, one of them global and behind the proxy, 2 models, 2 chats, 1 command at a time, 1 edit, restarts | `TypeOK`, `SettingsRestored`, `ProxyOfActive`, `SwitchReaches` |
| `RL_relay` | 2 requests of one source, 2 turns, a shutdown | `TypeOK`, `ChatEnv`; liveness `RequestsEnd` |

All type invariants are proved (section 5); those of `TurnQueue`,
`SessionStore`, `Weixin` and `Schedules` are in no run any more.

*Why the bounds are enough.* A race on the queue needs a turn that leaves, a handler
that appends and a third message that takes the lock: three messages. With a queue of
one, two concurrent handlers reach the limit while a third message runs. Two handlers
at once cover platforms that dispatch concurrently; the finding `TQ_lost` needs one.
A tear-down race needs a command, a turn and the message that replaces the state; in
`TQ_commands`, where liveness forbids symmetry, a behaviour has one command, `/stop` or a
reaper run, and pairs of them are left to the theorems of section 5 (their safety). In
the store, two goroutines suffice for two overlapping saves, or a save and a writer;
two sessions for a save that is between two copies; one restart for anything a file
can carry over; and two conversations for one that replaces another. On the channel two
turns give a reader of the first that meets the second; a capacity of one makes the read
loop block. A reply of three events has a text, a tool or a question, and a last text; the second
turn is there for what the first leaves behind. Two users give an update that crosses an
update, or a removal; three entry IDs let each of them schedule once. A log of three has
two messages and a repetition; two chunks and two tries have a gap and a doubling. Two
chats separate the one that switched from another. Two requests of one source share its
conversation. Configurations use symmetry only over interchangeable values, and only
where no liveness is checked.

Larger instances that were checked once, without a violation: `AgentChannel` with all
faults and no job (600,000 states, with liveness) and with a job (6.8 million, safety);
`Weixin` with three messages one of which is ignored (834,000) and with three tries
(112,000); `Providers` with three names, both of two behind the proxy (1.7 million) and
with two names both behind it (5 million); two commands at once were stopped after 5
million states; `ReplyText` with turns of 4 and 2 events (6.1 million), with turns of 5
and 3 and sends that succeed (11 million), and with one turn of 6 events.

*Fairness.* `TurnQueue`: weak fairness of each goroutine that has begun. The Go
scheduler runs every runnable goroutine, and the mutexes are held for bounded stretches.
Messages and commands need not arrive, the agent need not report or die. Of the event
loop, the wait for events ends because it is a `select` with `eventIdleTimeout` (two hours
unless configured) next to the agent's events; a timeout configured to 0 disables that arm,
and then a silent agent keeps its Session. An agent that sends events for ever would keep
it too; the model takes a wait to end. The wait for a permission need not end: there the
idle timer is stopped and nothing but `Resolved` is waited for (`engine.go` 3956-3963), so
`Answer` has no fairness, and `SessionReleased` and `MessagesSettle` except exactly the
time during which a request of a loop is pending (`AwaitsAnswer`). What they say beyond it
is that a cleanup, `/stop` or the reaper that finds the request ends the wait, and that an
answered turn is owed its end again. A request stored just after one of these took its
turn at resolving them stays pending for ever (`WaitEnds`, section 6). `AgentChannel`: while some goroutine can run, one
does, and a killed process exits; the user may never answer and the agent may never
speak. `Schedules`: goroutines run, time limits expire, the ticker ticks; a turn need not
end, commands need not stop (`HeartbeatGoesOn` says what holds if they do). `Weixin`:
weak fairness of the loop and of each reply, strong fairness of a poll that brings
something, since polls may fail again and again but not for ever. `Relay`: goroutines and
timers, and an agent that says something now and then (without it a request outlives its
timeout, section 6).

## 5. What is proved

All theorems hold for every value of the constants, from the named assumptions of the
modules alone (distinct names, positive bounds).

**`TurnQueue`** (`TurnQueueProofs`, `MessageDesk`)

| Theorem | Statement | Argument |
|---|---|---|
| `TypeCorrect` | `[]TypeOK` | inductive as `IType`: also, the local state pointer is set wherever the code follows it (`RefOK`), and a goroutine inside an auto-compress is in code that holds a Session (`NestedOK`) |
| `ExclusionCorrect` | no two goroutines hold one Session, if `"compress" \notin Faults` and `Resets = {}` | `LockInv`: whoever is at a place that needs the lock finds its Session busy, and no other goroutine at such a place has that Session. Most actions are shown not to touch the lock (`Quiet`); the others are treated one by one |
| `SingleReaderCorrect` | `[]SingleReader`, if also `News = {}` | event loops and waits of a `/compress` are held by the lock of the one Session |
| `LiveAgentCorrect` | `[]LiveAgentReachable`, same conditions | `LiveInv`: a live agent is in the map and attached, or some goroutine has taken it out and has yet to close it; what a cleanup deletes from the map is detached, because it named its state, or holds the Session |
| `StrandedCorrect` | `[]NoMessageStranded`, if `Steady` | `SteadyInv`: all work is on the one state; a busy Session is held; what is queued is seen by the holder, or by a handler about to try the lock (`Minds`: nobody gives the lock back but with an empty queue) |
| `OvertakingCorrect` | `[]NoOvertaking`, if `Steady` and `MaxHandlers = 1` | the same with `SoloInv`: one handler at a time, so that nobody queues between a lock found free and the start of the turn |
| `BooksCorrect` | `[]QueueBooks`: the queue is bounded, a message counts as queued exactly while a queue holds it, and it is in one queue, once | `QueueInv` is inductive together with `FateInv` and `UnbornInv` |
| `OutcomeCorrect` | `OneOutcome` | every step either leaves an outcome alone or settles a message that is running, queued or just handled |
| `DeskImplemented` | `TurnQueue` implements `MessageDesk` | every step is one of the steps of the desk or shows nothing (`Seen`), with the invariants above |
| `DeliveredCorrect` | `[]DeliveredOnce` | `DeskCorrect` of `MessageDesk`, carried over |

`AcctInv == QueueInv /\ FateInv /\ UnbornInv` is needed because no part is inductive
alone: that a pop leaves a message in no other queue needs `OnePlace`; that a message
appended was in no queue needs its fate, which depends on where its handler stands
(`FateInv`); and that a newly started state can adopt a queue needs the fact that
nobody points to a state before its message has started it (`UnbornInv`).

The conditions are part of what the code promises and no more, for TLC violates each
property without them. `Steady`: the chat has a live agent at the start (`Warm`), no
command, no reaper, no auto-reset, no `die`, `idle` or `compress`; a failing start, send,
reply or an error event may happen. Without it `NoMessageStranded` fails (finding 1), and
with two handlers at once `NoOvertaking` does: one has appended and not yet tried the lock
when the other finds it free. `TurnExclusion` fails with `compress` (finding 2) and
`SingleReader` with it or with `/new` (three messages, no faults: a turn of the new Session
reuses an agent that has not reported its conversation, under a turn of the old one).

**`SessionStore`**: `StoreTypeCorrect`, `IdsCorrect`, `DiskCorrect`, `KnownCorrect`.
`IInv` adds to the properties that a file about to be written has the shape of memory
and names only what memory knows (`FileAt`), and so do the copies made so far
(`CopiesAt`). It holds since everything that could take a session or a conversation away
waits for the save, and what does not wait only makes more conversations known.

**`Weixin`**: `WeixinTypeCorrect`, `HandledOnceCorrect`, `FilesCorrect`, `ChunksCorrect`.
`IInv` adds: cursors and the batch point into the log; a handled message is kept out by
its entry or its age, or its entry has lapsed (`Books`); which file holds what at each
place of the loop (`Files`); what the peer has of a reply is what was sent so far (`Sent`).

**`Schedules`**: `SchedulesTypeCorrect`, `OneEntryCorrect`, `EntryCurrentCorrect`,
`AloneCorrect`, `HolderCorrect`, `RestartCorrect`. Three invariants, each inductive:
`CronInv` (the entry of a job is the one noted; an outdated one only while an operation is
on its way to schedule it again; what an operation has done if no other came in between),
`SessionInv` (who holds the Session) and `SettingsInv` (file and memory). That the entry
of a job is the one noted for it, `OneEntry`, is in no run: it is part of `CronInv`.

**`Providers`**: `ProvidersTypeCorrect`, `ProxyCorrect`, `SwitchCorrect`,
`SettingsCorrect`. `IInv` adds that the agent of the chat that switched last goes through
the running proxy or none (`Reached`). `SettingsRestored` follows from `SyncInv`: while no
command has overlapped another, the one at work has file and list in the relation its place
asks for (`Progress`): the list it carries is the change of what the file resolves to, and
once the agent has it, the file is one save behind. That the save then catches up is a law
per change of the file: `AddResolved`, `RemoveResolved`, `InlineModelResolved`,
`GlobalModelResolved` say that resolving the changed file gives the changed list. They rest
on what the filter returns for every list (`KeptAppend`, `KeptConcat`, `KeptEntries`), which
is proved by induction on the list over a set of sequences. The condition of
`SettingsCorrect`, that the project refers to no provider twice, is needed: with
`Refs = <<p1, p1>>` TLC finds that a removed provider is back after a restart.

**`AgentChannel`**: `ChannelTypeCorrect`, `PoolCorrect`, `AnsweredOnceCorrect`. `Inv` says
where turns and readers stand to each other: a reader is the last thing its turn does
(`HeldOK`), a turn that has stopped a reader goes on at one of three places (`BackOK`), and
the count of the pool is the number of running turns and background tasks, both finite sets
(`PoolOK`). `Once` follows one request: it is in at most one place, among the channel, the
line the read loop holds, the turn, a reader, a denial under way and the user
(`OnePlace`), and while it is in one it has been asked and has no answer (`OpenOK`). That a
request moves from place to place and is never copied is what makes the answer unique.
Assumed of the constants: turns, jobs and commands are distinct, and `Nil` is none of them.

**`ReplyText`**: `ReplyTypeCorrect`, `InOrderCorrect`, `AllSaidCorrect`, `DisplayCorrect`, for
turns of any number and length. `TurnInv` says what a loop holds: the pieces are in the
order of their events (`Pieces`), what is held back comes after everything shown (`Held`),
a text just said is held back (`LastHeld`), before a tool or a question there is one text
at most (`OneText`), and nothing is left when the loop is over (`Gone`). `AllSaid` needs
more, `SaidInv`: the pieces are the texts of the turn and no others (`Noted`); while nothing
failed, what lies before the segment is in the chat (`SentBefore`); where tools are shown,
or none was used, at most the last text is held back (`OneHeld`); and the text for which a
reply is suppressed is one that `cc-connect send` has put in the chat (`SideSeen`).
Assumed of the constants: `UnsetIsNoValue`.

**`Relay`**: `RelayTypeCorrect`, `ChatEnvCorrect`. Inductive is: a turn between setting the
environment and the start holds `interactiveMu` (`Holds`), so that what it finds is its own
or a relay's (`Prepared`).

Every safety property of a passing run is thus stated by a theorem, six of them under
the conditions named above. Liveness stays with TLC (`SessionReleased`, `MessagesSettle`,
`AgentClosed`, `RunsSettle`, `HeartbeatGoesOn`, `MessagesHandled`, `RepliesEnd`,
`RequestsEnd`): fairness and ENABLED are beyond the prover.

## 6. Findings and known behaviours

### Findings, each with a run

1. `TQ_lost`. While the agent starts, a handler looks up a placeholder that the starting
   turn then replaces, adopting its queue; the handler appends to the placeholder
   afterwards, and the message stays there, its sender told that it is queued
   (`engine.go` 2146, against the promise at 2762).
2. `TQ_doubleunlock`. An auto-compress inside an event loop drains and unlocks the
   Session, then the outer loop continues and unlocks it again, under another turn
   (`engine.go` 4236).

### Properties that are stated in a module and that the code violates

Each was seen with the instance given; none is a run of the project.

* `MarkerStripped` (`ReplyText`; turns of 4 events, any configuration). `interfaces.go`
  136 tells the agent that the trailing NO_REPLY is stripped before delivery. When a tool
  was shown after an earlier text, the rest of the reply is sent from `textParts` as it is
  (`engine.go` 4166), marker included: text, tool, "reasoning, NO_REPLY" in the default
  mode. In quiet mode a bare marker after another text is joined to it without a space,
  matches neither pattern (13556, 13561) and is shown.
* `OneReader` (`AgentChannel`; turns 1 and 2). A turn unlocks the Session (2634) before it
  starts its background reader (2645); a message in between is already reading the same
  channel, though 2238 says "we must not have concurrent readers". `SingleReader` of
  `TurnQueue` is about event loops only.
* `OwnAnswer` (`AgentChannel`; turns 1 and 2, job j1). A turn that takes over in the
  middle of a background task may take the task's result for its own answer.
* `WaitEnds` (`AgentChannel`; turn 1, command c1, the turn asks). A turn that stores its
  request (3940) after `/stop` took the old one waits for ever, and its Session stays busy.
* `SessionReleased` with `/new` (`TurnQueue`; two messages, `ask`). Two event loops on one
  agent (see `SingleReader` below) store their requests in one field (3940): the first is
  overwritten, and its loop waits for a resolution that cannot come.
* `NoNilAgentUse` (`TurnQueue`; one message, one `/compress`, warm, `die`). `/compress`
  uses `state.agentSession` (8031) after a cleanup has cleared it.
* `LiveAgentReachable` with `/new` (`TurnQueue`). Its cleanup (3001) names no state and
  deletes whatever entry it finds, a replacement made meanwhile too.
* `SingleReader` with `/new` (section 5), or with auto-reset (`TurnQueue`; Resets {m1},
  Beats {m2}, no faults): a heartbeat that picked the old Session before the rotation locks
  it after the unlock.
* `SavedPersisted` (`SessionStore`; one chat, two workers, no restart). Of two
  overlapping saves the one that copied first can write last (`session.go` 554).
* `RemovalClears` (`Providers`; two providers, the active one, which is first, is
  removed). The comment at `engine.go` 8437 says the selection is cleared; the code only
  logs it, and the provider that moves into the place is active.
* `EnvIsOwn` (`Relay`; one request, one turn). A relay request sets the environment of the
  next process without `interactiveMu`, between the two steps of a turn (12618, 2836);
  `interfaces.go` 132 tells the agent that the variables name its own chat.

### Other behaviours met while modelling

* *Turns.* A permission answered while a cleanup has detached the agent and not yet taken
  the request calls a method of nil (2339-2383). `EndTurn` clamps its count at 0
  (`workspace_state.go` 56-63): a clamp `PoolBalanced` shows to be unreachable, so that the
  model does without. After a failed resume the Session keeps the old conversation ID (2906), so that
  each later message recycles the agent. `Engine.Stop` (1513) reads `state.agentSession`
  without `state.mu`.
* *Reply text.* A turn that asked a question, used no other tool and ends without a last
  text sends the text before the question again (4188), and so does the end of the channel
  (4453), since AskUserQuestion does not count as a tool. `InOrder` excepts
  the end of such a turn, a little more widely than this (every way the loop may end). Switching to full in mid-turn
  loses the texts of earlier messages. Of two texts in a row in full mode the first is lost.
  In quiet mode a bare marker after a question drops the text in between. Text held back is
  lost with an error event, `/stop` or the idle timeout. The history of a turn in full mode
  records its last message only. A queued turn does not reset `sideText` (4292). A reply
  equal to what `cc-connect send` sent is sent again when a tool was shown before it.
* *Sessions.* Deleting a conversation forgets the past ones of its session. The session
  file's name depends on the work directory. Directory history and project state are two
  files written by two calls.
* *Cron and heartbeat.* An enable that crosses a disable may leave the store enabled without
  an entry. `UpdateJob` takes the entry out before it knows that the value has the right
  type. A job whose file could not be written stays in memory, listed and never scheduled.
  Both files are written in place.
* *WeChat.* The cursor is saved before the batch is handled: a crash in between loses the
  messages. All private chats share one chat ID, so that two relays of one source share one
  conversation.
* *Providers.* A switch, a refused name, `/model` and `/config reload` stop the proxy of
  agents of other chats. `/model` with an active provider changes the fallback model in
  memory only. A reload of a file without an active provider leaves the index. Two commands
  that overlap may lose an update of the list. `RemoveProviderFromConfig` takes out the first
  of two equal references only (`config.go` 1092), so that the provider comes back with a
  restart.
* *Relay.* A silent agent keeps `HandleRelay` beyond its timeout (12600 promises less).
  `drainRelaySession` sets the conversation unconditionally. `/bind` dereferences nil if the
  chat is unbound between its two steps (12888). `Send` reads the map of a binding after
  giving up the lock.
* *Display.* `SaveDisplayConfig` writes the global block: with a block of its own a project
  forgets `/quiet` at a restart (`DisplayKept` says so), and other projects without one
  get it at their next reload. The three fields are written one after the other: an error
  or a crash in between leaves a mix in the file (one step in the model).
* *Workspaces.* With a `/dir` override the key of a chat and that of its state differ. Custom
  commands and skills lock the Session of the interactive key, which is another one than the
  chat's. Between the reaper's decision and its cleanup a turn may have reused the state. The
  bindings file is shared by projects that overwrite each other's changes.

## 7. What is not modelled

Inside the modelled components: in `TurnQueue` the wait for a recalled predecessor; in
`SessionStore` names, history, user data, a file that cannot be written, and
`SwitchSession` and `DeleteByID`, which nothing calls; in `AgentChannel` the text of
events and the collection of several answers; in `ReplyText` truncation, footers,
previews and cards; in `CronJobs` muting and what `MarkRun` notes; in `Weixin` media,
typing and other peers; in `Providers` the card action that links a provider, presets and
overrides per agent type; in `Relay` the copies posted to the chat.

Not at all: the routing of chats to workspaces (`workspace_binding.go`, the workspace keys
of `engine.go`), whose behaviours are listed above; and the components of section 1 without
a protocol of their own. Three quarters of the implementation's lines are theirs: string
tables (`i18n.go`), cards and texts of commands, TOML editing, set-up of other platforms,
service managers. Code that only platforms with editable messages or cards reach is not
reached in this program.
