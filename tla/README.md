# agent-browser: a TLA+ model of the browser daemon

agent-browser is a command-line browser driver. A long-lived daemon owns one
browser; command-line clients, an MCP server, people at a dashboard and *hosts*
(programs that run agents) act on that browser through it. This directory holds
TLA+ specifications of the daemon's own coordination logic, TLC configurations
that check them on small instances, and theorems about them checked by TLAPS.

All paths below are relative to the repository root; `agent_channel/` stands for
`cli/src/native/agent_channel/`.

## 1. Inventory

### The parts

| Part | Code | State it keeps | Operations | What is hard |
|---|---|---|---|---|
| Outcome ledger | `agent_channel/ledger.rs` | the outcome of each frame (`entries`, with a running byte sum), the record of each channel, the queue of stopped channels, the fence (newest generation) of each Action | `open`, `receive`, `register`, `start`, `may_continue`, `settle`, `retain`, `not_started`, `end`, `status`, `entries`, `status_within` | every operation ends by evicting to four bounds; takeovers stop other channels; answers must stay true after eviction |
| Agent channel endpoint | `agent_channel/mod.rs` | one task per connection: its inbox, its session, the count of unanswered sequences | `serve`, `process`, `hello`, `sequence`, `op_status`, the inbox's `receive`, `next`, `close` | it reads ahead while a step runs; the connection can end anywhere; several tasks on several threads share the ledger |
| Step dispatch | `agent_channel/dispatch.rs` | command custody (one FIFO mutex over the browser's state), the channel of the last step (`actor`) | `step`, `land`, `finish`, `end` | custody is awaited after the ledger was asked, and given back between a step and its landing |
| Browser control | `browser_control.rs`, `browser_control/` | the person's lease, its input sequence, held and pending input, pending interruptions, the observation the agent owes | acquire, renew, release, input, sign-in, expiry; the agent's own paced input | takeover while agent work runs; lost replies; lapse while input is held |
| Site session custody | `site_sessions/` | the channel whose offer stands and its generation, the held use, the paused documents (`pending`), the transfers, whether the profile is uncleared | offer, need, begin, part, finish, refuse, detach, expiry, export, channel end, recovery | a check of currency is followed by an await; a cancelled job must take back what it wrote; a pause must always be answered |
| Playwright programs | `playwright.rs`, `playwright/` | running programs, staged files of an Action | open, run, interrupt, register and release files | run beside the channel's frames |
| Daemon lifecycle | `daemon.rs`, `socket.rs` | the session's lock and files, listener, tasks, idle clock, close notification | acquire, publish, bind, serve, idle expiry, close, signal, teardown | idle expiry against a running command; leaving while a successor starts |
| Client connection | `connection.rs`, `main.rs` | nothing but files: pid, version, configuration, socket | find, compare, ask to stop, kill, clean up, spawn, wait, send, try again | processes that do not know of each other change the same files, and not all under the lock |
| CDP client | `cdp/client.rs` | pending commands, sessions, page generations, what is confirmed of a page's script execution | send, receive, cancel, attach, detach, disconnect | several connections share what they know; replies are read in any order, cancelled or never |
| Tabs and the binding | `browser.rs`, `tab_binding.rs`, the drains and the head of a command in `actions.rs` | the known pages, the active one's index, the tab the session is bound to and whether it is gone; the binding file, the pin, a copy of what was persisted | attach, drain, adopt, remove, toggle the pin, admit, new, switch, close, persist | other people and sessions open and close tabs at any point; events arrive late or not at all; the daemon restarts on the file |
| Command execution, documents, snapshots, media, command line, installation | the rest of `cli/src` | browser bookkeeping, formats | the commands themselves | sequential under command custody, or pure |

`PROJECT.json` lists every part with its files, and every hazard at its line.

### How they interact

A host opens a connection and says *hello*; `Endpoint::serve` runs one task for
it. Its *sequence* frames carry steps; each step waits for **command custody**,
runs one command on the browser and gives custody back. Its *op_status* frames
ask the **ledger** what became of any frame of the same Action, on any channel.
An **Action** has an owner with a **generation**; a frame under a newer
generation fences the older owners, whose channels stop. When a channel ends, the
ledger stops it, and under custody the browser is asked to release the input its
steps left held.
People and commands of the command line take custody through the same mutex.

A command-line process finds the session's **daemon** through files, restarts
it when its version or configuration differs, starts one when there is none and
sends one request. A **dedicated** browser host keeps no site state: a page that
needs a site pauses, the host of the channel that offered it sends the state of
one *use*, and **site custody** clears it again when the use ends. The daemon and
the programs it runs each have their own **DevTools connection** to the browser;
what they learn of a page is shared.

### What makes each part correct

- *Ledger*: an answer is the truth about the frame; a frame answered "running" can
  still run; a stopped channel starts nothing; bounds hold without dropping what
  is still open; the byte sum is exact.
- *Endpoint*: a frame is open in the ledger exactly while its task serves it; what
  is answered "not started" never ran; a final answer stands; at most one sequence
  of a connection is admitted at a time; every frame is resolved and every closed
  connection ends.
- *Dispatch*: steps are serial; a fenced owner starts nothing (with one exception
  below); the end of some channel always comes to release what is held.
- *Browser control*: agent and person never both act; no input is applied twice; what
  one of them holds down is released before the other acts; the agent never acts
  blind on a page that changed; a sign-in browser always comes back.
- *Site custody*: while nothing works on the browser it stores nothing of a site without a
  held use, and no page stays frozen by an import; a use is erased only by what was meant
  for it; a paused document goes on with the use that answered it or with nothing; every
  pause has somebody who will answer it.
- *Daemon and its clients*: one process owns the session; a command begins at most
  once whatever is retried; idle expiry never cuts a command; every invocation
  returns, and a daemon nobody can reach gives the session up, unless its idle expiry is
  off or spares a browser that a person may be using.
- *Tabs*: a session acts on its own tab or on none once it is pinned, whatever
  closes, breaks or restarts; the index of the active page never slips to a
  neighbour; no closed tab stays listed; a binding that was saved is in the file.
- *CDP client*: what it answers of a page is what the page has; what it cannot
  know it does not answer.

## 2. The modules

| Module | Models | Kind |
|---|---|---|
| `Ledger` | `ledger.rs`, one action per operation | state machine and properties |
| `LedgerProofs` | theorems about `Ledger` | TLAPS |
| `MC_Ledger` | the ledger alone, any operation in any order | TLC |
| `AgentChannel` | extends `Ledger`: endpoint tasks, inboxes, custody, ends of channels | state machine and properties |
| `AgentChannelProofs` | theorems: the endpoints use the ledger as `LedgerSpec` allows and answer one sequence at a time | TLAPS |
| `EndpointProofs` | theorems about what a stop and a release let through, and about what becomes of every frame | TLAPS |
| `MC_AgentChannel` | hosts and their scripts of frames | TLC |
| `ExclusiveControl` | what browser control promises: who holds the browser and whose input is down | abstract specification |
| `BrowserControl` | `browser_control.rs`, `sign_in.rs` and the takeover requests of `daemon.rs` | state machine and properties |
| `BrowserControlProofs` | theorems about `BrowserControl`, the refinement of `ExclusiveControl` among them | TLAPS |
| `MC_BrowserControl` | two people and the agent | TLC |
| `SiteCustody` | `site_sessions/custody.rs` and `transfer.rs` | state machine and properties |
| `SiteCustodyProofs` | theorems about `SiteCustody` | TLAPS |
| `MC_SiteCustody` | two documents, two channels | TLC |
| `DaemonSessions` | the daemon's life (`daemon.rs`, `socket.rs`) with its clients (`connection.rs`, `send_command_with_respawn` of `main.rs`) | state machine and properties |
| `DaemonSessionsProofs` | theorems about `DaemonSessions` | TLAPS |
| `MC_DaemonSessions` | two clients, two process ids | TLC |
| `TabBinding` | the pages of `browser.rs`, the binding of `tab_binding.rs`, drains and attachment of `actions.rs` | state machine and properties |
| `TabBindingProofs` | theorems about `TabBinding` | TLAPS |
| `MC_TabBinding` | one session, three tabs | TLC |
| `ScriptEmulation` | `ScriptState` of `cdp/client.rs` with the browser's side | state machine and properties |
| `ScriptEmulationProofs` | theorems about `ScriptEmulation` | TLAPS |
| `MC_ScriptEmulation` | two connections to one page | TLC |

### Ledger

Each operation of the code takes the ledger's lock, changes the state and calls
`State::bound` before it releases it (`Ledger::update`); each is therefore one
action, its eviction included. `Status`, `MayContinue`, `OtherAction` and
`EntriesOf` are what callers read.

- `entries` is a function from frames to records. The code keeps a queue; the
  place in that queue is the field `place`, recomputed when something is evicted.
- `Evicted` says which entries the loop of `State::bound` removes, without the
  loop: a final entry goes when the ledger is still over a bound once every older
  final entry is gone. `BoundFences` ranks the fences by when they were touched
  instead of keeping the clock, since the clock is only compared.
- The order in which several older channels join the queue of stopped ones is the
  iteration order of a hash map: `StopOrders` allows all.
- A result is its size in bytes. `directory` (where a large result is written) is
  left out.

### AgentChannel

`phase[c]` is where the endpoint task of connection `c` is. The tasks run on
several threads, so an action takes the ledger's lock at most once and never spans an
await; between two actions of a task anything may happen. An arrival
(`Inbox::receive`) can only come between two actions at which the task awaits
(`Awaiting`), as in the `select!` of `Endpoint::serve`.

| Actions | Code |
|---|---|
| `Arrive`, `ArriveGarbled`, `Close` | `Inbox::receive`, `Inbox::read_line`, `Inbox::close` |
| `Take*` | `Inbox::next`, the dispatch of `Endpoint::process` and its first ledger call |
| `RefuseHello` .. `Establish` | `Endpoint::hello`, and the session that `serve` sets after it |
| `RefuseSecondSequence` .. `SettleSequence` | `Endpoint::sequence` |
| `NextStep`, `BeginStep`, `EndStep` | one turn of its loop, with `DaemonBrowser::step` |
| `QueueLandingRead`, `LandWithoutRead`, `ReadLanding` | `DaemonBrowser::land` |
| `LastStep`, `FinishSequence` | `DaemonBrowser::finish` |
| `ReceiveOpStatus` .. `RetainResult` | `Endpoint::op_status` |
| `Reply`, `ReplyFails`, `Drained`, `EndSession`, `EndUnopened` | the rest of `Endpoint::serve` |
| `QueueRelease`, `Release` | `DaemonBrowser::end` |

`custody` is the queue of the fair mutex (`tokio::sync::Mutex`): its head holds it. `held`
says whose step left a key or button down; `actor` is the field of that name. The last
actor's end forgets the actor and then releases what is held, or does not (`FinishInput`):
with no browser `DaemonBrowser::end` returns, a takeover that is asked for or granted makes
`finish_agent_channel` decline, the release itself may fail, and nobody looks at its answer.
This module does not say which; `BrowserControl` has the conditions. `leftover` records that
the last actor's end left input held. It, `begun`, `late`, `acted` and `told` are history
variables that only properties read. Hosts number their frames 1, 2, 3, ... as the protocol
asks (`agent_channel/frame.rs:31`).

Left out: the independent frames (site session, program and file requests, which
run beside the frame in turn), `fence_program`, an `op_status` without a frame,
commands of the command line and of people (which only make custody later), a
line that is a JSON object without a usable id (a line that is not JSON is
there), and read-ahead byte bounds beyond the close they end in.

### BrowserControl

The agent holds the browser unless a person has a lease. A lease is `live` until its
deadline; it keeps the browser longer while its input is not yet neutralised
(`pending`) or while it signs in (`holds_custody`). The browser owns a native
window: a display helper performs input and releases what is down.

| Actions | Code |
|---|---|
| `Ask`, `GiveUp` | the takeover request of `daemon.rs`, known before it has custody and dropped after two seconds |
| `AcquireRefused` .. `Acquire` | `execute_operation`, acquire: its refusals, the reset of the agent's input, the lease |
| `Lapse`, `IdleTooLong`, `Expire`, `Release` | the two deadlines, `expire`, release with `release_held` |
| `InputApplied` .. `Navigate` | input: `require_owner`, the reservation of the batch's number, the effect, the number consumed |
| `SignInBegins` .. `SignInFails` | `sign_in::enter`, `begin_sign_in` |
| `HandBackDue`, `HandBackAsked`, `Relaunch`, `EndLease` | `sign_in::maintain`, `hand_back`, `end_lease` |
| `BrowserExits`, `Restart` | `close_current_browser` with `reset_browser`, `sign_in::restart` |
| `AgentBegins` .. `AgentEnds` | `run_host_command`, the native mouse, the deadline |
| `EndChannel`, `SettleChannel`, `OpenChannel` | `finish_agent_channel` |

An action is one hold of command custody, or of the control gate alone: mouse and
keyboard batches of a native window take only the gate, so they interleave with the
steps of everything that keeps custody. Three things keep it over several actions
and `custody` names them: an agent's command, the launch of the sign-in browser and
the hand-back. `hands` says whose keys or buttons the helper may hold down; `sent`,
`controlled` and `unseen` are history variables.

- Time is the field `live`: a renewal only moves a deadline, and is a stutter, as
  are repeated batches that are acknowledged again and every refusal.
- Every command first runs `sign_in::maintain` and `expire`, and so does a tick. The
  guards `Maintained` and `Settled` stand for that: nothing else may begin while a
  sign-in is due, or an unreleased lapsed lease is there.
- A batch has one kind (native, viewport or navigation). The request that starts
  a sign-in consumes a number too; a person numbers their batches once, so no other
  batch carries that number while the browser changes.
- The agent checks the control gate and then sends. That is one action: only the
  arrival of a takeover request could come between, and it commutes with the send.

Left out: input through DevTools sessions and the stream (a browser without a native
window), file choosers, downloads, copying, the pacing of single strokes and
interruptions of a paced batch other than as an uncertain outcome, Playwright
programs. With a window and no DevTools input, the fields `held`, `stream_held`
and `pending_stream` of the code stay empty and are not in the model.

Two constants say what people do. `Eager` send input after they asked to hand a sign-in back
and before the answer; `Returning` acquire again under a controller id that another lease
has replaced. The runs take both empty and the theorems that need it assume it. With `Eager`
nonempty `ControlIsExclusive` fails: the hand-back adopts the new browser before it ends the
lease, the gate is free in between, and a person's input is then left down in the agent's
browser. With `Returning` nonempty `EachBatchOnce` fails: only the last released controller
is remembered, so an older id gets a new lease whose numbers start at 1. Giving either
constant a member in the `.cfg` shows it.

### SiteCustody

One site of a dedicated host. The tables of `custody.rs` are behind one mutex, so
what runs between two awaits is one action. A job that touches the browser holds
`effects` too (`applying`); it is cut where the tables may change under it.

| Actions | Code |
|---|---|
| `Open`, `Stop`, `ChannelClosed` .. `Ended` | the agent channel, `channel_closed`, `end` |
| `StartDetach`, `DetachRefused`, `DetachClears` | `detach_expected` and its job, checked again under `effects` |
| `HostDetaches`, `Expiry`, `Lapse`, `PauseLapsed` | who asks for a detach: the host, the held use's timer, a page that finds the term over |
| `OfferBegins` .. `OfferCommits` | `offer`: retire, release, discard, commit |
| `PassOrStop`, `Join`, `RaiseNeed`, `Move`, `Timeout`, `Refuse` | a paused document and its need |
| `Begin`, `Finish`, `Late`, `Close`, `Watch` | a transfer |
| `ApplyRefused` .. `ApplyUndoes` | the job that freezes, imports, resumes and commits, or undoes |
| `RetireReleases`, `RetireEnds`, `ReleaseReturns`, `ReleaseClears` | `retire_transfer`, `release_pending` |
| `Export`, `RecoverWaits`, `RecoverClears`, `Reconnect` | a capture and the ways it fails, `recover_cleanup`, `browser_ready` |

`data` is the set of uses whose state the browser stores: an import adds one, a clear
empties it. A need has one transfer at most, so a need, its transfer and the use it brings
share a name. `frozen` says what stopped documents that do not run yet, an import or a
capture: the code treats a failure of the two differently. Documents are stopped one by one,
so a freeze that fails may leave some stopped; an import then marks the profile, an `Export`
returns without it (section 5). `Current` is the check of the same name: every await of a
transfer is followed by it, and the properties say what would happen if one were not.

Left out: several sites at once, the parts and bytes of a transfer, the captured
transfers of v4 (`Read`), modes, what `documents.rs` and `storage.rs` do inside a clear, a
freeze and an import (each is one effect that succeeds or fails), and the task that
follows the browser connection.

### DaemonSessions

`lock`, `published` (the pid, version and configuration files) and `sock` are the
directory of one session; a file names the process that wrote it. `stage` is
where a daemon process is between its spawn and its end, `pc` where a
command-line process is. What one process does to one file is one action.

| Actions | Code |
|---|---|
| `Acquire`, `Publish`, `Bind` | `DaemonSession::acquire`, the start of `run_daemon`, `run_socket_server` |
| `ReadRequest` .. `RefuseRequest` | `handle_connection`, `command_state` |
| `IdleTimer`, `IdleRearmed`, `MayStopIdle` | the idle branch of the server's loop, with `resolve_idle_timeout` and `blocks_default_idle_shutdown` |
| `BrowserLeaves` | `maintain_browser`: a browser that exited, a sign-in that is over |
| `StopServing`, `CancelTasks`, `Leave` | the end of the loop, the bounded teardown, the drop of `DaemonSession` |
| `Crash`, `Supervise`, `Terminate` | from outside: a kill, a foreground daemon and its SIGTERM |
| `Look` .. `AwaitExit`, `Spawn`, `FindDaemon`, `FindNone` | `ensure_daemon` |
| `RemoveSocket` .. `SweepSocket` | `kill_stale_daemon`, `cleanup_stale_files` |
| `Walk` | `walk_daemons`: listing the sessions removes files of the dead |
| `Connect` .. `NoReply` | `send_command_with_respawn` |

A retry of a refused connection and a poll of a file are stutters; what they
wait for is the guard. `IdleTimeout` gives each configuration its policy: expiry is off, by
default, or at an explicit timeout. `personal` are the daemons whose browser a person may
be using, one with a window or one they attached: a command may open or close
such a browser, and the default timeout is armed again and again while it is there
(`Spared`). `executed` and `swept` are history variables. Left
out: the three published files one by one, the pid as a number the system may
use again, the rest of `maintain_browser`, bounds on a request line, Windows,
`close --all` and `doctor`'s cleanup.

### TabBinding

One session attached to a browser that others use too. `manager` is the part of
`BrowserManager` that knows tabs: `pages` in their order, the index `active`
(from 1 here), `bound` and `gone` (`bound_target_id`, `bound_target_gone`) and the
pin. The operators named after its methods say what each does to it; the actions are the
daemon's steps. `events` is what the receiver holds, `batch` what a drain took
and has not applied: a drain removes the closed tabs first and attaches to the opened
ones after, and tabs go on closing meanwhile. A command holds the daemon's state
from `Begin` to `Reply`; `command.phase` is where it is.

| Actions | Code |
|---|---|
| `OthersOpen`, `OthersClose`, `Announce`, `LinkLost`, `Overflow` | the browser, its other users, the connection; the receiver that lagged |
| `Tick`, `Refresh`, `Apply` | `drain_cdp_events`, `apply_drained_events`, `adopt_discovered_page` |
| `Start`, `Crash` | `DaemonState::new`, the end of the process |
| `Begin`, `KeepPin`, `TogglePin`, `ToggleFails` | the head of `execute_command_inner` |
| `Connect` .. `Subscribe` | `auto_launch` over `--cdp` and `--auto-connect`, `discover_and_attach_targets`, `subscribe_to_browser_events` |
| `Restore` .. `RestoreFails` | `apply_tab_binding_on_attach`, `open_fresh_tab_for_auto_connect`, `rollback_failed_launch` |
| `EnsurePage`, `Refuse`, `Admit`, `Act` | `ensure_page`, `admit_active_tab`, `active_session_id` with `check_bound` |
| `ListOrFail` .. `CloseTab` | `tab_new`, `tab_new_background`, `tab_switch`, `tab_close` |
| `Skip`, `Persist`, `Reply` | `skip_launch_action`, `maybe_persist_tab_binding`, the answer |

`mine` (the tabs the session opened or chose), `promised` (a command succeeded
under the pin) and `missed` (tabs whose end no receiver heard of) are history
variables. The binding's URL is left out, and so is a write for the URL alone.
The browser, its tabs and its events are external; nobody but the daemon writes
the file. Left out: `launch` and `close`, a browser the daemon launches itself, direct
page connections, windows and their contexts, native tab commands, discarded
tabs, labels, and a failure of the network controls, which closes the browser.

### ScriptEmulation

One page, its DevTools sessions and the connections they belong to. `Answer` is
`script_execution_disabled`: what is confirmed of the page, unless a change later than the
confirmation has not settled. A change is numbered in the order of writing;
`PreviousActor` and `PreviousPage` are what it takes with it, and `Proves` what
its accepted reply then says. The browser is external: it runs the commands of one
connection in order, in any order between connections; a session's setter changes
the page only if it changes that session's override; the override of a detached
session is taken back. `unseen` is a history variable: a raw message of a
frontend, or a connection dropped with an override, changed the page behind the
daemon.

Left out: the table of pending commands of other methods, event subscriptions,
document generations and activity.

## 3. What the runs check

| Run | Instance | Checks |
|---|---|---|
| `owners` | 2 channels, 2 Actions, 2 generations, 1 frame each, 2 entries of 1 byte, 1 fence, 1 stopped channel | the ledger's invariants, its byte sum, which outcomes leave first; `StopIsFinal` |
| `takeover` | an older owner with two sequences (two steps and one), a newer owner that takes over by hello, question or sequence, may repeat its hello or send a malformed frame; every bound 1 | the endpoint's invariants and action properties, and the ledger's bounds |
| `contention` | two hosts of different owners with one sequence each | the liveness properties |
| `control` | two people with two batches each, the agent, a helper and a browser that may fail at any time | the invariants of browser control, the refinement of `ExclusiveControl`, `NothingIsActedOnBlind`, and that a lapsed sign-in is handed back |
| `custody` | two documents that need the site, two channels one after the other, two offers or a new connection, any failure | the invariants and action properties of site custody |
| `sessions` | two clients that want different daemons (one closes, one may only list the sessions), two process ids, with idle expiry off or at its default, one kill from outside | ownership, at most once, idle expiry and the two liveness properties |
| `scripts` | a session of each of two connections, three changes, raw messages on one | that answers are true and overlaps unknown |
| `tabs` | one session, three tabs, the daemon and its link dying at any time | the index, the list of pages, the copy of the file, and the pin |
| `leftover` | as `control` | the divergence 4 of section 5 |
| `late_step`, `unknown`, `held_input` | as `takeover` or `contention` | the divergences 1 to 3 of section 5 |

Bounds. In `owners` each bound is passed for its eviction to happen: with two
channels a second fence or stopped channel is one too many, and two channels are
what fencing relates. Generations 1 and 2 are an older and a newer owner; the
operations only compare two of them at a time. One byte against results of one or two
lets a result fit alone or not at all, and two entries let two outcomes be held
when the sum is passed, so the order of eviction shows. The bound on entries is passed
in `takeover`, with three frames on one channel against one entry.
`Ownerless` leaves out the owner that an entry keeps, which no
operation reads, and the symmetry swaps channels and Actions, which no definition
tells apart. Deadlock is not checked because the system may stop: every
connection may be gone, every operation of the ledger may leave it as it is, and the
browser may have nobody who wants it.

In `control` two people are the smallest number with which one takes over from the
other's lapsed lease and with which the last released controller is not the only one
before. Two batches let one be unknown while the next is sent, or one be
applied and repeated. The lease keeps nothing of a third person or batch.

In `takeover` there is one Action, so its fence is never forgotten and
`FencedFramesDoNotStart` is a statement about all of time. With more Actions than
`FENCES` a forgotten fence lets an older owner in again; the code documents that bound.

In `custody` two documents let a need, its transfer and its release overlap those of the
need that follows, and let the held use be replaced; generation 2 is an offer that finds
everything the first one began. `Together` keeps the instance within reach: a second offer
or a second connection but not both, a second channel only once the first has stopped; with
two channels, or with both generations in play, no detach but those of offers and pages, and
with two channels no failed clear. Each pair of causes is explored with one of them at full
freedom. A document that a failed capture left stopped is followed under the first offer or
connection only, on a profile that is not marked: no guard asks about it, so it multiplies
the states and enables nothing. The view identifies an answered document that proceeded with
one that stopped: no guard asks.

In `sessions` two clients with different configurations are what makes one
restart the other's daemon, and the second process id is the successor. One asks for no
idle expiry, the other for the default, with and without a browser that is spared; an
explicit timeout acts as the default does without one, and is left to the proofs, which
hold for every policy. Process ids are
interchangeable and `InOrder` uses them in order. There is no symmetry and no view,
since liveness is checked.

In `tabs` three tabs are the least with one before and one behind the active page, or with
the session's own between two of others. Everything is explored with two; once the
third is open, `Small` drops what the first two showed already: automatic
connections, unpinning, commands without a browser, lost events, a link that
breaks without the daemon, and more than one event on its way.

In `scripts` three changes are the least in which a change is
sent while one of its own session and one of another connection are
unsettled. `Seen` checks a state in which the page changed behind the daemon and does
not continue it, for nothing more is claimed of answers there. `Temporary` says that only
the program's connection is dropped on purpose. The view forgets what no action reads
any more of a settled change.

Fairness. `FairSpec` adds weak fairness of each endpoint task. The runtime schedules every
task, custody is granted in order, a step ends within its time limit, a reply is
written or fails, an asker's wait ends at its deadline. Nothing obliges a host to send,
to read or to close.

`FairSpec` of browser control needs only that a due hand-back begins, that its relaunch
ends and that the lease is then ended: the watchdog tick comes again, and a relaunch
is bounded by a deadline (`sign_in.rs`). Nobody must renew, release or send.

`FairSpec` of the daemon's sessions has every client and daemon scheduled, the idle timer
and its rearming included (a timer that is rearmed for ever satisfies it): each wait of a
client has a deadline (`connection.rs`: seconds for a reply to a shutdown, for an exit, for
a start; `main.rs` a read timeout) and its passing is a step of that client. Nothing is
assumed of crashes, of the supervisor, of whoever types commands or of a browser somebody
uses, which may stay for ever. That is why `UnreachableDaemonsLeave` excepts the daemons
without idle expiry and those it spares; once such a browser is gone the daemon must leave
again. Site custody has no liveness property: its jobs hang on the host and on the browser.
`PausesHaveAnAnswerer` states instead, as an invariant, that some task at work will answer
each pause.

Every property has a mutant: an operator in the module, marked `Mutant`, that
changes one mapped definition as a plausible bug would.

## 4. What is proved

`LedgerProofs` proves, for all finite sets of channels, frames and Actions, all
generations, sizes and bounds (`FENCES` at least 1, the assumptions of `Ledger`):

- `LedgerIsSound`: `LedgerSpec => []LedgerInvariant`.
- `QueuedFramesAlwaysCanStart`, `LiveChannelsAlwaysHoldTheFence`,
  `StoppedQueueIsAlwaysExact`: its parts.
- `StoppedChannelsStayStopped`: `LedgerSpec => StopIsFinal`.
- `LedgerAlwaysFits`: `LedgerSpec => []LedgerFits`, the inductive invariant of the bounds,
  and from it `LedgerIsTyped` (`LedgerTypeOK`), `BytesAreAlwaysExact` (`BytesAreExact`)
  and `TheBoundsAlwaysHold` (`Bounded`).
- `OldestAlwaysLeaveFirst`: `LedgerSpec => OldestFinalLeaveFirst`.

The argument. `QueuedFramesCanStart` is not inductive alone: a waiting frame needs
its channel's record, which the bound on stopped channels removes. The invariant adds
that the queue of stopped channels names exactly the stopped ones, so a live
channel is never forgotten (`StoppedQueueIsExact`). `LiveChannelsHoldTheFence`
needs that a forgotten channel is blank (`ForgottenChannelsAreBlank`), or it
would come back carrying an old generation, and that `register` stops by what a
channel *carries*, not by the fence it replaces, which may have been forgotten.
Each operation changes the state and then bounds it, so the proof has the same
two halves: the lemmas of the bounds (`EntriesBounded`, `ChannelsBounded`,
`FencesBounded`) say that bounding preserves the invariant, and one lemma per operation
says that its change does.

The bounds go through the same halves. The bytes held are a fold over a set, defined by
recursion, and the library's induction theorems take an operator, which no installed
prover can instantiate. The induction is therefore done on *sets*: the numbers at which
a claim fails would have a least element (`WFMin`), so every number is in the set of
those at which it holds (`EveryNumber`), and every subset of a finite set is, if each one
is when those with one element less are (`EverySubset`). With these the recursion is shown
to have a solution (`SumExists`), and the sum to be a number, to split over any part of
the set and to depend on nothing but the bytes of its elements (`BytesOfPart`,
`BytesOfEquals`). Then each operation hands to the bounds exactly the bytes of what it
holds (`Weighs`), and bounding subtracts those of what it drops. That what stays fits
(`BoundingFits`) is read off the oldest outcome that stayed: every older one is gone, and
what was left without them fitted. `OldestGoFirst` compares, in the same way, the outcome
that went with an older one. The number of fences needs one invariant more,
`FencesRanked`: no two fences have the same rank and the one just touched is above all,
or more than `FENCES` could be among the most recently touched.

`AgentChannelProofs` and `EndpointProofs` prove, for every number of hosts and every
frame they may send (the assumptions of `AgentChannel`: frame ids start at 1, every
`op_status` names its owner):

- `ChannelsUseTheLedger`: `Spec => LedgerSpec`. Every step of the daemon is one
  operation of the ledger or leaves it alone. It needs one invariant of the endpoints,
  `FramesFit`: the frame in turn has what its phase uses (a usable id, an owner where
  one is registered, a step where one waits).
- `TheLedgerIsSoundInTheDaemon`, `TheLedgerFitsInTheDaemon`, `TheBoundsHoldInTheDaemon`
  (`Bounded`), `StopIsFinalInTheDaemon`: so the theorems about the ledger hold in the
  composition.
- `ChannelsAreTyped`: `[]TypeOK`. The count of unanswered sequences never falls below
  zero because it is the number of those that wait or are in turn (`LinesInOrder`), and
  `custody` stays a queue because only its head gives it back (`Releaser`).
- `StoppedChannelsBeginOneStep`: `[]AtMostOneLateStep`. The invariant is `Discipline`:
  a session outlives every hello, a sequence needs one, and a channel that
  began a step late is stopped and waits for no other. That no step but an accepted
  hello makes a channel live (`StepsAreSteadyBut`) keeps it.
- `HeldInputIsReleasable`: `[]HeldInputHasAReleaser`. Input that is held has an actor
  whose end is still to come, or is what the last actor's end came to and kept. It does
  not say that the release is made, which the code does not promise (divergence 4 of
  section 5). The invariant is `Releaser`: a step runs only under custody and is then the
  last actor, and an actor's connection is not gone.
- `FencedFramesNeverStart`: `FencedFramesDoNotStart`, provided the daemon has room for the
  fence of every Action (`FencesSuffice`). The invariant relates three things: the fence is
  never behind what a channel carries (`FenceLeads`), a live channel is never behind
  the fence (`LiveChannelsHoldTheFence`), and a live channel that prepares a frame
  carries that frame's owner (`Admitted`). Without the room it does not follow: a
  channel that carries generation 2 keeps doing so when its fence is forgotten, may
  then be admitted under generation 1, and is not among the channels a later
  generation 2 stops.
- `SequencesAreAnsweredOneAtATime`: `[]OneSequenceAtATime`. The invariant is
  `LinesInOrder`: the lines of a connection carry rising numbers, above that of the
  frame in turn (`Numbered`), and `unanswered` is the number of sequences that
  wait or are in turn, of which one at most was not refused (`Counted`). The count is
  of a *set* of records, so without the numbers two equal lines would count once. Each
  step is first shown to be one of four things to the lines of its connection:
  one arrives, one is taken, one is answered, or they rest (`StepsOfLines`).
- `OpenFramesAreServed`, `WhatDidNotStartNeverRan`: `[]OpenEntriesAreServed` and
  `[]NothingOfNotStartedRan`. Neither is inductive, for the ledger and the endpoint
  each know half. `Outcome(f)` says of a frame where both are: an entry is running
  exactly while the frame runs, queued only while it waits unrefused, settled only
  when it is past; one that is not started, on a live channel, was refused or is past; and a
  frame of which a step began has its arrival on record. The last part is what makes
  the record of a stopped channel a safe answer after an eviction. A frame can
  be taken back by nobody, because ids rise (`LinesInOrder`), a channel with a session is
  never opened again (`StepsKeepRecords`), and the ledger drops final entries
  only (`Ages`). Each step is one of six things to the frames of its connection
  (`StepsOfFrames`), and a step of another connection only ages them.
- `FinalAnswersAlwaysStand`: `FinalAnswersStand`, from the same invariant and what each
  step may do to an entry (`Turns`).

`BrowserControlProofs` proves, for every set of people and every number of batches
(`ActorsAssumption` and `SequenceAssumption`: the agent and `Nobody` are not people):

- `TypesAreCorrect` and `SignInAlwaysMatchesTheBrowser`, from `BaseInv`. The sign-in
  property is not inductive: it speaks of free custody only, and an action that keeps
  custody relies on what held when it began. `CustodyIsKept` says what each holder of
  custody may rely on: an agent's command that no person holds the browser and that it runs
  with DevTools or not at all, a starting sign-in that its lease still has an owner with a
  number to consume, a hand-back that the lease signs in until it ends.
- `NothingIsEverActedOnBlind`. The invariant `UnseenIsOwed` says that what the agent has
  not seen it owes an observation of, and that it already owes one while a
  person can still add to it.
- `ControlIsAlwaysExclusive`: `Spec => ControlIsExclusive`, provided `Eager = {}`. The
  invariant `HandsAreTheHolders` adds that a person's input is down only while the
  lease is `pending`, which is what makes a lapsed lease keep the browser
  until a reset is confirmed. Each step then keeps the holder, or changes it with
  nothing down (`Handover`).
- `EachBatchHasEffectOnce`, provided `Returning = {}`. The invariant `UnusedNumbers` says
  that the batches after the last consumed one had no effect unless the last outcome is
  unknown, which stops the lease, and that a new lease's owner never sent any.

`DaemonSessionsProofs` proves, for every number of clients, daemons, configurations
and crashes:

- `TypesAreCorrect`, and `OwnersAreAlone` from `Ownership`: a daemon past its start
  holds the lock, what the files name was started, and what a listening daemon
  lost was taken by a client. The property is not inductive without the second and
  without the stages between the lock and the listener.
- `CommandsBeginOnce`. `Delivery` says where a client's command can be: nowhere before
  the client waits for a reply, then in one request, which has begun exactly when it
  runs. A respawn happens only where it is nowhere.
- `IdleNeverCuts`. `Quietness`: a daemon whose timeout passed since the last activity
  has no request waiting for its state, unless one holds it.

`ScriptEmulationProofs` proves, for every number of connections, sessions and
changes:

- `TypesAreCorrect`, `OverlapsStayUnknown`, `ActorsStayTrue` and `AnswersAreTrue`. What the
  daemon knows is true because of where every change is, so the invariant relates the
  numbers confirmed and pending to what the browser carried out. `Execution`
  says what running in order gives, `Actors` what is known of a session's own
  override, `Pages` what is known of the page: everything under way is pending
  (`NothingIsMissed`), a change that may still be taken for the last found the actor
  and the page as it says (`SentFindActors`, `SentFindPages`), and the last accepted one
  proves what the page has (`AcceptedProve`, `ConfirmedIsTrue`). The steps are first
  reduced to what they do to the page (`Issues`, `Settles`, `Arrives`, `Reads`,
  `Departs`, `Rests`); each part is then shown to survive each of those.

`TabBindingProofs` proves, for any number of tabs:

- `TheActivePageIsTheBoundTab`: `[]ActiveIsBound`. The manager keeps its binding by name and
  its active page by position; `Holds` says that they agree and that the position is in the
  list. One lemma per operation of the manager shows that it keeps `Holds`, the one on
  removal (`RemoveHolds`) by what is left of a list when one of its elements goes.
- `TheCacheIsTheFile`: `[]CacheMatchesFile`, by cases on who writes the file.
- `ListedTabsAreOpen`: `[]KnownTabsAreOpen`, from `Known`: only tabs that were opened are
  listed, each once, and over a live connection each is `Tracked`, that is open, about to
  be removed, or lost. Without the first part a tab that opens could already be listed;
  without the second, one removal would leave a copy behind.
- `TabsAreTyped`: `[]TypeOK`. `Sorts` gives each variable its shape, `Births` keeps
  what the session calls its own, misses or saved among the tabs that were opened,
  which needs `Known`: whatever is bound or active is listed.
- `PinnedSessionsActOnTheirOwn`: `PinnedActsOnItsOwn`. The property speaks of one moment and
  rests on every copy of the pin, so `Owning` relates them. The tab a pinned manager is
  bound to is the session's own (`BoundIsOwn`), and so is the one in the file (`FileIsOwn`),
  from which the next connection or the next daemon will bind. The manager's pin is the
  daemon's once a binding was applied, and a pinned file pins the daemon (`PinsAgree`). A
  promise is in the file, and a manager under it is bound or remembers what it lost
  (`PromiseIsKept`), so admission refuses instead of acting on a neighbour. A clean reply
  may promise because the save before it wrote that, or found it written (`ReplyIsKept`):
  the save that is left out is where `CacheMatchesFile` is needed. `ManagerOwns` says what a
  step that moves only the manager and the command owes to keep all this; the steps that
  write the file, the pin or the promise are done one by one.

`SiteCustodyProofs` proves, for any number of documents, channels and offers:

- `CustodyIsTyped`, `NothingIsEverLeftBehind` and `PausesAlwaysHaveAnAnswerer`:
  `[]TypeOK`, `[]NothingIsLeftBehind`, `[]PausesHaveAnAnswerer`. The second is about
  state and about pages an import stopped; of pages a capture stopped it is false
  (section 5), and so is what `ProceedsSettled` would say of them.
- `UsesAreErasedByName` and `ProceedingIsSettled`: the action properties `ErasedByName`
  and `ProceedsSettled`.

The first three hold together, and only with three more parts (`CustodyInvariant`).
`Pausing`: a page that detaches waits for that alone, and a need has no transfer
before its admission. `Retiring`, per need: a watched or retiring use has its transfer, an
unclean one marks the profile, a retirement that finds a load under way has
cancelled it, and one that waits for a release has it on the list of releases unless the
profile is marked. `Applying`: while a job holds `effects` the profile is not
marked and its transfer is at one of the job's own stages, so what it read at
the start still holds when it commits. `NothingIsLeftBehind` then follows a use from
its import to the last of the tables that can still clear it, and
`PausesHaveAnAnswerer` needs `Retiring` for the pauses that wait on a retirement.

`LedgerInvariant`, `LedgerTypeOK` and the type invariants of `BrowserControl`,
`DaemonSessions` and `ScriptEmulation` are proved and therefore in no run.

Every invariant and every action property of the passing runs is proved. Only
model-checked: the liveness properties (`OpenFramesResolve`, `ClosedConnectionsEnd`,
`SignInIsHandedBack`, `ClientsReturn`, `UnreachableDaemonsLeave`), since the provers
reason neither about fairness nor about `ENABLED`.

## 5. Where the documentation and the code differ

Each of the first four is a run that checks the sentence and finds a behaviour of the
model that breaks it.

1. `late_step`. `ledger.rs:3-6` says an older owner "never starts anything once a
   newer one reached the daemon". `Endpoint::sequence` asks `may_continue`, then
   `DaemonBrowser::step` waits for custody and does not ask again: a step that
   waits while the newer owner registers begins afterwards. `AtMostOneLateStep`,
   which holds, is the bound on it.
2. `unknown`. `ledger.rs:10-11` and `:120` say `unknown` can never change. A host
   may send its sequence right behind its hello; while the hello is not yet
   accepted the ledger knows no such channel and answers another asker `unknown`; the
   frame then runs.
3. `held_input`. `mod.rs:213-214` says a channel's held input is released when it ends
   unless another channel's step *acted* since. `DaemonBrowser::step` makes its
   channel the actor before it knows whether the step acts, so a step that is
   refused or only reads is enough to keep the input held until that other channel ends,
   which does come to release it (`HeldInputHasAReleaser`, which holds).
4. `leftover`. `README.md:670` says that when a connection ends "nothing more of it
   starts and the input its steps held is released", and the comment at
   `browser_control.rs:795` excepts only a channel that ends while a person holds the
   browser, whose takeover released the agent's input. `finish_agent_channel` asks
   `agent_error`, which also answers while a takeover is only asked for. The
   request may then be refused or given up, and what the ended channel held stays down.
   `DaemonBrowser::end` has forgotten the actor by then and ignores the answer, so no
   later end asks again.

Other observations, met while modelling and not kept as runs:

- *Ledger.* A sequence refused by its form that was read before the hello was accepted
  never raises `last_received`; once evicted it is answered `running` rather than
  `unknown` on a live channel. `FinalAnswersStand` excludes exactly such entries
  (`Unrecorded`).
- *Site custody.* An offer lists the held uses to discard, then commits under `effects`
  without looking again (`custody.rs:576-615`): a need raised after the generation moved may
  be imported in between, and the new offer then commits over a held use it does not name. A
  capture may leave a page stopped on a profile that is not marked: `freeze` resumes only
  the documents whose command was answered, so one whose freeze timed out after it took
  effect, or whose resume failed, stays stopped. An import and a captured transfer then mark
  the profile (`transfer.rs:389-398`, `:538-539`); `Export` returns at `custody.rs:751` and
  does not, although `site_sessions/README.md:21` says capture and import "await their
  resume". A later capture, import or clear that works lets the page run again.
  `custody.rs:752` returns early too, but its only error is one that `freeze` has already
  met. The invariant `Free /\ ~uncleared => frozen = "no"` shows it: TLC refutes it after
  three steps. An import over a held use after a new connection mixes the data of both.
- *Daemon sessions.* A client may kill a supervised daemon that took over while it
  dealt with the old one (`README.md:604`: clients "cannot automatically restart"
  it). `kill_stale_daemon` and `walk_daemons` remove files without the lock, so a
  daemon may lose its own (`swept`; `connection.rs:169` claims exclusive ownership).
  A client that finds nothing answering while a closing daemon still holds the lock
  spawns one that cannot own the session, and fails.
- *Tabs.* A session pinned while it has no tab is bound to none. Its first page is
  then the first tab it hears of, which may be another's, and it acts on and saves
  that one, although the documentation of `register_discovered_page`
  (`browser.rs:2937-2943`) keeps a pinned session from following a discovered tab;
  `PinnedActsOnItsOwn` and `Persist` name the exception. A tab that closes between
  the discovery and `subscribe_to_browser_events`, or whose event is lost when the
  receiver lags, stays listed until its connection ends (`missed`). A browser the
  daemon launches itself never gets `set_pin_tab`. A new tab that closes before its
  binding is persisted leaves the older tab in the file. `--pin-tab` on a command
  that needs no browser, in a session without a file, does not survive a restart of
  the daemon. `--no-pin-tab` has no effect when `DaemonState::new` could not read a
  pinned file, since the daemon is not pinned yet and the attachment pins it.
- *Script execution.* `KnownIsTrue` without its restriction to `~unseen` is false: a raw
  message of a frontend leaves an override that is not known, and its detach then does not
  make the answer unknown (`client.rs:16-17,91`); a raw change of one connection may run
  after a confirmed one of another; `disconnect` processes its detach before the socket
  closes. A change that nobody awaits, or whose caller gave up, stays pending, and the
  answer unknown, although `client.rs:1409-1411` says "until a later settled command".

## 6. Not modelled, and the plan

The map covers the parts of the daemon in which several actors share state. That is a small
share of the implementation. Most of its lines parse commands, format
output, speak the MCP protocol, launch browsers, encode media or install
software: they are sequential under command custody, or pure, and their
correctness is a matter of data a model would have to copy. `PROJECT.json` gives the
reason for each part.

What is left, in order:

1. `LedgerWatch`: the wait of `op_status` on the change counter; no lost wake-up.
2. Several sites in `SiteCustody`: a recovery that clears only the sites that are
   uncleared while another site's release failed.
3. The CDP client's table of pending commands: cancellation and disconnection
   against a late answer.
4. Input through DevTools sessions: held input of two kinds under one lease, the viewer's
   queue of 256 batches, and pacing.
5. Playwright programs beside the frames of a channel.
