# Formal verification of tmux-web-panel

tmux-web-panel shows tmux sessions in a browser. One process (a *node*) serves
the page, starts tmux clients in pseudo consoles and streams them over
WebSockets; a node that knows other machines (the *hub*) reaches their panels
through SSH forwards, or, where no panel is installed, runs shells over SSH
itself. This directory holds TLA+ models of its core logic, the model-checking
runs, and TLAPS proofs. Paths below are relative to `src/`.

Check a run with `tlc -config X.cfg MCModule`, a proof module with
`tlapm M.tla`. `PROJECT.json` ties every definition to the source lines it
stands for and lists runs, mutants, findings, hazards and theorems.

## 1. Inventory

Everything runs in Node: one callback at a time, so races arise only between
awaits, timers, process events, sockets and files. "Hard" names what a test
hardly reaches.

| Component (source) | State | Operations | Talks to | Hard | Correct when |
|---|---|---|---|---|---|
| **Browser terminals and the client turn** (`lib/terminal.js`, `lib/terminal/gateway.js`) | connections, `_clientTurn`, `_starting`, `_leaving`, `_waitingToEnd`, `_endedClients`, `_stillRunning`, held input, sizes | open, replace to resize, take over, close, exit, shutdown, kill timers | node-pty processes, tmux, mosh sessions, console reaper | tmux loses terminal answers of a client starting while another leaves; every wait can be overtaken | one client per session, nobody forgotten, nobody waits for ever |
| Console reaper (`lib/terminal/console-reaper.js`) | live and ended spawn windows | sweep, postpone | Windows consoles | a console in the window of two clients | never kills a live client's console |
| Wire protocol (`lib/terminal/protocol.js`) | none | parse, format | browser | none | round trip |
| Mosh sessions (`lib/mosh/server.js`, `processes.js`) | sessions, tombstones, processes by start time | start, stop, end on a session, reap | the client turn, tmux, ps | cancel during each wait, identity that cannot be read, ends in turn and queued | a process is never signalled by mistake, ownership kept until gone |
| Mosh terminals (`lib/hub/mosh-terminal.js`) | scopes with generation, trials, unclean | open, retry, clean up | node link, local mosh-client | lost answers, waiting for a trial, link reset | never two clients on a terminal |
| Node link (`lib/hub/node-link.js`) | tunnel, pairing, generation, upgraded and adopted sockets | ensure, request, upgrade, reset, close | ssh | late exits and failures of an older forward | one tunnel, nothing crosses generations |
| Link pool, installer, proxy (`lib/hub/link-pool.js`, `node-installer.js`, `proxy.js`) | links, cached "not installed", jobs | mode, recheck, invalidate, install | registry, links | results for a configuration that changed | results apply to the current target |
| Basic mode hosts (`lib/hub/basic/`) | session/window/pane tree, pane runtimes, focus, expiry | open, close, subscribe, resize, reap | SSH shells | exits during mutation, provider chosen per call | tree and runtimes agree, one exit notice |
| **Server registry** (`lib/servers/registry.js`) | records in memory, the line of writes, `servers.json` | create, update, remove, rename, load | file system | writes fail, crashes, overlapping edits and rollback | memory and file agree, an answered edit survives |
| **Server health** (`lib/servers/health-service.js`, `server-service.js`) | entries: status, generation, inFlight, nextPollAt | probe, force, invalidate, forget, tick | registry, links | late answers after edits | known status is about the saved record; never stuck |
| SSH connections, host keys (`lib/transport/`) | known hosts, pending scan | scan, trust, run, forward | ssh | confirmation of an outdated scan | only a scanned key is trusted |
| **Session protection** (`lib/session-protection/`) | settings, `_lastSaveAt`, `_preparedFor`, snapshots, marks on tmux | tick, saveNow, restore, update | tmux, save.sh | tmux or panel restarting between commands | a saved session is not lost, nor restored twice |
| Monitor, notifications, agent events | polling round, list, dedupe windows | poll, add, read, reap | tmux, file, sockets | overlapping rounds, debounced writes | no late report |
| Shares (`lib/share-store.js`) | tokens with expiry | create, revoke | file | expiry | an expired token opens nothing |
| Workspace, metrics, managed resources, agent providers, HTTP APIs, diagnostics, identity, kernel, HTTP server, authentication, browser client, relay/desktop/mobile | mostly none of their own | requests | tmux, files, web services | little | not modelled, see section 7 |

**How they interact.** A browser socket reaches the gateway, which puts a job
into the manager's client turn; a mosh session takes the same turn. On the hub
an edit goes to the registry, and once it is written the server service drops
the link and the cached health and starts a probe, whose answer is published by
the monitor. Session protection is a timer that talks to the same tmux.

`PROJECT.json` lists every component with its status, and the hazards of the
code line by line with the properties that watch over them; a hazard without
properties says why it has none.

## 2. Plan

What was modelled, in this order, and how the modules are composed:

1. `SessionClients` (what a session may expect) and `ClientTurn` (how the
   manager provides it), with the refinement between them.
2. `ServerRegistry`: memory, line of writes, file, rollback, crash.
3. `ServerHealth`: probes, generations, edits and rollback.
4. `SessionProtection`: snapshots, first sight, restarts.
5. `NodeLink`, and `LinkPool`, which extends it: the links of one server, the
   pool that makes and closes them, the registry's edits, the installer.
6. `MoshSessions` (the node), and `MoshTerminals`, which extends it: the hub,
   with requests that are late or lost in between. Each of its terminals
   implements `OneTerminal`, what one browser socket may expect.
7. `HostedShells`: tree, runtimes, sockets, one exit notice, expiry.
8. `MCRemote` puts 5 to 7 side by side for TLC; a behaviour is of one of them.
9. `TypedChannel` (what somebody who types may expect) and `TerminalInput` (size
   and held input of one terminal, by which it is provided), with the refinement
   between them; `MCTerminal` puts it beside `ClientTurn` for the liveness run.

Proofs exist for all of them: 1 to 4, 9, `LinkPool` (with the link),
`MoshTerminals` (with the node), `HostedShells`, and for 8 what carries the last
three over to all of them together. Worth adding next: several panes in
`MoshSessions`, and the debounced file of the notifications.

## 3. What is modelled

An action is the code from one await (or timer, or event) to the next. Each
operator has the name of the function where there is one.

### ClientTurn: one client at a time (Windows)

| Variable | Code |
|---|---|
| `conn`, `pty` | a socket and the client its connection shows (`connections`, `conn.pty`) |
| `starting`, `waiting`, `leaving`, `ended`, `still` | `_starting`, `_waitingToEnd`, `_leaving`, `_endedClients`, `_stillRunning` |
| `turn`, `step` | `_clientTurn` and where its first job is |
| `proc`, `pid`, `told`, `home` | the process, whether node-pty has its pid, whether it was killed, for whom it was started |
| `down` | `_shuttingDown` |

Sockets open, ask for a replacement, close; the job goes through
`_clearForStart`, the waits for quiet, `spawn`, and, for a replacement, the
departure of the previous client; the start is over after its settling time;
kills wait for the pid, are refused or go unnoticed, processes die at any time
and their exit is reported later. `SessionClients` is the abstract promise: a
client starts on a session only when none of the panel's clients runs there.
`Promise == INSTANCE SessionClients WITH Client <- Term` maps it through `on`.

### TerminalInput: size and input of one terminal (Windows)

| Variable | Code |
|---|---|
| `live` | the connection is in `connections` |
| `typed`, `sent` | what the page sent, and what `term.write` got, each with its client |
| `held` | `conn.heldInput`, `NotHeld` for null |
| `shown`, `settled` | the client of `conn.pty` by number, and whether its settling time is over |
| `size`, `want`, `goal` | `conn.size`, `conn.wantedSize`, and the size the replacement under way has |
| `resizing` | where `_setClientSize` waits: for the client to settle, for its turn, for the client to leave |

A running client is never resized: `Resize` begins to hold what is typed, `Loops`
asks for a replacement as long as the size wanted is another one, `EndsPrevious`
and `Replaces` are the job in the turn before and after its wait. Sizes change and
input arrives between any two of these, and the connection may end at any of
them. The turn is `ClientTurn`'s: here it comes or is refused, and that one of
both happens is its property `Answered`. The abstract specification is
`TypedChannel`: `Channel == INSTANCE TypedChannel` maps it through `ToldToLeave`,
the clients for which `_endClient` was called.

### ServerRegistry: memory and file

A call takes a snapshot, changes `memory` and waits in `line`
(`_writeQueue`). The first in line serialises *what memory is by then*
(`Serialize`), renames it over the file (`Publish`) or fails and restores *its
own* snapshot (`WriteFails`). `Restart` is a crash followed by `load`, which
may find the file unreadable (`blocked`). `told`, `crowded` and `mixed` are
history: the records as answered calls left them, which waiting calls shared
the line, and whether a write failed for one of those.

### ServerHealth: probes of one server

`BeginEdit` changes the record in memory; `CommitChange`, `CommitRename`,
`CommitRemove` and `Rollback` are the end of the write with everything
`ServerService` then does (invalidate, forget, probe). `ProbeFrom` is
`HealthService.probe` with sharing, force and the generation; `Reach` and
`Answer` are the two moments a probe returns to the program, since the link is
asked for the record as it is by then. `Tick` and `TimePasses` are the scheduler.
The write is abstract here; ServerRegistry has it.

### SessionProtection: saving and restoring tmux sessions

One job at a time (`_serial`): a tick or a save on request. `task.at` is the tmux
command that comes next; between any two commands users open and close
sessions, tmux ends or starts, settings are switched, the panel restarts and
commands are refused. `fresh` and `due` stand for the two clocks. History:
`owed` (saved sessions that went down with tmux and are not back), `back` and
`twice` (what was restored on this server, and whether again), `raced` (tmux
ended while a job ran).

### NodeLink and LinkPool: the way to one node

| Variable | Code |
|---|---|
| `link` | per link object `_pairing`, `_tunnel`, `_connecting`, `_direct`, `generation`, `_closed`; `attempt` is where `_connect` waits |
| `req` | a request on its way through `LinkPool.mode`, `NodeLink.ensure` and the wire; an accepted upgrade is a `stream` |
| `running`, `opened`, `installed` | ssh children; the panel installed on the machine, whose pairing file is there |
| `server`, `fields`, `edit` | the registry's record, and what it was while an edit of it is written |
| `entry`, `made` | `LinkPool._entries`, for this server; the links made so far |
| `job` | the installer's job, from one `_assertCurrent` to the next |

`ReadPairing`, `OpenForward`, `ListenerUp` and their failures are the awaits of
`_connect`. A request is sent over what the link has (`Send`), answered,
rejected (401: forget the pairing, and once more), broken or stalled; each of
these asks whether its tunnel is still the link's (`OnCurrent`, in the code
`_resetIfCurrent`, `_dropDeadTunnel`). An ssh child may exit before its listener
is up, before anybody listens for its exit, or later (`ChildExits`). `Ask`,
`Route` and `Learns` are `LinkPool.mode` and what its callers do with the answer
(who awaits the link itself resumes a promise before those who await `mode`);
an edit is in memory at once (`BeginEdit`) and invalidates the link only when it
was written (`CommitEdit`), so that links are made in between.

### MoshSessions and MoshTerminals: a terminal over mosh, at both ends

At the node a session goes through `phase` (pane, line, spawn, identify, attach,
active, ending, ended) in the client turn (`line`, `place`). Its mosh-server and
the tmux client below it are two processes (`alive`); the panel may know the
first (`known`) and have recorded the second (`noted`), or not, and can end only
what it identified. Ends come from the hub's DELETE, from a closed POST, from
the next client on the tmux session (inside the turn), from the sweep and from
shutdown; `finishing` is `_terminate` between its looks at the process table.

At the hub `attempt` is one `open()`, from waiting for the trial to the bridge,
or through the clean-up to a relayed socket or a refusal; `scope` is what is
known for one pairing; `owned` is `_pendingCleanup`. Requests in `wire` arrive
late or not at all, and their answers too.

`OneTerminal` is the promise to one socket: it gets a session of its own, once,
or is relayed to the node's own terminal, and the second only when nothing of
the first is there or will be. `Terminal(i)` is an INSTANCE of it for each
attempt, mapped through `SessionOf` (what is at the node), `LeaseOf` (what the
hub is sure of) and `SocketOf`.

### HostedShells: shells over SSH

The tree (`panes`, `home`, `chosen`), the runtimes (`shell`: process, subscribers,
who decides the size, since when nobody watches) and the sockets. A call or a
socket first waits for the provider (`facts`), which takes a round trip; then it
acts in one go (`Does`, `Attach`). Exits, kill timers, expiry, `Reap` and
`HostDestroyed` come in between.

## 4. Runs

| Run | Bounds | States | Shows |
|---|---|---|---|
| `client_turn` | 3 sockets on 2 sessions, 3 clients, sockets of one session symmetric | 856,660 | nobody orphaned, a connection shows a live client, who starts finds no other start and nobody of its session on the way out (`StartsAlone`), refinement of `SessionClients` (one client per session) |
| `client_turn_live` | 2 sockets on 2 sessions, 2 clients; beside it one terminal with 3 sizes, 3 inputs of which 2 held, 4 clients | 57,191 | every socket in line is answered; a client that waits to be ended stops waiting; what is typed arrives in order and once (refinement of `TypedChannel`), all of it in the end, and the size asked for last is reached |
| `client_turn_starts_apart` | as the first | counterexample | finding 1 |
| `client_turn_shutdown` | as the first | counterexample | finding 2 |
| `server_registry` | 3 calls, 2 servers, 2 values | 135,000 | memory and file agree when no call is under way; the file keeps what was answered; every call is answered |
| `server_registry_diverges` | the same | counterexample | finding 3 |
| `server_health` | 2 probes, 3 versions, 2 generations, 2 overlapping edits | 511,000 | "checking" has a probe that will count; only one counts; a known status is current; a server that stays enabled is probed and known again and again |
| `server_health_late` | 1 edit at a time | counterexample | finding 4 |
| `session_protection` | 2 names, 3 tmux servers | 136,000 | nothing saved is forgotten; nothing is restored twice |
| `session_protection_emptied` | the same | counterexample | finding 5 |
| `remote` | in six parts, below | 915,734 | no ssh child, link, mosh session or shell is lost; nothing crosses generations; two clients never share a terminal; the turn is never stuck, and nobody at the hub waits for one that is over; each socket is one terminal (refinement of `OneTerminal`); nobody hangs |
| `remote_live` | smaller, below | 16,515 | waiting requests, dead tunnels, starts, ends and sockets all come to an end, also a socket that waits for another's trial or clean-up |

**Parts of `remote`.** Link pool, mosh and hosted shells share no state here, so
a behaviour moves one and leaves the others as they began (`part`). *edits*: the
server is edited and removed (a disabled one is edited the same way) under streams
and the health check;
*pairing*: the panel is installed anew under requests of every kind, by forward
and direct; *job*: the installer runs among edits; each with 2 links, 2 forwards,
2 requests. *two*: two mosh terminals, two DELETEs each, of which one is left,
with processes that go when told to and ends that are not given up for a session
once identified; *one*: one of them with a reset of its link, or
a shutdown of the hub or of the node, each alone. *shells*: 3 panes of which 2
at once, 1 call, 2 sockets. `remote_live` has three parts: the link pool without
edits and writes, one mosh terminal, and two; the last two without resets (a link
that keeps being reset keeps everybody from anything), with a child that is
recorded with its mosh-server and goes after it. *mosh* is one terminal with
everything else that may happen to it. *pair* is about what a second one waits
for: it is opened while the first has the trial or left something behind, so that
it waits for that trial, or takes it to end what was left (`reclean`, again with
DELETEs that are lost or refused) and may leave meanwhile. To keep it small the
hub is still while the node is at work, POSTs are not given up, processes go
only when told to, mosh-servers detach or fail, and who is bridged or relayed
stays so; these races are in *mosh*, and for two terminals, but without the time,
in `remote`. The limits take away what others do, never the last step that
fairness asks for: whenever a step of `MoshProgress` is enabled, one within the
limits is. A third terminal that waits for one at clean-up is beyond these
bounds; `SocketsGoOn` (section 6) has any number.

**Why these bounds are enough to be interesting.** Two links give a late answer
to one already replaced, two forwards an exit of one after the other took over,
two installations a pairing refused with 401. Two mosh terminals give a trial and
one who waits for it, and a session that must be gone before the next starts; two
DELETEs an answer that comes after the clean-up was tried again. Three panes give
a session with a split and another to be handed to. Three sockets with two on one
session give take-over, an unrelated session in the way, and a third in line
behind both; three clients give a start, a departure and one known not to have
gone at once. Three calls give a failing write behind and in front of another.
Two probes and two edits give a late answer across a commit, a rollback and a
removal with re-creation. Three tmux servers give a restart during a job and
after one. Three sizes and four clients give a size that changes again, and back,
while a replacement waits or has just come; three inputs one before, one between
and one after, or one more than may be held. Beyond the bounds speak the proofs: everything in section 6 holds
for any number.

**Deadlock** is checked where the system never stops (`session_protection`). It
is off where inputs are used once and the bounded system comes to rest
(sockets, calls, generations, links, panes); what must not get stuck is there as
a liveness property, and for the turn at the node as `TurnNeverStuck`: while
anybody waits, a continuation or a timer of the node is due that needs no help.
`NobodyWaitsAlone` says the like of the hub: who waits for another's trial or
clean-up waits for one that has itself a step due.

**Fairness.** `ClientTurn`: weak fairness on promise continuations and timers
only (steps of the turn, the end of a settling time, the answer to a kill), which
Node's event loop gives; none for browsers, process deaths or exits.
`TerminalInput`: weak fairness for a client to settle (a timer), for the loop to
go on, and for the job to go on or be given up; none for the page.
`ServerRegistry`: a write that began ends one way or the other. `ServerHealth`:
the interval goes on firing, edits settle and probes end, since each has a
timeout. `LinkPool`: connection attempts and requests have time limits, the monitor
asks each server again, and a write ends; strong fairness, since each of these
steps is disabled for a moment whenever continuations run. `MoshTerminals`: weak
fairness of one formula, "some continuation or, when there is none, something
with a limit of time goes on at either end"; browsers, processes and the wire
have none. No liveness is claimed for session protection: a tmux that keeps
ending keeps it from anything.

**Mutants.** Each property of a passing run has a broken variant of the code,
beside the definition it replaces, under which TLC finds it violated.

## 5. Findings

1. `lib/terminal.js:624`: a replacement waits for quiet, ends its own client and
   waits for that one only; another client that begins to leave meanwhile is
   not waited for, against the comment at 716-717.
2. `lib/terminal.js:913`: sockets still in line at shutdown get a client
   started afterwards, against the comment there.
3. `lib/servers/registry.js:368`: two overlapping edits whose writes both fail
   leave the first's refused change in memory, against the comment at 360-362.
4. `lib/servers/health-service.js:200`: the generation starts again with a new
   entry, so a probe of a removed server can settle the one created anew under
   its id, against the comment at 180-181.
5. `lib/session-protection/service.js:271`: the sessions are listed in one
   command and saved in another; if the last one closes in between, the latest
   snapshot becomes an empty one, against the header (10-11).

The corresponding invariants of the passing runs state what *does* hold, with
the exception named by a history variable (`mixed`, `left`, `raced`); those
variables change nothing, and only those cases are excused.

## 6. Proofs

All are safety, for every value of the constants, under the named assumptions
(`ClientTurnAssumption`, `RegistryAssumption`, `HealthAssumption`,
`ProtectionAssumption`, `LinkAssumption`, `PoolAssumption`, `HostedAssumption`,
`MoshAssumption`, `TerminalAssumption`: special values are not ordinary ones,
sets that are counted are finite, bounds are numbers). Each part has one
inductive invariant (`IInv`, or one with the module's name in it), one lemma per
action or group of actions, and theorems that follow from it.

Liveness is beyond the prover. What it can prove is the half of a liveness
property that goes wrong in practice: that nobody waits for something that is
over, or that waits for him. These theorems say it with the guards of the steps
that fairness runs written out, and each names the liveness property it is the
core of.

| Liveness property, checked by TLC | Theorem, for any number | Says |
|---|---|---|
| `Answered`, `WaitingIsEnded` | `NobodyWaitsForNothing` | the turn's first job, a timer or an answer is due |
| `EverythingArrives`, `SizeReached` | `NothingIsLeftHeld` | input is held only while a replacement goes on |
| `AllAnswered` | `WaitingIsInLine`, `TheLineMovesOn` | a place in line for each, and nothing puts it back |
| `StartsAndEndsFinish` | `TurnIsNeverStuck` (the invariant `TurnNeverStuck`), `ContinuationsRun` | somebody at the node can go on |
| `SocketsSettle` | `SocketsGoOn` (the invariant `NobodyWaitsAlone`) | a socket waits for a trial or clean-up that goes on |
| `EveryRequestEnds` | `EveryRequestGoesOn` | a request waits for an attempt under way |
| `DeadTunnelReplaced` | `DeadTunnelsAreFound` | a dead tunnel is the one the next check uses |

- **TerminalProofs**, the turn: `TypeCorrect`, `StartsOneAtATime`, `OneClientRuns`,
  `NoneForgotten`, `ConnectionsShowLiveClients`, `StartsAreAlone`,
  `ManagerKeepsPromise` (the refinement), `NobodyWaitsForNothing`. The safety
  properties alone are not inductive: "one client per session" is lost unless one
  knows what the first job in line may rely on while it waits (`InTurn`: after the
  take-over nobody else is attached to its session, and while its own client
  leaves nobody else runs there, leaves or may not have gone), that a client told to leave is tracked until
  its process is gone, and that clients wait to be ended only while one starts.
  `StartsOneAtATime` and `OneClientRuns` are proved only: no run spends time on
  them, since the run's refinement contains the second and the first is a part of
  the invariant. That the first job can go on needs that the client it waits for
  is alive, told to leave or not yet known, in every order of exits and kills.
- **TerminalProofs**, size and input: `InputTypeCorrect`, `TerminalIsOneChannel`
  (the refinement), `NothingIsLeftHeld`. `InOrder`: what was written is a
  beginning of what was typed. `RestHeld`: the rest is held, in order, or there
  is none; and while a client leaves, something is held, so nothing is written to
  it. Writing what is held therefore always completes what was typed
  (`RestWritten`).
- **ServerRegistryProofs**: `TypeCorrect`, `MemoryConverges`,
  `FileKeepsWhatItSaid`, `WaitingIsInLine`, `TheLineMovesOn`. `After(r, k, ...)`
  says that `r` is what the answered calls left with the changes of the first `k`
  calls in line on top. Memory is After the whole line, the i-th call's snapshot
  after i - 1, the file and what is being written after some number. An answer
  moves the base by one change. The last theorem is about steps: an answer, also
  of a write that failed, brings whoever waits one place nearer to its own.
- **ServerHealthProofs**: `TypeCorrect`, `NeverStuckChecking`, `OnlyOneCounts`,
  `StatusStaysCurrent`, `OrphansAreSilent`. `InStep`: no probe is ahead of the
  entry's generation, and one level with it is the one in flight. `AboutRecord`:
  that one asks about the record as it is, unless an edit of the connection is
  still to be written, a write failed, or an entry was forgotten too early. The
  last theorem is about steps: while no entry was forgotten too early, a status
  becomes known only by the answer of the probe in flight.
- **SessionProtectionProofs**: `TypeCorrect`, `KeepsTheSaved`, `OnlyOnce`,
  `SavesAfterRestoring`, `MarkComesFirst`. While tmux does not end under a job,
  the job is about the server there is; nothing is restored before the mark; and
  on a marked server with no restore under way nothing is owed, so a save cannot
  replace what somebody waits for. The last two say so of the steps themselves.
- **LinkPoolProofs**: `PoolTypeCorrect`, `NoForwardIsLeft`, `PoolClosesItsLinks`,
  `StreamsEndWithTheirPairing`, `NothingIsAskedTooOften`, `InstallerKeepsItsTarget`,
  `EveryRequestGoesOn`, `DeadTunnelsAreFound`, `LateFailuresSpareOthers`,
  `NoTunnelComesBack`, from `PoolInvariant`. The heart is
  one fact about a request that is out: if its tunnel is still its link's, so are
  its generation and its pairing. A tunnel once lost is never a link's again
  (forwards are numbered and only the newest becomes a tunnel), so a reset that
  meets another tunnel may stop, and one that meets the same tunnel ends
  everything of this generation. The last two theorems say it of the steps
  themselves (`Alters`): a link is reset only over a request that went out over
  the tunnel it has, and a new tunnel is one that no link had and no request is
  still out over. `Becomes`, `Quiet`, `Follows` and `Calm` name
  what steps do to links and requests, and the lemmas on them are shared by the
  actions. The pool's part (`PoolOK`) is that exactly the entry's link is open
  and links not yet made are fresh; the job's (`JobOK`), that an entry which
  still has the job's link has the fields the job began with. That whoever waits
  is heard (`EveryoneIsHeard`) rests on the order of continuations: those who
  await a link that just connected go on before anything can take its tunnel
  away. Without that order one of them would find its link reset again, and wait
  for an attempt nobody makes; `Route` has it for that reason.
- **MoshProofs**: `MoshTypeCorrect`, `CleanIsGone`, `OneClientAPane`,
  `RelayedIsAlone`, `OwnershipIsKept`, from `MoshInvariant`, which is about both
  ends. At the node (`NodeInv`): a job in line finds its session where it expects
  it (`LineOK`: a start's session waits for just this job, an end's is on its way
  or in sessions, and an end already run left its mark); while a start has the
  turn nobody else is active or ending (`TurnOK`); and processes of a session run
  only while it is in sessions, for what a mosh-server leaves was recorded
  (`ProcsOK`). Without the line's part an end that gets the turn could find
  a session already forgotten, and a start one that somebody else ends.
  `LineFollows` says how a line comes from the one before, and `LineKeeps` and
  `JobsMove` are used by every step that moves jobs. At the hub (`HubOf`): what
  is confirmed is over at the node (`Over`: ended, or its POST was never sent or
  was refused), which no step of the node takes back (`Stays`), so a late DELETE
  or a lost answer changes nothing.
- **MoshProofs**, who goes on: `TurnIsNeverStuck` needs that a session which waits
  for the turn has its start or its end in line, and that a DELETE which waits
  for a start to be over has one that was cancelled (`WaitOK`); `ContinuationsRun`,
  that only an end already run has a result, and never one that has the turn
  (`ResultsOK`); `SocketsGoOn`, that a trial others wait for is of their pairing
  and in a stage that ends (`TrialOK`). `ContinueDue`, `ProgressDue` and `HubDue`
  are the guards of the steps fairness runs, written out.
- **MoshProofs**, the abstract promise: `NodeImplementsSessionClients`. The clients
  of `SessionClients` are here the one of each session and the panel's own: the
  two ways to a terminal keep the same promise. What a mosh-server given up after
  its CONNECT leaves is no client there (section 7).
- **MoshProofs**, the promise to one socket: `EverySocketIsOneTerminal`, and
  `ASocketIsOneTerminal` for one of them as a specification. Each step is one of
  `OneTerminal` for every terminal at once: either it leaves what the node has
  (`ProcsRest`) and moves the attempt in one of the ways `AttemptMoves` lists, or
  it moves the session and leaves the attempt. Beyond `MoshInvariant` that needs
  that a session the hub still owns belongs to an attempt that is being cleaned up
  or was refused, and is not yet confirmed (`OwnedRests`): otherwise a retried
  DELETE could confirm one that is bridged.
- **HostedShellsProofs**: `ShellTypeCorrect`, `ExactlyOneIsActive`, `EverySocketIsTold`,
  `EveryShellIsReachable`, `SizeIsTheWatchers`, for any tree. Closing panes removes a set at once, so "exactly one is active" needs
  that a smallest pane exists (well-founded induction on numbers, as a theorem of
  the library) and that a set handed its first member has one active member.
- **RemoteProofs**: `PartsKeepTheirSpecs`, and from it `RemoteTypeCorrect`,
  `RemoteIsSafe` and `RemoteGoesOn`. No action of a part writes a variable of
  another, so what is proved of each holds of the three together, also under
  `Limits`, which only take steps away.

Only model-checked: that what is due happens in the end (the liveness
properties: fairness and ENABLED) and the five violations. Every other property of
a passing run is stated by a theorem. What a recursive definition computes for
every input is beyond the prover as well; no module here has one. `KeepsWatch` has no core of its own: it
is that the probe in flight runs, which `TypeCorrect` of the health says.

## 7. What is not modelled

- Of the terminals: output and how it is batched, the kill path on other systems,
  the console reaper, what is drawn. The limit on held input counts inputs, not
  bytes; how long a client is given to read before it is ended is left out.
- Of the registry: normalising a record, passwords, entries that do not validate.
- Of health: the local server, host-key trust, back-off times, what a status says.
- Of session protection: a tmux configuration that loads tmux-resurrect itself,
  restoring one session from history, saving with prefix + Ctrl-s (it would
  change `last` behind the panel's back), options, what a session holds.
- Of the link: headers, agents and TLS sessions, the way a body is relayed, the
  time left for a retry (a retry is always possible in time), how ssh is called.
  Several servers: they share nothing but the process.
- Of mosh: the address and the path test, capabilities and versions, limits on
  the number of sessions, other systems than Windows (there the turn is empty).
  A node that restarts forgets its sessions; that is no step of the model.
  **An exemption**: when mosh-server printed CONNECT and the start is given up by its
  time limit (`lib/mosh/server.js:343`), the session counts as never forked and
  what it left is nobody's; the properties on confirmed ends leave out such a
  session by name (`launch = "late"`).
- Of hosted shells: the tmux provider (each call is a command), scrollback, names,
  layout, and sizes but for who decides them. A pane nobody ever watched has no
  time at which it was left and so never expires: no property speaks of it.
  `Attach` leaves out the limit of connections per pane (`basic-terminal.js:82`)
  and that another client's higher focus epoch may keep a new one from deciding
  the size.
- Status monitor, notifications and agent events: overlapping rounds and a
  debounced file; not reached.
- Authentication and shares: cryptography and cookies; left out.
- Workspace service, metrics, managed resources, agent providers, HTTP APIs,
  diagnostics, identity: one request, one command or file; no state over time.
- Plugin kernel and HTTP server: wiring; its effects are events of the models.
- Browser client, relay, desktop and mobile shells: separate programs; what the
  page sends are the inputs of the models.

The modelled files are a small part of the repository by lines: some two thirds
of its source is the page (rendering, editors, previews) and most of the rest
stateless request handlers. The project covers where state lives over time and
several actors meet on it.
