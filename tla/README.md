# A verification of agent-master

agent-master is a daemon that drives the `claude` CLI for several clients (web,
desktop, Android). A client opens a *session*, sends it messages, and each message
starts a *run*: one turn of the CLI, whose events are committed to an append-only
ledger in SQLite, projected into a session list, broadcast over SSE, and rendered by
the daemon into rows that every client displays as they are.

This directory models the parts of it that are hard to test, in TLA+: small instances
are checked by TLC, and the facts that matter most are proved by TLAPS for every value
of the constants. `PROJECT.json` lists the runs, the mutants, the source lines behind
every definition, the hazards, the findings and the theorems.

    tlc -workers 2 -config MCSessionRuns_crash.cfg MCSessionRuns
    tlapm SessionRunsProofs.tla

## Inventory

| component | state | operations | who it talks to |
|---|---|---|---|
| session service, `internal/session/service.go` | `active`: the cancel function of each session's run, under a mutex; the run goroutines | Send, Interrupt, DeleteSession, ReconcileStuckRuns, the run goroutine with its finalizer | store, broadcaster, provider, shell environment's gate |
| event store, `internal/store` | tables sessions, events, runs, recent_sessions, intents; one connection | AppendEvent, DanglingRun(s), EventsTail/Before, FinishRun, PutIntent, the projection updates, DeleteSession | SQLite |
| broadcaster, `internal/session/broadcast.go` | the subscribers of each session and their channels of 256 frames | subscribe, unsubscribe, publish | service, stream endpoint |
| stream endpoint, `internal/server/stream.go` | per connection: last seq written, the events it renders from | replay, live loop, overflow answer | broadcaster, store, render, client |
| render, `internal/render` | none (a fold over events) | Compute | stream endpoint, history endpoint |
| SSE client, `frontend/packages/core/src/sse.ts` | cursor, connection, timer | subscribe, reconnect, unsubscribe | stream endpoint |
| claude run, `internal/provider` | one process tree, its pipes, three goroutines with timers | Run | service, the kernel, claude |
| shell environment, `internal/shellenv` and `cmd/agent-master/main.go` | the published Status, the process environment, the baseline of names in the config file | Resolve, StartHealing, Blocked, rememberShellEnvKeys | login shell, config, service |
| daemon, `cmd/agent-master` | the process | serve: resolve, reconcile, listen, shut down | everything |
| web app's store, sessions, `frontend/apps/web/src/store.ts` | the open session, its snapshot and run state, the seen marks (also in localStorage), the one stream, calls in flight | open, create, rename, delete, send, interrupt, mark seen, overview, reload | stream endpoint, REST, machines half |
| web app's store, machines, `store.ts`, `Rail.tsx`, and the desktop app, `frontend/apps/desktop/src/main.ts` | the list of paired daemons, what each last reported; `secure-store.json` behind IPC | add, edit, remove, reorder, pair link, refresh | REST, main process, keychain |
| lists and overview, `lib/group.ts`, `lib/machineActivity.ts`, `MachineView.tsx`, `Overview.tsx` | none (functions of the store) | group, triage, count, mark | store |
| composer, `components/Composer.tsx` | text and staged images on screen, drafts per session, object URLs | type, attach, remove, switch, leave, send | store |
| conversation, `components/Conversation.tsx` | none (a function of the rows) | fold tools, place footers | store, render |
| npm installer and launcher, `npm/agent-master` | the binary and its download on disk | download, check, replace, spawn | releases, disk |
| models and auth, HTTP server, logging, service manager, web UI server, Android | see `components` in PROJECT.json | | |

What is hard, and what makes each component correct:

* **Session service.** Handlers of several requests, the run goroutine, interrupts and
  deletions interleave; `active` is the only lock, and everything before it
  (the session row, the intent) is read outside it. Every database call can fail and is
  then only logged. The daemon can die between any two calls, and what it left is
  settled by the next one's reconciliation, possibly beside a daemon that still serves.
  Correct: one run at a time; busy exactly while a run is; what is shown as running is
  running; the end of a run is announced once, and its row agrees; a stopped run ends; an
  intent starts one run.
* **Event stream.** Replay and live events overlap, subscriptions overflow, connections
  break, cursors come back from the client. Correct: every committed event once, in
  order; the screen catches up.
* **Render.** Results come late, without ids, or never; runs die without a boundary.
  Correct: rows mean what the events say and agree with the service on what is running.
* **Claude run.** Reading, waiting, cancelling and killing race; descendants hold pipes.
  Correct: nothing is lost of a finished turn; a stopped one stops and returns.
* **Shell environment.** A probe that fails must not let a run use another account.
  Correct: a credential of the baseline is never silently missing; a blocked daemon
  heals by itself.

* **Store, sessions.** Every handler awaits the daemon while the user moves on, deletes or
  removes a machine; late answers, snapshots and navigations meet another screen. Correct:
  what is shown is the open session's; what was seen stays seen; a session left open comes
  to be shown as it is.
* **Store, machines.** Each edit writes the whole list without waiting for the write before;
  writes fail, tear or meet a stop; refreshes of one machine overlap. Correct: no edit is
  lost; the rail comes to show each daemon as it is; a moved machine lands where announced.
* **Lists and overview.** Rail, column, lanes and panel count, sort and mark the same
  sessions in code of their own. Correct: each session once, in order; all say the same.
* **Composer.** Reads of files and sends end after a switch or after the composer is gone.
  Correct: a draft stays with its session; no thumbnail's URL leaks or dies early.
* **Conversation.** Tools fold, errors and queued messages cut exchanges. Correct: each
  settled exchange is marked once, at its end, with its own reply.
* **Installer.** It may die between any two steps, or meet a short or foreign download.
  Correct: what the launcher finds is whole and checked; a clean install recovers.

The `hazards` of PROJECT.json list these at their lines.

## Modules

| module | models | lines of the code |
|---|---|---|
| `Ledger` | the events of a session as a sequence, with the store's queries | `store/queries.go` |
| `SessionRuns` | Send, runProvider, Interrupt, DeleteSession, ReconcileStuckRuns, deaths | `session/service.go` over `store`, `main.go` |
| `SessionActivity` | abstract: a session shows one run after another | refined by `SessionRuns` |
| `EventStream` | commit's publish, broadcaster, handleStream, SseClient | `broadcast.go`, `stream.go`, `sse.ts` |
| `EventFeed` | abstract: a feed delivers each event once and in order, eventually | refined by `EventStream` |
| `Render` | render.Compute as a state machine over events | `render.go` |
| `ClaudeRun` | one turn of the CLI with its processes and goroutines | `claude.go`, `claude_proc_unix.go` |
| `ShellEnv` | probes, gate, baseline, healing, over starts | `shellenv.go`, `main.go` |
| `SessionView` | the session half of the web store | `store.ts`, `App.tsx`, `storage.ts`, `status.ts`, `sse.ts` |
| `MachineList` | the machine half, the rail's moves, the desktop's secure store | `store.ts`, `Rail.tsx`, `machineOrder.ts`, `main.ts`, `ConnectionSetup.tsx` |
| `SessionLists` | what is shown of the listed sessions, as operators | `group.ts`, `MachineView.tsx`, `Overview.tsx`, `machineActivity.ts` |
| `Composer` | drafts, images and sends | `Composer.tsx`, `composerSend.ts` |
| `ModelControls` | the model and effort shown and sent, and the menu, as operators | `modelControls.ts`, `Composer.tsx`, `SelectMenu.tsx`, `selectMenuPosition.ts` |
| `Conversation` | the feed and its footers, over `Render`'s rows | `Conversation.tsx` |
| `NpmInstall` | postinstall and launcher | `install.js`, `release.js`, `bin/agent-master.js` |
| `SessionRunsProofs` | theorems about `SessionRuns` and `Ledger`, and the refinement of `SessionActivity` | |
| `EventStreamProofs` | theorems about `EventStream`, and the refinement of `EventFeed` | |
| `HostProofs` | theorems about `ClaudeRun` and `ShellEnv` | |
| `ComposerProofs` | theorems about `Composer` and `ModelControls` | |
| `RenderProofs` | theorems about `Render` and `Conversation` | |
| `MachineListProofs` | theorems about `MachineList` and `SessionLists` | |
| `SessionViewProofs`, `NpmInstallProofs` | theorems about the module each is named after | |
| `MC*` | instances for TLC | |

`Ledger` is shared: `SessionRuns`, `EventStream` and `Render` extend it, so that "the run
the ledger's tail shows" is one definition (`DanglingRuns`) for the service's query and
for the reducer's tail.

Definitions whose comment starts with *Mutant* are plausible bugs of the definition after
them. They are part of no specification; `mutants` in PROJECT.json pairs each with the
property that must fail when it replaces the original.

### SessionRuns

One session suffices: sessions share only the mutex. `pc` names the next step of each
process: a request (its Send handler and then the goroutine of the run it starts; the
run has the request's name), a caller of Interrupt or DeleteSession, and `Boot`, the
process that starts. One action is one database call (the store has a single
connection), one critical section of the mutex, or one call to the provider. The
database variables are the tables; `active`, `cancelled` and `pc` are the daemon's
memory and are lost by `Crash`. `commit` is two calls, AppendEvent and the projection of
the seq, so `pend[p]` is the seq between them; the broadcast that follows belongs to
`EventStream`.

* *Failures.* Every write goes through `Write`, which may instead fail and change
  nothing, as in the code, which logs and continues. Reads whose failure the code takes
  for "nothing there" (intent, dangling run, running rows) have the same alternative.
  A failed GetSession is the answer `not_found`.
* *Data.* Titles, texts, payloads and usage are left out. What a run adds to the
  transcript is one kind of event, `output`. The native session id is the name of the
  run that created the conversation.
* *Deaths.* `Crash` keeps the tables and loses the rest; requests under way become
  `lost`. `BootCrash` is a death inside reconciliation. `BootStart` with `up` is a second
  `serve`, which reconciles before it finds the port taken.
* *The provider* may return any outcome at any time, except that only a cancelled run
  comes back as interrupted. That is `ClaudeRun`'s `Return`.

### EventStream

An event is its seq. `Writers` commit in the two steps AppendEvent and Publish, so that
two of them can publish in the other order. Each client has one connection at a time:
`handler`, `after` and `events` are the locals of handleStream, `wire` what is written and
not received, `sub` and `chan` the subscription. `Break` loses the wire, `Crash` the
daemon's side only. Token deltas are frames without effect that fill channels.

### Render

One action per case of Compute's switch; what Compute would return if the events ended
here is `RenderState`. `StatusOf` says what a tool's row should show, from the events
alone and without the reducer's bookkeeping.

### ClaudeRun

Time is abstracted to the order the delays impose: SIGKILL to the group comes after
SIGINT (`killer`), exec's WaitDelay and the backstop after that. Lines are counted; the
pipe has a capacity; a line may exceed the scanner's limit. Descendants are grouped or
detached. A pid can be reused once the process is reaped and its group empty. This is
the Unix build; Windows has no group kill and is not modelled.

### ShellEnv

`shell` is what the login shell exports, `env` the process environment, `saved` the
baseline in the config file. The main goroutine probes once, then the heal goroutine
probes while runs are blocked. Two variables are history: `relied`, the credentials a daemon
ever had from the shell when nothing was missing, and `agreed`, those that the last such probe
set itself, which is all that the code remembers.

### SessionView

The page is single threaded, so an action is what runs between two awaits, and every
answer is an action of its own. `calls` are the API calls in flight (`Slots` of them),
`gets` the getSession calls, which are started by every opening and so are kept as a set;
`stream` is the state of each session's SSE connection. The daemon's half is external: a
session's log is its newest seq, a run commits two events, and so a run is active while
the seq is odd; that stands for runs that interrupts and other clients end. What the
lists of the machines say is `MachineList`'s matter: opening a session may find any
lastSeq it ever had in the cached list, and one that is deleted stays listed as long as that
likes. `dropped` is history: the sessions whose deletion was answered. `removing` are
machines whose removal awaits its save. addMachine's openMachine after its awaits is
OpenMachine at any time, of any machine, also one that was removed meanwhile. Left out: the
error banner, streamStatus, when the catalogue of models is asked for. One tab, in the browser.

### MachineList

The desktop build, where the store is behind IPC. `sets` and `replies` are the two queues
of secure-store calls; Electron delivers them in order and each handler reads, encodes and
writes without an await, which is why they are handled one at a time. `disk` holds a list
with its version, or a torn file. `flights` are the refreshes, each at the await it is at.
A token stands for the editable part of a machine (name and token), and the store has the
one key that matters. The form's busy flag is not modelled, since a pair link may add a
machine at any time. Closing the window on macOS, where the main process lives on, is
covered: calls sent before are handled before the next page's read. Which machine is
active is SessionView's.

### SessionLists

Operators over a list of sessions and over a board of machines, written as the components
compute them, and properties of them. A date is a number of quarters of a day since
the last midnight, `Now` the time of day; there is no daylight saving. Dates are numbers
where the client buckets parsed dates and sorts strings: those order as their dates do, but
for two within one second, whose fractions lost their trailing zeros (store/queries.go:50).
The daemon writes no date that does not parse, so timeBucket's branch for one (group.ts:30)
is left out. Whether a session
matches the query and has a preview are fields of it. `Sorted` is a stable sort, said
without an algorithm: each place is where its rank puts it. A group is sorted where the
code appends to it and sorts it afterwards, which a stable sort cannot tell apart.
`Lists` and `Boards` are what daemons may list, with session ids that are unique, as the
daemon's are; TLC evaluates ColumnsAreWhole and AllSignalsAgree in the start state of
`machines`, over every list and board that MCMachineList names. In the mode `created` a group
is sorted by creation, as the code does and its comment does not say (below).

### Composer

`frame` is what the last render had: the text, the images (imagesRef) and the pick that a
handler sees, not the newest state. Opening a session changes the state and not the frame; the
`Render` that follows is an action of its own, and a file may be staged, or a message sent, in
between. AddFiles attaches a batch, whose files are read one after the other, each with its URL
from then on (`reads`), and staged together after the last (`Stage`). An unmounted composer
keeps the refs it had (`refs`). `home` is history: the session each image was attached in.
`clashes` records the four races the code does not guard (below, "What the code does not
guarantee"); the properties are claimed where none was met. `pick` says only whose model and
effort are picked; what they are is `ModelControls`'s.

### ModelControls

Functions of the catalogue a daemon offers and of what was picked so far: what the two menus
show (modelControlState and SelectMenu's selected option), what each key and pick does, and
what submit sends. `Reached` is every choice some picks, switches and records lead to.
Efforts are those of the composer's list, which claude_models.go keeps to, and a record is
one of the same catalogue. Pixels are integers. `Catalogues` and `Menus` are what may be
offered. PicksAreSent evaluates SentIsShown and MenuReachesAll in the start state of
`composer`, over all catalogues of up to three models with two efforts, four picks deep
(`MaxPicks`), and all menus of three options.

### Conversation

Extends `Render`: `Feed` is groupRows and `TurnFooters` the walk over it, both functions of
the snapshot. `Feed` gives each item as the place of its first row; the footers are a map from
`ItemId`, as in the code: a tool's id is the provider's call id (render.go:105-110), which may
come again, and then one entry replaces another and both groups show it. A call without an id
has the seq's, as rows of other kinds do; that a provider's id looks like one of those (`t3`,
`a5`) is left out, and so is what React does with two children of one key. What the footers
should be is stated over the rows: of exchanges whose items share no id (`Unshared`), that
they are marked once, rightly; of any footer, that it copies the last reply of a settled
exchange with its id.

### NpmInstall

`step` names the await that installBinary is at; a file is the release its bytes are of,
whether they are whole, and its mode. A digest tells any two contents apart. `Fails` is a
failure or a death at any step. One install at a time.

## Runs

All passing runs visit their complete state spaces; `composer` stops at the first race (below).
`CHECK_DEADLOCK FALSE` is set where calls, events, starts, lines or edits are bounded and the
system then rests; `view`, `composer` and `install` check deadlock.

| run | instance | time | what it shows |
|---|---|---|---|
| `crash` | 2 requests with one intent, one override each, an image; 1 transcript event per run; 2 deaths, 1 failed call | 40 s | OneOwner, DanglingRunIsLive, RunningRowIsLive, RunsDoNotInterleave, RunEndsOnce |
| `live` | 2 requests, 1 deletion (an interrupt first), 1 death | 60 s | LastSeqExact, ListedRunIsLive, ShowsOneRun (refinement), CancelledRunEnds, DeadRunSettles |
| `feed` | 1 writer, 1 client, 3 events, window 3, channel 1, 1 delta, 1 break, 1 death | 4 s | ViewHasNoHoles, DeliversEveryEvent (refinement with liveness) |
| `race` | 2 writers, window 2, channel 1, 3 events, 1 break, 1 death, 1 failed read | 25 s | DeliveredInOrder, ViewCatchesUp |
| `rows` | all sequences of 5 events, 2 tool ids and none | 120 s | FootersMarkExchanges, TailAgreesWithDanglingRun, RowsMeanEvents, RowsOnlySettle |
| `env` | 2 credentials, 3 starts, 2 edits, 1 failed save | 15 s | BaselineBlocks, GateClosedWhileImporting, BlockedHeals |
| `turn` | 2 turns on 1 pid, 1 line, pipe of 1, both kinds of descendants | 80 s | DoneIsComplete, CancelledRunReturns, EndedTurnReturns |
| `view` | 2 machines, a session with 2 events and one to be created, 1 call in flight, 1 removal, 2 openings or breaks | 200 s | ShownIsOpenSession, NothingSeenIsAttention, DeletedIsForgotten, OpenSessionHasMachine, CatchesUp |
| `machines` | 1 machine listed and another address, 2 edits, 2 refreshes in flight, 1 upset; lists and boards below | 170 s | DiskIsShown, SavedListSurvives, AnnouncedPlaceIsRight, ListCatchesUp; ColumnsAreWhole, AllSignalsAgree |
| `composer` | 2 sessions, 2 images, 1 text, 1 leave, up to the first race; catalogues and menus below | 30 s | DraftsAreKept, UrlsReleased, PicksAreSent |
| `install` | 2 versions, 4 installs, 3 faults | 2 s | BinaryIsWhole, CleanInstallSucceeds |
| `v_intent` | 2 sends of one intent | 2 s | the finding below |

Why the bounds are enough. Two requests are every race for `active`: a third can only be busy or
follow. One caller is enough for an interrupt against a send, its finalizer and its successor;
the deletion of `live` performs the whole interrupt first and may then stop for as long as it
likes, so plain interrupts are among its behaviours. Two deaths put one inside the recovery of
the other. Three events are a replay, an overlap and a live event; a channel of one overflows at
once. Five events are a call, a boundary, a late result, a reopened id and one more. Three
starts are a baseline, a change of it and a start that relies on it; a third variable that
selects no account was tried once, and adds only time. A second turn on the same pid is the
reuse that a late SIGKILL can meet. In `view`, two sessions on two machines are every pair of a
late answer and another screen; one mutating call is in flight beside any number of getSession
calls and the stream, and the theorems hold for any number. A run of two events is a snapshot
while it runs and one after. Two openings or breaks are a break of the stream that an opening of
another session overtakes; three were run once without CatchesUp, to the same result (1.8
million states). In `machines`, two edits are a save that overtakes another, and two flights an
older refresh that ends after a newer one; an upset is a failed or torn write, a stop, a daemon
that changes or an opened machine. Lists have at most two machines there, which is every move of
one past another; DropLandsWhereAnnounced and KeyLandsWhereAnnounced prove the rest.
ColumnsAreWhole takes all lists of up to two sessions at both sides of every boundary of
timeBucket, and of three in two directories; AllSignalsAgree every session on one machine and
every pair of working ones on one or two. In `composer` one leave is an await that ends in a
composer that is gone, or after another was mounted; two leaves were run once, to the same
result (3.9 million states, 4.5 minutes). Its constraint `NoRaceYet` expands no state in which a
race was met: `clashes` only grows, and the properties claim nothing from there on. Four
installs are an install, a broken one, a retry and another version.

Restrictions, each because the code breaks the property without it:

* RunsDoNotInterleave and RunEndsOnce are checked without interrupts: the race of an interrupt
  with a send, below, breaks both.
* RunEndsOnce lets the row of a run that died with its daemon say interrupted whatever the
  ledger says of it: InterruptedInLedger has no such exception, and is false (below).
* NothingSeenIsAttention excepts sessions the user deleted, which are flagged until a refresh
  drops them (below).
* Properties of the ledger's tail are guarded by `faults = 0 /\ duplicates = 0`; a failed
  append leaves the tail unsettled, and nothing retries it. OneOwner is not guarded.
* DeliversEveryEvent takes one writer and a window that holds every event (two writers and
  the window are below); the guarantees that survive both are `race`'s.
* BaselineBlocks speaks of the last good probe's credentials; of all a shell ever gave it is
  false (below). `env` starts with an empty environment, as under launchd and systemd;
  the theorem allows any.
* `MaxDuplicates` is 0 in every run, since a second serve doubles the state space; it is
  in the theorems, which do not bound it.

### Fairness

* `SessionRuns`: weak fairness of every process under way, and of the start of a daemon
  that died (the service manager's KeepAlive). No fairness for the provider, which may
  run forever, unless its context is cancelled: then `ClaudeRun`'s CancelledRunReturns
  says it returns. Clients need not call.
* `EventStream`: weak fairness of handlers, publishes, the client's timer and the restart.
  Breaks, deaths and failed reads are bounded and need not happen, nor need commits.
* `ShellEnv`: weak fairness of the goroutines, and strong fairness of a successful probe: the heal
  loop repeats it with escalating time limits, so a shell that works answers in time.
* `ClaudeRun`: weak fairness of the daemon's goroutines and timers only.

* `SessionView`: weak fairness of each session's stream (connecting, the reconnect timer,
  the snapshots the daemon sends); nothing is asked of the user or of other calls.
* `MachineList`: weak fairness of the main process, of its answers, of init, of the poll's
  interval and of every refresh, which is answered, fails or times out.
* `NpmInstall`: weak fairness of the requests and the calls on the disk.
* `Composer` and `Render` state no liveness.

## Findings

* `v_intent` (OneRunPerIntent): two sends of one intent can start two runs; the intent is
  looked up before `active` is taken and stored after (service.go:188 against
  docs/API.md:83).

### What the code does not guarantee

Found with TLC while the modules were written, on instances like the above with the
property given here; no run is kept for them. The properties named are defined in the modules.

In the daemon:

* *A repeated intent may be answered with a run that never was*: a death after PutIntent and
  before CreateRun leaves the intent, every retry is answered with it, and the message is
  lost (RepliedRunExists with a death, service.go:222).
* *The row of a run that ended may say otherwise than the ledger*: a daemon dies after
  run_finished(done) is committed and before FinishRun. The next one's first pass finds nothing
  dangling, its second writes interrupted into the row and the list, and no commit follows
  (service.go:456), although "every running row is by definition an orphan" and "Each orphan
  gets a committed run_finished(interrupted)" (service.go:421-424): InterruptedInLedger, with
  one request and one death. RunEndsOnce says what does hold: the end is announced once, and
  only the rows of runs that died differ from it.
* *An interrupt may finalize a live run*: it decides under the mutex that nothing runs and
  finalizes after releasing it; a send in between has its run finalized, and the end of an
  earlier run may follow the start of a later one (OnlyOrphansFinalized with a caller,
  service.go:308).
* *Two commits may be published in the other order*; the stream drops the earlier event and
  its cursor passes it, so no reconnect recovers it (NothingSkipped with two writers,
  stream.go:125, against docs/API.md:99).
* *A heal probe replaces the baseline by what it set itself*: a credential that the same daemon
  had from an earlier probe drops out, and may then go missing in a later start unnoticed
  (MissingCredentialBlocks on the instance of `env`, shellenv.go:287 and main.go:257, against
  shellenv.go:34).
* *A native id may be forgotten.* Send reads the session row before it takes `active`; a run
  that waited there starts a new conversation over the one just begun
  (`pc[r] = "provider" => seen[r].native = sess.native`, service.go:385).
* *A model override may be undone* by a send with only an effort, which writes back the
  model it read at its start (service.go:202).
* *A deleted session may come back in part*: the run that DeleteSession cancelled commits its
  run_finished after the rows are gone (`sess = None => ledger = <<>>`, service.go:113).
  ShowsOneRun looks at the run that is shown, which the late event does not change.
* *A dead run may stay in the session list*: after a death between FinishRun and
  touchRecent neither pass of reconciliation sees it (ListedRunIsLive without
  `crashes = 0`, service.go:374).
* *A second serve finalizes the first one's live run* before it finds the port taken
  (OnlyOrphansFinalized with `MaxDuplicates = 1`, main.go:183).
* *run_finished is broadcast before the runs row is settled*, against docs/DESIGN.md:121
  (service.go:368).
* *An old cursor resumes with a gap*, and *a run longer than the window looks idle*: the
  replay reads the newest 2000 events whatever the cursor is (NothingSkipped with
  `RenderCap < MaxEvents`, stream.go:85). The same gap follows a failed read of the tail: live
  events carry the cursor past what was never replayed. DeliveredInOrder and ViewCatchesUp allow
  gaps.
* *A terminal start forgets the baseline*: a daemon that inherited the credentials imports
  nothing and saves the empty list (main.go:257); *a blank credential counts as present*
  when the gate is decided (shellenv.go:318).
* *A descendant that keeps stdout open holds a finished turn up* until somebody cancels it
  (`claude[r] = "ok" ~> pc[r] = "returned"`, claude.go:101), and *the delayed SIGKILL may
  reach another group* that got the id within the grace (claude_proc_unix.go:30).

In the clients (none of it breaks a property above, each of which is stated around it):

* *Four races lose or mix drafts, or leak a URL* (`Composer`'s `clashes`). "stale render": two
  reads of files, or a read and a removal, that end before React renders, so that the second
  works on the images of the first one's past (Composer.tsx:175; the comment above it claims
  otherwise), and likewise a file staged, or a key pressed, between the switch of a session and
  the render of its drafts (101-105), which takes the other session's images, text or pick
  along. "moved": a file whose read ends after a switch is staged, and parked, in the session
  switched to (175-177). "unmounted": a read or a send that ends after the composer is gone
  (177, 221-222). "typed over": a send that fails after a new draft was typed, and replaces it.
  ImagesStayInSession says of "moved" what the comment promises, "Per-session staged-image
  drafts" (Composer.tsx:34), on the instance of `composer` without its constraint.
* *A failed send that did arrive is sent twice*: each attempt has an intent of its own
  (store.ts:526), so the daemon's idempotency never applies to the web client.
* *A late getSession overrides a model just picked* in a session just opened
  (Composer.tsx:120-128).
* *An effort may be sent that no menu shows* where a session's record names a model its
  daemon no longer lists: the menus fall back to the default model and effort, the effort of
  the record is sent (Composer.tsx:125, 214). PicksAreSent leaves such records out.
* *secure-store.json is written in place* (main.ts:60): a file cut short is read as an empty
  list, and so is an encrypted one while the keychain is gone; the next save makes it final.
  SavedListSurvives speaks of files that were written whole.
* *Pair links are dropped* when no window is open, or before the page listens
  (main.ts:149-155, 326); `PairLink` has the guard.
* *A machine removed while its removal is saved keeps its session open*, for good if the save
  fails (store.ts:295), which OpenSessionHasMachine allows.
* *The run state of the session before is shown* until the first snapshot of the one just
  opened: openSession does not reset runActive (store.ts:405-422). CatchesUp says it ends.
* *Marks of two tabs overwrite each other* (storage.ts:77).
* *A deleted session is flagged as new* between the answer of its deletion, which drops its
  mark, and the refresh that drops it from the list; for as long as the machine cannot be
  reached, if that refresh fails (store.ts:496-506).
* *Grouped by creation, a group is sorted by creation* (group.ts:79-81), though the comment says
  "sessions inside each group are newest-updated first" (group.ts:41-42):
  GroupsNewestUpdatedFirst, on the lists of `machines`. ColumnsAreWhole states the order the
  code has.
* *Tools with one id share a footer*: where the provider repeats a call id in a later exchange,
  the later footer replaces the earlier one, and both groups show it (Conversation.tsx:80-97,
  212-219; `\A i \in DOMAIN RenderState.rows : MarkedRightly(Exchange(i))`).
* *A trailing error row drops the footer* of its exchange, though the comment says each
  settled exchange is marked (Conversation.tsx:73); FootersMarkExchanges exempts it.
* *"All machines can run"* heads the panel while some are not probed yet (Overview.tsx:364);
  AllSignalsAgree allows faint dots there. *The column is blank* while a refresh runs if a
  query matches nothing (MachineView.tsx:225-232).
* *Listing another machine's directories late* shows them under the one chosen meanwhile
  (NewSessionModal.tsx:48); the dialogs are not modelled.

In the installer: a death between rm and rename leaves no binary until the next install
(install.js:57), and two installs at once share one download file.

## Proofs

The theorems hold for every value of the constants: any sets of requests, callers, clients,
sessions, machines and so on, and any bounds. They assume the named ASSUMEs (disjoint process
names, numeric bounds, `None` not a name of anything), which TLC evaluates in every run, and
the hypotheses named here, each of them because the property is false without it.

### The session service (`SessionRunsProofs`)

* `TypeCorrect`: `[]TypeOK`. Beside the types, TypeOK has `Holdings`: a process at a step
  that uses its copy of the session row, an outcome or a target has one. Without it the
  types are not inductive.
* `OneOwnerHolds`: `[]OneOwner`, with failed calls, deaths and second serves. Inductive with
  TypeOK: `active` changes only where `pc` enters or leaves `Owning`.
* `LiveInvHolds` and `DanglingRunIsLiveHolds`: the run the ledger's tail shows is live.
  DanglingRunIsLive is not inductive: nothing in it says why the tail of a daemon that just
  started is settled. `LiveInv` follows the dangling run through its life: `Quiet` says that
  no request is under way while the daemon is down, so nothing can begin a run then;
  `Settled` that in a serving daemon a dangling run is at a step between its two boundaries,
  and that nothing dangles once a starting process is past reconciliation's first pass.
* `RunningRowIsLiveHolds`: the same for the runs table. `RowsSettled` needs one more fact:
  when the second pass has listed the running rows, no other row is or can become running.
* `TerminalRowStays` and `RunsStaySequential`, for `Callers = {}`: a terminal row is not written
  again, and the ledger is one whole run after another. `RowsAhead` says that whoever is about to
  finish a row finds it running: the run itself, the first pass, which works on the run the
  tail shows, and the second. `LedgerSequential` says of every run_started that its run ended
  later or is the one the tail shows; the commits are then those of that run alone.
* `RunsEndOnce`, for `Callers = {}`: one run_finished for each run, and a row that agrees with it
  unless the run died with its daemon. `EndInv` says that whoever is about to announce an end
  (the run, or the first pass) finds none, that whoever writes it has announced it, and that
  the rows the second pass writes are of runs that died.
* `ListedRunIsLiveHolds`: `Listed` says at which steps a run is while the list names it.
* `LastSeqExactHolds`: while the projection is behind the ledger, the commit of the last event
  is under way (`TailIsUnderWay`); MAX keeps that true in whichever order commits project.
* `SessionShowsOneRun`: `Spec /\ []Undisturbed => ShowsOneRun`, that SessionRuns implements
  SessionActivity. `Undisturbed` is `faults = 0 /\ duplicates = 0`: a failed append shows a run
  that is gone. Deaths, interrupts and deletions are in it. A step maps to Begin, to End or to
  a stutter; that a run begins only once rests on `NotBegun`.
* `PagesCoverHistory`: following a session's history backwards, each page asked for before
  the oldest event of the last, skips and repeats nothing, and hasMore is false only when
  nothing is left. Sequence numbers are positions of the ledger: AppendEvent gives them out
  without gaps in one transaction, and a session is deleted with all its events.

The properties themselves say for which states they speak (no failed call, no second serve,
for the session list no death); Restrictions, above, says why.

### The event stream (`EventStreamProofs`)

* `EventsComeInOrder`: nothing is delivered twice or out of order, whoever commits, whatever
  breaks. The invariant orders what a client has, what is on the wire to it and the handler's
  cursor, at or below which the handler writes nothing; the channel itself may be out of order.
* `ScreenHasNoHoles`, for `OneWriter` (at most one process commits): what is published is then
  a prefix of the ledger, the channel holds a run of seqs that ends there, and replay and
  channel overlap or meet.
* `StreamFollowsFeed`, for `OneWriter` and `WholeTail` (no failed read, and a window that holds
  every event): each step of the stream is a step of EventFeed or a stutter. That EventFeed's
  fairness is kept as well is for TLC (DeliversEveryEvent).

The rows of a replay are read with `InOrder`, which says what an ordered enumeration is rather
than how to sort; its lemma is that an interval comes out as itself.

### The reducer (`RenderProofs`)

* `RenderTypeCorrect`, `TailAgrees`, `RowsSettle`: the reducer never indexes a row that is
  not a tool's, its tail agrees with DanglingRun, and a snapshot only settles the one
  before, for every sequence of events. TailAgrees rests on `TailInv` (runActive is what
  the tail says), RowsSettle on the types, by which open rows are rows of tools.
* `RowsSayWhatHappened`: every row shows what the events alone imply of its tool. `MeanInv` ties
  the reducer's two maps to the events: an id's entry is the last call with that id, and a
  row is open exactly while no boundary came after its call.

* `FeedMarksExchanges` (Conversation): for every snapshot, each settled exchange whose items
  share no id with others is marked once, with its last reply, below all else it shows; and
  where ids repeat, every footer is the last reply of a settled exchange with that id.
  `FeedFacts` says what groupRows returns: the rows that do not fold, in order. `WalkFacts` says
  what turnFooters knows after each item: the anchor is the last item walked, the reply the last
  one since the user's message, and the marks are those of the exchanges that ended, each under
  the id of its last item unless a later one with that id ended. Both are loops, and the
  argument is the same for each loop of the proofs: it has states (`LoopStates`), and the least
  state in which the claim fails is neither the first nor the one after a state in which it
  holds.

### The host (`HostProofs`)

* `DoneStaysComplete`, `StoppedGroupStaysGone` (ClaudeRun): the invariant says what each label
  of a turn implies of claude and of the pipe (once the scanner found the end of the
  file claude is gone and the pipe stays empty), and that a killer that fired left nothing of
  its group.
* `BaselineStaysGuarded`, `GateStaysClosed` (ShellEnv): from the end of the first
  probe on, the published status names every credential of the baseline that the environment
  lacks (`LacksAreMissing`). This is inductive because a prober measures against the baseline in
  memory until it replaces it (`MeasuresBaseline`), what it imports is present
  (`ImportsArePresent`), the heal loop works only while runs are refused, and file and memory
  agree until a save fails.

### The clients and the installer

* `ShownStaysOpenSession`, `OpenSessionKeepsMachine`, `SeenIsNotAttention`,
  `DeletedStaysForgotten` (SessionView): one inductive invariant. Beside the types of logs and
  calls it has `MarksAgree`: the saved marks are those of the store and reach what was looked
  at, without which a reload could lower one; and that only the open session has a stream,
  without which a stream left behind could answer. `Forgotten` says that a session whose
  deletion was answered is gone in its daemon and has no snapshot stored, so no stream of it
  delivers one again.
* `DiskStaysShown`, `SavedListStays` (MachineList): the last queued save carries the list on
  screen, and the versions ascend from the answered ones over the disk to the queue
  (`LastSaveIsShown`, `Versions`). `DropLandsWhereAnnounced`, `KeyLandsWhereAnnounced`:
  for lists of any length, what reorderMachines does is what the rail computed before it.
  `AnnouncedPlaceStaysRight` puts them to use in every reachable state, where the machines of
  a list have ids and addresses of their own.
* `ColumnsStayWhole` and `SignalsStayAgreed` (SessionLists): for lists and boards of any size.
  Both rest on `RankedFacts`, that sorting by rank has each place once and in order: the rank
  is an injection into as many numbers as there are places, hence a bijection. A column
  reads in order across its groups because a later date is in no later bucket
  (`BucketFacts`), and shows each session once because each key has one first place. The
  lanes are as long as the badges add up to because a machine's count is that of its places
  in the lane (`CountFacts`, `SumFacts`).
* `DraftsStayKept`, `UrlsStayReleased` (Composer): DraftsAreKept, which says of every image where
  it was attached, is inductive with the types of what an unmounted composer left behind: a
  handler works on the last render, and where that is not the newest state a race is recorded
  (`StageRemembers`). For UrlsReleased the invariant (`Apart`) says that an image is in one place
  only: left to be read, waiting for the files attached with it, staged, or being sent.
* `MenuStaysOnScreen`, `MenuClearsTrigger` (ModelControls): where positionSelectMenu puts a
  menu, for any sizes. The composer's menus ask for the top and never flip, so they clear
  their trigger only with room above it.
* `PicksStaySent` (ModelControls): whatever was picked fits the catalogue (`ReachedFits`), and of
  what fits, the menus show what is sent (`FitsIsShown`). An arrow takes the next option that
  can be chosen (`ArrowFacts`), so that n of them pass all of those in a menu of n
  (`ToursReachAll`): the first one not yet passed is where the arrow goes from the one before.
* `BinaryStaysWhole` (NpmInstall): the invariant follows the download from the comparison
  over the write and chmod to the rename.

### What is not proved

TypeOK of SessionRuns, TerminalRowIsFinal, StoppedGroupIsGone and the positions of menus are
proved and in no run. Every invariant the
passing runs check has a theorem, and so has every action property and the safety half of
both refinements. Only model-checked is liveness, with the fairness parts of the refinements
(CancelledRunEnds, DeadRunSettles, DeliversEveryEvent, ViewCatchesUp, BlockedHeals,
CancelledRunReturns, EndedTurnReturns, CatchesUp, ListCatchesUp, CleanInstallSucceeds): out of
the prover's reach, like ENABLED. Induction over data is too; what folds and loops compute
is proved by least counterexamples instead, for which the functions are written over numbers
of steps. No module declares a RECURSIVE operator.

## Not modelled

* REST decoding, authentication and CORS (stateless around the modelled calls); titles and
  renames in the daemon; the schema; how the CLI's messages map to events.
* The web app's markup, dialogs and Markdown; the Electron window, its menu and protocol handler.
* The daemon's log rotation (a failed rotation loses only log lines), its cached catalogue
  of models (concurrent fetches may leave the older of two valid answers), the service
  manager (commands of the system) and the embedded web server.
* The Android clients. Their SseClient reconnects twice on a reconnect frame, since
  cancelling the source also calls onFailure (SseClient.kt:174).

## Plan

Done: Ledger, SessionRuns (with SessionActivity), EventStream (with EventFeed), Render,
ClaudeRun, ShellEnv, SessionView, MachineList, SessionLists, Composer, ModelControls,
Conversation, NpmInstall, and theorems of each. In order:

1. `AndroidSse`: the Kotlin SseClient, to refine EventFeed as EventStream does.
2. A composition of SessionRuns and EventStream, so that what is broadcast is what the runs
   commit, of EventStream and SessionView, so that snapshots are those of the stream, and of
   SessionRuns and ClaudeRun, so that CancelledRunReturns replaces the fairness of a
   cancelled provider.
3. `RollingLog`, `ModelsCache`, `ServiceLifecycle`.
4. Proofs: an order of the ledger that survives interrupts (what RunsDoNotInterleave and
   RunEndsOnce become when a caller may finalize a live run).
