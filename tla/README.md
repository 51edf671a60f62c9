# Minecraft Container Manager: specifications

TLA+ models of the panel's core (`src/internal/...`, Go) and of the pages of its browser
client that edit a server's files (`src/web/src/...`, TypeScript), the TLC runs that
check them on small instances and TLAPS proofs for every instance. Paths below are
relative to the repository unless they start with a module name.

- [System](#system) - its parts, their state, what is hard about them
- [Modules](#modules) - which module models what, and how to read it against the code
- [Runs](#runs) - what each run asks, its bounds and its fairness
- [Proofs](#proofs) - what holds for every value of the constants, and why
- [Where the code and its documentation disagree](#where-the-code-and-its-documentation-disagree)
- [What is not modelled](#what-is-not-modelled) and the [plan](#plan)

## System

The panel is one Go process. It serves an HTTP API to the browser, keeps its records
in SQLite (one connection, so that a statement is atomic and a transaction excludes
every other), drives Docker or Podman, and runs background loops: the status monitor,
the task scheduler and the retention sweep. Minecraft servers are containers named
`mcm-<id>` over a data directory each.

| Part | State it keeps | Operations | What it calls, who calls it |
|---|---|---|---|
| Server lifecycle (`servers/servers.go`, `commands.go`, `runtime_install.go`) | row of `servers` (state, container id, start time), lifecycle mutex per server | create, start, stop, kill, restart, recreate, update, delete, install, console, command | the runtime, the ports, the notifier; called by requests, the scheduler, backups |
| Status monitor (`servers/notifications.go`, `Status`) | none but the row | one status check of every server every 5 s, one per browser poll | compares and sets the row, sends the notifications |
| World lock (`servers/worlds.go`, `nbt.go`, `storage_operation.go`) | a read/write lock per server, the active task entry | shared for a start, exclusive for whoever reads or replaces files | taken by installation, backup, restore, edits |
| Modpacks (`servers/modpack.go`, `api/modpack.go`) | the data directory, a task entry | install, uninstall | stop, publish of staged files, removal of the container |
| Task scheduler (`schedules/`) | rows of `scheduled_tasks`, the set `running`, worker goroutines | poll every 5 s, claim, run a chain of actions, recover after a crash; create, update, enable, delete by request | calls start, stop, restart, backup |
| Backups (`backups/`) | rows of `backups` and `backup_policies`, archives on disk or S3, a lock per server and two slots, `.mcm-recovery-*` copies | backup, upload, restore, trash, recover, protect, purge, policy, sweep | `WithStoppedData` of the servers, notifications |
| Container runtime (`docker/`) | containers, outside the panel | create, start, stop, kill, remove, inspect, console | ends containers on its own |
| Panel process (`cmd/mcm/main.go`) | - | start, orderly stop (scheduler drained), crash | starts every loop |
| Ports (`ports/`, `portConfigMu`) | table of reservations | check, reserve, release | lifecycle |
| Publication (`storage/publish.go`) | staged tree, backup of what it replaces | publish, roll back | installation, modpacks |
| Panel update (`panelupdate/`) | job file shared with a worker process | start, poll, report | replaces the panel |
| Sessions and login limiter (`auth/`, `api/ratelimit.go`) | sessions, attempts per address and account | log in, log out, revoke | requests |
| Mods and checks for updates (`api/mods.go`, `servers/updates.go`) | the jars, a cache per server and target version, the checks under way | list, download, update, toggle, delete; check, upgrade in a batch | the catalogues; called by the next two rows |
| Files and configuration (`servers/files.go`, `nbt.go`, `props.go`) | the files, a mutex per server for the two editors | list, read, write with or without a revision, archive, rename, delete | called by the Files tab and the configuration editors |

The browser client is one React application. A component keeps its state in hooks; a
handler is an asynchronous function that sees, over all its awaits, the values of the
render that created it.

| Page (`web/src/components/`) | State it keeps | Operations | What it calls |
|---|---|---|---|
| Catalogue search (`*-browser.tsx`) | filters, debounce timer, offset, list, flags of the requests in flight | type, choose, page by button or by scrolling, refresh, switch, store a key | the catalogues through `api/rate-limited-fetch.ts`, which joins requests of one URL |
| Catalogue installation (same files, `mod-update-dialog.tsx`, `mod-dependencies-dialog.tsx`) | the prompts, what spins, what this browser installed | install, one-click, replace, keep both, with dependencies, delete | the API, the list of the mods page |
| Mods page (`mods-panel.tsx`, `version-update-helper.tsx`, `mod-jar-picker-dialog.tsx`) | the list, the updates, the report of a target version | toggle, upload, delete, update one or all, move the server to another version | the API's checks and downloads |
| Files tab (`file-manager.tsx`, `nbt-editor.tsx`, `file-conflict-dialog.tsx`) | folder, entries, selection, two editors with the revision they read | browse, upload, archive, rename, delete, edit, resolve a conflict | the files of the API |
| Configuration editors (`properties-editor.tsx`, `proxy-config-editor.tsx`, `motd-designer.tsx`) | one content as text and as a form | load, edit either, switch, save | `props.go` |

What makes these parts correct, and hard:

- **One server, many hands.** Requests, scheduled actions, the status monitor, the
  provisioning goroutine of `Create` and the container itself all change one row and
  one container. Three devices keep them apart: a mutex, a read/write lock, and the
  comparison of the row's state in `changeState`. Kill, console commands and edits
  leave out the mutex on purpose. The files must never be read or replaced while the
  server runs, and the running container must be the one the row names.
- **Calls that fail half way.** Every operation is a series of statements and runtime
  calls whose context dies with the client's connection. Containers must not be lost,
  task entries must not stay active, and the row must come back to the truth.
- **Restarts.** The panel dies between any two steps. A scheduled run must not be
  replayed after it, none must be shown as running for ever, and a restore must leave
  the data in place or beside its place.
- **Time.** Clock, ticker and claims interleave with edits of the schedule; two
  panels may share one database for a moment during an update.
- **Retention.** A sweep carries out, step by step, a plan whose records are protected,
  recovered and purged meanwhile.
- **Late answers.** Requests of one page overtake each other, are aborted, joined or
  lost, and their handlers go on with a list, a filter or a server version that has
  changed since. What the page shows at rest must be true, and what it does must be
  what its user was shown.
- **Two copies of one content.** A configuration is text and form at once, a message of
  the day three representations deep; an edit in one must not undo one in another.
- **Writers the page does not see.** Another editor, an upload, the game. Revisions
  protect the Files tab; nothing protects the configuration editors.

`PROJECT.json` lists every such hazard at its line with the properties that watch it.

## Modules

| Module | What it is |
|---|---|
| `ServerLifecycle` | one server: row, container, files, locks, goroutines, monitor |
| `DataGuard` | abstract: the files belong to the running server or to one operation |
| `ServerLifecycleInv` | the inductive invariants of `ServerLifecycle`: `IInv`, and above it `BelievedAll`, `TrackedAll`, `SeenAll`, `SinceAll` and `AlertAll` |
| `ServerLifecycleProofs` | the proof of `IInv`, and that `ServerLifecycle` implements `DataGuard` |
| `ServerLifecycleTracking` | proofs: a row that says stopped is right, no container is forgotten, observations yield to a stop, crash alerts are true |
| `TaskScheduler` | one scheduled task, panels on one database, clients |
| `TaskSchedulerProofs` | its inductive invariants `SInv` and `AloneInv`, and proofs |
| `BackupStore` | the backups of the servers, their archives and data directories |
| `BackupStoreInv`, `BackupStoreProofs` | its inductive invariant `BInv`, and proofs |
| `CatalogSearch` | the search of the four catalogue browsers |
| `CatalogSearchInv`, `CatalogSearchProofs` | its inductive invariant (`IInv` once more), and proofs |
| `CatalogInstall` | installing from them: handlers, dialogs, dependencies, directory |
| `CatalogInstallInv`, `CatalogInstallProofs` | its inductive invariant (also `IInv`), and proofs |
| `ModsPage` | the mods page, the version helper, the API's checks and their cache |
| `ModsPageInv`, `ModsPageProofs` | its inductive invariant (`IInv` again), and proofs |
| `FileManager` | the Files tab, its two editors, the files and their mutex |
| `FileManagerInv`, `FileManagerProofs` | its inductive invariant `FInv`, and proofs |
| `ConfigEditors` | the three configuration editors and the file they write |
| `MC...` | what TLC needs: instances, symmetry, and the properties of the last five |

Every module has mutated definitions beside the real ones, under a comment that begins
with "Variant:". They are bugs the code could plausibly have had (a guard dropped, a
lock kept, an error ignored), part of no specification. `PROJECT.json` says which
property each of them breaks; that is the evidence that the property watches the code.

### ServerLifecycle

A goroutine is a program counter `pc[w]`, the operation `op[w]` it executes, and the
copies of the row it read: `own[w]` in the operation, `srv[w]` in `stopLocked` or
`startLocked`. A step ends where another goroutine can run: at a statement, a runtime
call or a lock. `stopLocked` (labels `p_*`) and `startLocked` with `ensureContainer`
(labels `s_*`) are subroutines as in the code; `AfterStop`, `AfterRemove` and the like
say where a caller continues.

| Code | Model |
|---|---|
| `lifecycleLock`, `lockWorld` | `life`, `writer`, `readers`; `AcquireLifecycle`, `AcquireWorld`, `AcquireWorldShared`, `Return` |
| row of `servers` | `row` = [here, state, cid, since] |
| `changeState`, its notification | `SetState`, `ObserveState`, `NoteFor`, `note` |
| the container `mcm-<id>`, its exit code, its entry script | `box`, `disk`; `ContainerExit`, `InstallerStep`, `ContainerLost` |
| context of a request | `gone[w]`, set by the fault `disconnect`; then every call that uses it fails |
| entry of `GetTaskProgress` | `task` |
| `Status`, `RunStatusMonitor` | `StatusGet`, `StatusInspect`, `StatusApply`, `StatusSince` |
| `Kill`, `SendConsoleCommand` | `KillStep`, `ConsoleStep`: without the mutex, as in the code |
| `WithStoppedData`, `worldServer`, `WriteNBT` | `DataStep` |
| death of the panel | `PanelCrash`: every goroutine and lock is gone; row, container and files stay |

Abstractions: installing and building are one state, exited, dead and stopped
containers are one status with a good or a bad exit code; a pack or a jar is one
download that works or fails; the files are a token (`bin`, `mark`) that only says
whether an installer has to run. The history variables `asked` and `alerted` are read
by properties only. One server is modelled since servers share neither lock nor row
here (ports, which they do share, are in the plan).

### TaskScheduler

One row of `scheduled_tasks`; `ver` stands for `updated_at`. A panel has a loop whose
label is the next statement of `tick` (`recover`, `list`, `claim`, `skip`, `record`),
its set `running` (`busy`), and workers, which live until `Release`. A request is two
steps, read and write (`UpdateAsk`, `UpdateWrite`), because the code computes the next
run in between. `Stop` cancels the context, on which every later statement of the loop
fails, and waits for the workers; `Finish` writes on a context of its own. Parsing an
expression is the constant function `NextRun`, assumed only to give a later time.

### BackupStore

Records, archives, data directories and the copies a restore leaves, with one label
per statement or storage call of `Backup`, `UploadBackup`, `Restore`, `cleanupLocked`,
`deleteLocked` and `changeBackup`. Contents are version numbers, so that a lost or
mixed-up archive shows. An upload is dated when its transfer starts (`job.day`), though its
record is written at the end; a backup when its record is. `lockOperation` is two steps, the server's lock and then a
slot. `gone` is a context that was cancelled or has timed out. That the files stand
still during `WithStoppedData` is `DataQuiescent` of `ServerLifecycle` and is the guard
of `Play` here.

### The pages of the browser

JavaScript runs one callback at a time, so a step is the code between two awaits. What
may happen in between is a click, a timer, an answer, or an effect of React, which the
models run in the step that changes what it depends on. Clicks are guarded by what the
page enables: the buttons of a busy handler, the dialog over the page. Requests end in
any order, or fail; where a write may have been carried out and only its answer lost,
failing has both outcomes. All four browsers, and both kinds of proxy, are one model:
where their code differs, a definition begins with the name of the one it is about.

The history fields record how a state came about, to state the excuses of a property
(`overlap`: a click while something was under way; `failed`: a failed request;
`missed`: the mods whose lookup failed; `stale`: the page missed something;
`overtaken`, `deleted`, `between`, `lost`, `mixed`; `seen`: what the user of
an editor was shown; `meant`: what was set since the text was loaded; `unseen`). No
guard reads them.

**CatalogSearch.** A call in `calls` is a `performSearch` between its request and the end
of its `finally`; `Send` joins a request of the same URL that is still in flight, with
its abort. `next` is `offsetRef` (or the page of `SpigetBrowser`, whose effect on the
page searches again), `fetching` the ref that two of the browsers use as a guard.
`Abort` is what a newer search does to an older one, `Switch` unmounts the browser.
`queue` is the queue of the catalogue, whose places are one or two: who waits in it
(`Enters`) learns of its abort only when a place is given back (`Leaves`), also by a
request that was aborted, or nobody behind it would ever be served. The requests of a
browser that left keep their places a while; that is not modelled.

**CatalogInstall.** `flows` are handlers that have not returned, with the project, the jar
and the old jar they hold; `ModrinthOneClick` and the like are the four variants.
`ResolveModrinth` is what the code's two levels of dependencies give, `ResolveCurseForge`
its one; a request of the resolution that fails leaves out what it would have told
(`NoProjects`, `NoVersions`, `NoFiles`), and what is listed without a file (`bare`) is
passed over by the batch. `Publish` and `Replace` are the API's download. `items` is the
prop `installedMods`, refreshed by `loads` that may overtake each other. Which file a
version match selects is data: the newest release stands for it, though
`CurseForgeBrowser` takes the first jar of `latestFiles` whatever version it is for
(curseforge-browser.tsx:451).

**ModsPage.** `cache` and `calls` are `CheckModUpdates` and
`CheckTargetVersionCompatibility` with their caches; a flow of the page joins a check
under way (`Joins`), and `CallEnds` stores what the check read at its start.
`Invalidate` empties the cache in every handler that changes a jar. `report` carries
the scope it was asked for (`reportScope`); `Shown` is the comparison the page makes.
A check proposes a jar for each mod (`Proposed`): Modrinth and CurseForge are asked for the
releases for the target, Hangar and Spiget for the newest one, whatever it is for. A mod of
no catalogue is untracked, and `Ready` counts only what is `Missing`. A lookup that fails is
no error of the check (`Lookups`): the mod is not available, or untracked where the catalogue
is Modrinth, and the report is cached. A CurseForge key that is not set is such a failure.
A check as a whole fails only before its lookups. A batch downloads each jar and removes the
old one (`Apply`), of which the second part may fail alone.
`AfterInstall` is the tail of the one-click upgrade: backup, batch, installation.
Leaving the helper's tab unmounts it: its flows go on without touching the page.

**FileManager.** A content stands for its own revision, which is a hash of it. `run` is
the wrapper of all handlers that change a folder and list it again. A listing is read by
the server (`ListRead`) before the page takes it (`Listed`), whatever folder is shown by
then, since `load` compares its answer with nothing. A save is two steps
of the server, `Compares` and `Saved`: `WriteFileContent` holds the editors' mutex
(`Publishing`) between them, uploads and the game do not. `Review` is the comparison
after a conflict, from which the text is kept, replaced or sent again with the revision
that was shown.

**ConfigEditors.** `raw` and `draft` are the content as text and as form; `mode` says which
is edited, `Parse` and `Serialize` are the functions of `lib/` on lines and settings.
`Uncommented` is the cut at a `#`; `designer` holds the copies `MotdDesigner` keeps of
the two lines, in which `LineInputs` types and `Toolbar` formats. The two editors differ
in their buttons: `PropertiesHeader` and `PropertiesFooter` save whatever was read,
`ProxyHeader` what differs from it. `OtherWrites` is anybody else; the save has no revision to compare.

## Runs

Deadlock is not checked, since a system that has used up its bounds stops; that nobody
waits for ever is `AllReturn`, and `ComesToRest` for the search.

| Run | Question | Instance, distinct states |
|---|---|---|
| `lifecycle_safety` | are the files quiet, is the running container the one recorded, is a conclusion older than a stop dropped, is `DataGuard` implemented | all 15 operations, all 11 faults; 2 operations, 1 fault, 1 crash, 3 containers; 2.6 M |
| `lifecycle_live` | do row and alerts tell the truth, is a container lost or a task entry orphaned, does the row catch up, does every operation return | start, stop, restart, update, backup, edit, recreate; refusals of boot, removal and download; 2 operations, 1 fault, 1 crash; 138 k |
| `scheduler_once` | is a run dispatched once, is a task never overlapped | 2 panels, 2 expressions, 1 request, 1 crash or stop; 1.7 M |
| `scheduler_live` | are missed runs skipped, is the recorded status true, does a stop settle its runs; is a mark released, a due run taken, a running row settled | 1 panel, 2 expressions, chain of 2, 1 request, 1 fault, 1 crash or stop; 259 k |
| `backup` | do the limits hold and spare what they must, what is left of archives and data | 1 server, all 11 operations in pairs and one more, all 7 faults, 2 of them, 1 crash; 3.4 M |
| `search` | is the list the one of the filters at rest, does the browser come to rest | pages of 2, filters with 3 and 1 matches, 3 searches in flight, 5 inputs, 1 failure; 90 k |
| `install` | is the prompt needed, the list true, the file right, an update never a loss | 4 projects in a chain of dependencies, 2 handlers and 2 lists at once, 4 clicks, 1 failure; 4.3 M |
| `mods` | is the report true, an upgrade whole, a deleted mod gone | 4 mods (Modrinth, CurseForge, Hangar, no catalogue), 2 versions, 2 handlers at once, 3 clicks, 1 failure; 4.8 M |
| `files` | are the entries those of the folder shown, a save never blind, typed text kept | 2 folders, a text and a document, 2 contents, 4 inputs, 1 failure, 1 change by others; 2.3 M |
| `config` | is what is saved what was meant, does the editor know the file, does a line leave the other alone | 3 kinds of file, 3-line or 2-backend texts, 4 inputs, 1 failure, 1 write by others; 390 k |
| `lifecycle_bug_kill_race`, `lifecycle_bug_since` | disagreements, [below](#where-the-code-and-its-documentation-disagree) | the second: update and kill, 3 operations, 1 container |

What the bounds are enough for.

- *Goroutines*: with two workers three operations are in flight with the monitor, four
  with the provisioning of a creation: one in the middle of an operation and another that
  goes through its own. That is every pair, not every history: what three operations do to one
  another is checked for fewer of them (`lifecycle_bug_since` needs an update and two force
  stops) and proved for any number where a theorem says so.
- *Faults*: one failed call per behaviour for the lifecycle, whose operations return at
  the first error; two for the backups, whose restore answers a failed rename with
  another rename.
- *Time*: four ticks are two periods of the calendar expression and one of the interval.
- *Backups*: two existing ones and a new one, with a policy that keeps one for one tick,
  is the smallest history in which a count limit, an age limit, the exemption of the
  newest and a protected record all matter.
- *Pages*: a stale closure needs one handler under way, one that changes what it read,
  and the click that follows; three clicks and two handlers. A list that is overtaken
  needs two on their way. The installation gets a fourth: opening a dialog, deleting,
  confirming, and the click that meets the handler under way. A second page is the one that a wrong offset repeats. Search
  and editors get one or two inputs more, since every change of a text is one.

What the runs leave out on purpose, because a disagreement listed below would otherwise
hide every other violation: `lifecycle_live` runs no kill, no console command, no client
that disconnects and no container that cannot be created. `NoReplay`, `StatusTruthful`
and `StopSettles` hold only as long as every statement is carried out, and say so.
The other properties of a page name their excuses one by one.

Two limits of the convergence the code gives, both met with TLC and stated in
`StatusConverges`: a panel that dies inside a stop leaves the row at stopping for as
long as the server runs, since `Status` keeps a requested stop; and an inspection that
fails in `stopLocked` (servers.go:1088) does the same. The first is an exception in the
property, the second a fault the run does not have.

Also checked once, on instances of no run of their own: `BackupStore` with two servers
that share one slot (operations backup, restore, trash; faults timeout, save, rename; one
existing backup; 18 k states) for `TypeOK`, `SlotsAreWorking`, `TrashIsSpare` and, under
`FairSpec`, `AllReturn`; and `lifecycle_live` with the installation of a modpack added
(234 k states, too slow to be repeated on each change).

### Properties worth a comment

- `DataQuiescent`, `GuardSpec`: the mutex alone does not give them (kill and the
  container itself run free, edits take only the world lock); it takes the world lock
  held by a start for reading *and* the check of row, container and task entry.
- `RunningTracked`: `Update` writes back a row it read before it stopped the server.
- `CrashAlertTruthful`: an alert is of an exit the panel did not ask for. It rests on
  `Status` giving up when the mutex is taken.
- `ObservationsYield`: what `changeState` promises in its comment, of the writes that go
  through its comparison: conclusions from an inspection. The write of a missing start time
  does not; of that one `RequestedStopKept` is false, and `lifecycle_bug_since` shows it.
- `AtMostOnce`: a run is an occurrence of one configuration. Only the conditional
  UPDATE separates two panels.
- `NoReplay`, `StatusTruthful`, `StopSettles`: what a user may conclude from the list
  of tasks after downtime.
- `SparedStay`, `QuotaMet`: README.md:800 as steps of a sweep whose plan is stale by then.
- `RestoreLosesNothing`: across both renames, the rename back, its failure and a crash.
- `RestIsCurrent`: an answer for old filters, a page that arrives after the next search,
  and a search that joined an aborted request all end in the same list. Two excuses are
  in the code: after a joined abort the list stays as it was (`lost`), and a load-more that
  replaced the first search appends to the old list (`mixed`).
- `NeverWithout`: excused once a click came while another action was under way. Without
  the excuse it fails at four clicks: two handlers that each replace the jar the other one
  installs end with none.
- `PromptIsNeeded`: against an independent definition, walks in the graph of
  dependencies, instead of the code's unions of two levels. A resolution with a failed
  request may leave something out, and never asks for what is not needed.
- `UpgradeIsWhole`: the software moves only when every jar is the one its catalogue
  proposes for the new version, and what the batch replaces is in the backup taken before. It
  does not say that every jar is *for* the new version: mods of no catalogue, mods whose
  lookup failed, and releases of Hangar and Spiget for another version stay under the new
  software, which is `UpgradeFits`, and false (see the disagreements). The excuses are
  the other button, overlapping handlers, and a request that failed before the upgrade was
  clicked; a mod that fails during the batch excuses nothing.
- `NotResurrected`: an update check that is older than a deletion must not bring the mod
  back by a batch.
- `EntriesAreCurrent`: with any clicks overlapping. What the page cannot know, or fails to
  compare, is recorded as `stale` until the next good listing: a load that failed, a save
  whose answer was lost, a change by others, and an answer that `load` takes for another
  folder or after a later change. It does not say that names of the folder before cannot be
  chosen while the answer for the new one is awaited: they can, and be deleted, which is
  `DeletesWhatIsShown`, and false (see the disagreements).
- `NoLostUpdate`: revision, conflict and second attempt together; the revision that the
  second attempt sends must be one whose content was shown.
- `SavesWhatWasMeant`: the form and the text may be edited in turn; a comment, a key of
  a mod and the order of the lines survive all of it.

### Fairness

The fair specifications assume no more than the code's scheduling gives:

- weak fairness of every goroutine's next step: the Go scheduler runs every goroutine,
  a runtime call returns or fails, and the poll of a stop ends after 15 s;
- weak fairness of the monitor, whose ticker fires every 5 s, and of the clock;
- strong fairness of a goroutine that waits for the lifecycle mutex, since the monitor
  takes and returns it again and again: `sync.Mutex` hands over to the oldest waiter
  after 1 ms. Likewise for the two channels of `lockOperation`, which serve blocked
  senders in order;
- weak fairness of a panel's start: compose and systemd restart it;
- weak fairness of timers and answers in the browser: `fetch` ends, the back-off of
  `rate-limited-fetch.ts` has a maximum, the page is polled.

The container, the client, the user and the faults are under no fairness.

## Proofs

All proofs are checked by TLAPS with its SMT, Zenon and PTL back ends, for any sets of
goroutines, operations, faults, panels, clients, expressions, servers, backups, files,
contents, projects and releases, and any bounds. The assumptions are the named ASSUMEs of
the modules: the actors are different from each other, the sets of operations and faults
are subsets of the ones there are, the bounds are naturals, an expression's next run is
later than the time it is asked at, a project has a newest release or none, and what a
release needs are projects. Further hypotheses are in the
statements of the theorems that need them, and named below.

Each invariant below was checked with TLC before it was proved: the lifecycle's `IInv`
on the instance of `lifecycle_safety`, `SInv` on that of `scheduler_once`, `BInv` on that
of `backup` (3.4 M states), `FInv` on that of `files` (2.3 M), the search's `IInv` on that of
`search` (90 k), the installation's `IInv` on
that of `install` (4.3 M) and that of the mods page on that of `mods` (4.8 M); `BelievedAll` (1.0 M), `TrackedAll` (1.6 M), `SeenAll`
(0.8 M), `SinceAll` (2.4 M) and `AlertAll` (3.3 M with three operations, 1.3 M with clients that
disconnect) with the operations and faults their theorems allow, `AloneInv` (2.8 M) with one
panel. They stay in
modules of their own or beside their proofs, so that a configuration can name them again
when the code and the model change.

| Module | Inductive invariant | Theorems about properties of a run |
|---|---|---|
| `ServerLifecycleProofs` | `IInv` | `TypeCorrect`, `RunningIsTracked`, `DataIsQuiescent`, `ImplementsGuard` |
| `ServerLifecycleTracking` | `BelievedAll`, `TrackedAll`; `SeenAll`, `SinceAll`, `AlertAll` | `StoppedIsDown`, `ContainersAreTracked`; `ConclusionsYieldToStops`, `StatusYieldsToStops`, `CrashAlertsAreTrue` |
| `TaskSchedulerProofs` | `SInv`, `AloneInv` | `DispatchedAtMostOnce`, `NeverOverlaps`; `StatusIsTruthful`, `MissedRunsAreSkipped`, `OrderlyStopSettles` |
| `BackupStoreProofs` | `BInv` | `AnnouncementsAreTrue`, `CleanSweepMeetsQuota`, `RecordsOutliveArchives`, `SparedSnapshotsStay`, `RestoresLoseNothing`, `RestoresUseSuccesses` |
| `FileManagerProofs` | `FInv` | `EntriesAreTheFolders`, `SavesReplaceWhatWasShown`, `TypedTextStays` |
| `CatalogSearchProofs` | `IInv` | `ListIsCurrent` |
| `CatalogInstallProofs` | `IInv` | `RightFileInstalled`, `QuietListIsTruthful`, `UpdatesKeepAJar` |
| `ModsPageProofs` | `IInv` | `ReportIsTruthful`, `UpgradeWhole`, `NothingResurrected` |

**The lifecycle** (`ServerLifecycleProofs`). `RunningTracked` and `DataQuiescent` are
not inductive: nothing in them says that the goroutine about to boot the container
holds the lock and a current copy of the row. `IInv` adds, for each goroutine: which
operations reach which label (`OpInv`), which locks are held there (`LockInv`), where
its copies agree with the row (`CopyInv`) and where the container is known to be down
(`DownInv`). The proof is rely/guarantee. `Guarantee(w)` says that a step of w keeps
the type, w's own part of the invariant and `Rely(w)`: w takes no lock from another,
changes the container the row names only under the mutex, and boots it only under the
mutex and the world lock. One lemma per group of
actions (`StopStepKeeps`, `StartStepKeeps`, ...) proves the guarantee; `OthersKeep`
proves once that it leaves every other goroutine's part intact; `NextKeeps` puts
them together, and `Invariance` is the temporal step. From it: `TypeCorrect`,
`RunningIsTracked`, `DataIsQuiescent`, and `ImplementsGuard`, which maps `up` to a
running container and `using` to the goroutines at a label of `DataLabels`.

Two invariants on top of it. *Believed* (`StoppedIsDown`): a goroutine about to record
stopped has seen the container down while holding the mutex, and nothing boots it
before the row is written. The theorem excludes `Kill`, which writes stopped without the
mutex: with it TLC finds a start that boots the container behind that write. *Tracked*
(`ContainersAreTracked`): wherever a goroutine clears the id of the row, the container is
gone. It excludes the deletion of a server, which its provisioning may still follow
(servers.go:662), and clients that disconnect between the creation of a container and the
statement that records it (servers.go:1685). TLC confirms that each of the three is
needed; crashes of the panel and every other fault are covered.

Three more are about the status monitor, which reads the row, asks the runtime and
writes, with the mutex but not against those who work without it. What it concludes from a
container is only written if the state of the row is the one it read
(`ConclusionsYieldToStops`, with no hypothesis). *Seen* and *since* (`StatusYieldsToStops`)
are about all its writes: what is left to show is that a stop the monitor itself read is
only replaced by a container that is down, and that it never writes a missing start time over one (servers.go:1330,
which compares nothing). Either nobody writes without the mutex, and the row is what the
monitor read (`SeenAll`), or nothing writes a row back from a copy, and a row that says
running has its start time (`SinceAll`). An update that meets a force stop, or a stop typed
in the console, gives neither, and TLC then finds `RequestedStopKept` violated
(`lifecycle_bug_since`). *Alerts*
(`CrashAlertsAreTrue`): a container is *accounted* for once the panel asked it to end or
alerted of its end. `AlertAll` says that the container of a row that should be up has not
ended accounted for, and that one which was asked to end does not run on, unless a
goroutine with the mutex is about to say or do otherwise (`Answers`, `Asking`); and, for each
label, what makes it true when that goroutine gives the mutex back. The theorem excludes
the four ways out of it, each of which TLC confirms with a false alert: the force stop and
the console, which ask without the mutex; a `docker stop` that fails, after which the row
goes from error back to running; and a client that leaves the installation of a
modpack. All other operations, faults and clients that leave are covered, and alerts after
a crash of the panel are excused by the property.

**The scheduler** (`TaskSchedulerProofs`). A run is *spent* once the row was moved
past it or its configuration replaced. `SInv` says that whatever was launched is spent,
that a panel about to launch holds a spent run nobody else holds and has marked the
task, and that every worker is marked. A claim turns the row's current run, which by
`LaunchedSpent` was never launched, into a spent one in one conditional UPDATE; hence
`DispatchedAtMostOnce` for any number of panels and `NeverOverlaps`.

`StatusTruthful`, `NoReplay` and `StopSettles` are about what a panel knows of its own
tasks and hold for one panel on its database (`Alone`; compose and systemd start one);
a second one would record results the first cannot know. `AloneInv` adds to
`SInv` that a run recorded as running has a worker or is settled by the next recovery,
that whoever is to settle it has not stopped, that numbers written by a request are
newer than what the loop listed, and that a run which fell due while the panel was down is
in no hand but one that skips it.

**The backups** (`BackupStoreProofs`). Every operation reads the record, makes slow calls,
and writes. `BInv` says for each operation and label what is still true of what it read:
that it has its own record and no other operation of that server has one (`Numbered`), that
what a sweep planned to trash or purge is still eligible and its plan still leaves the
number the policy keeps (`Planned`, `OnCourse`), where the files of a server are between
the renames of a restore (`Restoring`), and that a change of a record finds it as it was
read (`Changing`). The argument is rely/guarantee again: the lock of a server gives an
operation the records and the directory of that server, and `OthersKeep`-lemmas show that
an operation on another server, the clock, a running server and a crash leave its part
alone. Two things need more than that. Identifiers come from one counter for all servers, so
`NumbersInv` counts the backups that have not taken theirs. And the retention count is a
fact about cardinalities: trashing what `PlanTrash` chose leaves exactly the policy's number
of spare snapshots, by a lemma on the difference of finite sets. `BInv` also yields
`SlotsAreAtWork` and `TrashIsForTheTaking`, which no run repeats.

**The Files tab** (`FileManagerProofs`). `NoLostUpdate` and `TypedKept` compare what an
answer does with what the page has become since. `FInv` is what makes them hold: each of
text editor, folder and NBT editor is locked by at most one request (`LockInv`); a
revision an editor holds, or sends, is one whose content was shown (`TextInv`, `NBTInv`);
a save that has compared finds the file unchanged unless somebody wrote without the mutex
(`SavesShown`); a request that will replace a text was sent with the text saved or its loss
confirmed (`DropsAgreed`). While proving it `TextInv` had to be strengthened: a file being
opened also has no conflict left to resolve. `EntriesAreTheFolders` is `ShownInv`: whatever
clicks overlap, a change that ends leaves its listing to come, and the page does not leave
the folder of a change or a deletion that goes on.

**The search** (`CatalogSearchProofs`). Between a key stroke and the end of its debounce
nothing in flight has to do with the filters, so `IInv` speaks of the states in which no
search is due. There at most one search was not aborted, and it asks for the filters: from
the first project on, or from where the list ends (`LiveInv`). What was listed before ends
at the offset the next request will ask for (`Listed(next)`), and at offset 0 a search was
sent that has not answered; a load-more sent there is what `mixed` records. In SpigetBrowser
the offset is a page, and the answer to a load-more changes it, which makes a search due
again: that repairs the list, and the invariant says so. Clipped pages are the only
arithmetic (`PageShape`, `PageFollows`). Catalogue, page size and the number of searches in
flight are arbitrary.

**Installing from a catalogue** (`CatalogInstallProofs`). A handler decides with the list
it saw when it was called. `IInv` says what it still knows after its awaits: the file is
that of its project through each dialog (`RightInv`), the list asked for last is current
unless a handler that has changed the directory will ask again (`CurrentInv`, which holds
with any number of handlers), and, where no click overlapped, failed, kept both or was
overtaken, that each project has one jar but while it is replaced, that a handler's old
jar is the one in the directory, and that what a batch has yet to install is untouched
by what it installed (`OrderInv`). The catalogue is arbitrary: any graph of dependencies,
also a cyclic one. `QuietListIsTruthful` alone has a hypothesis, `NoSelf`: no release names
its own project among those it needs. `resolveModrinthDependencies` takes the project out,
`resolveCurseForgeDependencies` does not; with a release that requires its own project TLC
finds a batch on CurseForge that installs it twice. `RightFileInstalled` and
`UpdatesKeepAJar` need no such hypothesis.

**The mods page** (`ModsPageProofs`). None of its three properties is inductive: what an
upgrade does depends on the check its report came from, which may have been shared or
cached, and on the list the report was asked for. `IInv` has a part without excuses
(`ShapeInv`): every check in flight has a handler that waits for it, a check of another
version answers for that version, and what a handler needs at an await it has. Where no click
overlapped (`CalmInv`), a handler that changes something is alone, so that caches, checks
in flight and what a handler took from them tell of the jars as they are, a batch meets
every jar it looks for, and what it replaces is in the backup. Where nothing failed either
(`OrderlyInv`), the list is right unless a handler is still to ask for it, and a report is
of the jars as they are, or as they were listed where it was asked for; only the latter
while a handler or a picker may change them. That disjunction is the point of the
proof: a scan answers for the jars of today with the scope of its click, and it is the
comparison with `reportScope` that turns the two into a true report. Nothing fails by
itself in the installation of an upgrade: `Missing` was empty in the report that was
clicked, so that for every jar there is a proposal, or no catalogue, or a lookup that failed
(`CanFit`), and the batch puts each proposal in place (`Fits`). The theorem promises no more
than these three cases, as the code does no more. Proving `UpgradeIsWhole` refuted an earlier
form, which had no excuse for a failure before the click; the run's instance, with two
versions, could not show it.

The invariance theorems (`Invariance`, `SchedulerInvariance`, `BackupsInvariance`,
`FilesInvariance`, `SearchInvariance`, `InstallInvariance`, `ModsInvariance`) state the
inductive invariants themselves; the others state properties of the runs. The lifecycle may begin with a server that is
stopped or one that runs (`InitRunning`), and the proof covers both.

**Only model-checked**:

- liveness (`StatusConverges`, `AllReturn`, `MarkReleased`, `DueIsTaken`, `RunsSettle`,
  `ComesToRest`): TLAPS has no rule for ENABLED and fairness here;
- of the lifecycle, `TaskHasOwner`: a creation that fails leaves the entry behind, and in the
  model a creation also fails when the bound on containers is reached, so that a
  theorem would be about the bound;
- `PromptIsNeeded`, which compares the resolution with walks of any length through the
  dependencies: the two levels the code goes would have to be unfolded for any graph;
- the configuration editors: `SavesWhatWasMeant` and `OtherLineKept` are about what `Parse`
  and `Serialize` make of lines, which filter sequences, and induction over data is out of
  the prover's reach. `KnowsTheFile` compares the contents of files of several shapes with
  each other and with the constant for a file that is absent, of which it is only assumed
  that it is none of the texts written by others.

## Where the code and its documentation disagree

Two are runs that end in a violation:

1. *A force stop alerted as a crash* (`lifecycle_bug_kill_race`, servers.go:1160).
   `Kill` goes on without the mutex when a `Start` holds it. Start then records running
   over Kill's stopped, and `Status` finds a running server whose container exited.
   README.md:229 promises the stop event for force stops.
2. *A status check that undoes a stop* (`lifecycle_bug_since`, servers.go:1330). An update
   reads a running row; a force stop marks it stopping, which clears the start time, and the
   update writes running back without one. `Status` reads that row; a second force stop
   marks stopping; `Status` sees a running container, and writes the missing start time with
   the state running, comparing nothing. notifications.go:22 promises that "concurrent status
   reads cannot [...] overwrite a newer lifecycle operation".

The others were met in the same way. Where a property is named, it can be reproduced by
giving the module's constants the values below in a configuration with that property
alone:

| Code | What happens, and what is said | Property and constants |
|---|---|---|
| servers.go:1787 | exit code 137 of a forced stop is mapped to error: the next status check reports a failed server; README.md:229 | `DeliberateStopIsNoError`; Ops start, kill; MaxOps 2, MaxCid 2 |
| commands.go:270 | `shutdown`, the stop command of a proxy, typed in the console is alerted as a crash; README.md:229 | `CrashAlertTruthful`; Ops start, console; Commands shutdown; MaxOps 2, MaxCid 2 |
| servers.go:662 | the provisioning of a server deleted meanwhile creates its container; README.md:654 | `DeletedLeavesNoContainer`; Ops delete; MaxOps 1, MaxCid 1 |
| servers.go:1685 | the container is created, its id is not recorded, and its name is refused from then on (docker.go:467); console_test.go:153 | `EveryContainerTracked`; Ops logs; Faults disconnect; MaxOps 1, MaxCid 1, MaxFaults 1 |
| servers.go:1681 | a container that cannot be created leaves the task entry of the download active, and backups refused; tasks.go:60 | `TaskHasOwner`; Ops logs; Faults create; MaxOps 1, MaxCid 1, MaxFaults 1 |
| modpack.go:1333 | the final state of an installation is written with the context of a client that is gone: a crash alert; README.md:229 | `CrashAlertTruthful`; Ops modpack; Faults disconnect; MaxOps 1, MaxCid 1, MaxFaults 1 |
| servers.go:1128 | a stop whose `docker stop` fails sets the row to error although the stop command was sent; the next status check sets it back to running, and the end of the server, asked for, is alerted as a crash; README.md:229 | `CrashAlertTruthful`; Ops start, stop; Faults stop; MaxOps 2, MaxCid 2, MaxFaults 1 |
| scheduler.go:41 | missed runs are skipped by one tick at startup; if its query or claim fails, the next tick executes them; scheduler.go:40 "Do not replay missed restarts or commands after panel downtime." | `NoReplay` without its first condition; the constants of `scheduler_live` |
| store.go:313 | enabling a task gives a new expression, set by a request in between, the next run of the old; store.go:79 | - |
| backups.go:427 | a backup that times out cannot record its failure and stays pending, neither trashable nor purgeable; retention.go:155 | `PendingIsRunning`; Ops backup; Faults timeout; Existing 0, MaxBackups 1, MaxOps 2, MaxFaults 1 |
| backups.go:881 | a purge that loses its client after the archive leaves a completed record that can be recovered; README.md:800 | `NewestIsAvailable`; Ops trash, recover, purge; Faults disconnect; Existing 2, MaxBackups 2, MaxOps 4, MaxFaults 1 |
| files.go:586 | an upload or the game may write between the comparison of revisions and the save, which then replaces it; README.md:772 | `NoLostUpdate` without `history.between`; the constants of `files` |
| file-manager.tsx:168 | the entries of the folder before stay on the screen until the answer for a changed folder comes, and an answer for another folder is taken: their names are selected, and deleted in the folder shown; file-manager.test.tsx:256 "deletes selected files in the current directory" | `DeletesWhatIsShown`; the constants of `files` with MaxFails 0, MaxOthers 0 |
| api/mods.go:303 | where `handleUpdateMod` is asked to delete the old jar, the branch is empty, and the server loads both; mods.go:253 "removing the old jar", version-update-helper.tsx:353 "The previous file (...) will be removed." | `UpdateReplaces`; the constants of `mods` |
| updates.go:1514 | mods of no catalogue are not counted, and a project whose lookup fails at Modrinth is taken for one of them, in a report that is cached as if it had succeeded; the report is ready all the same; version-update-helper.tsx:783 "Compatible releases are available for all" | `ReadyMeansReleases`; the constants of `mods`, also with MaxFails 0 |
| updates.go:1206, updates.go:1340 | Hangar and Spiget are not asked for the target version, so a plugin is ready with a release for another; the one-click upgrade puts the software over it, and over the mods of no catalogue; version-update-helper.tsx:783 | `UpgradeFits`; the constants of `mods`, also with MaxFails 0 |
| version-update-helper.tsx:306 | the one-click upgrade leaves its batch out when the report it was clicked in counts no updates; after a request that failed that report and the list may both tell of other jars than the server has, and the software is installed over jars for another version; version-update-helper.tsx:278 "Backup -> Update Mods -> Upgrade Server Jar" | `UpgradeIsWhole` without `history.failed`; Mods a, b; Versions v0, v1, v2; Available a for all of them, b for v2; Installed a for v1 with b for v2; MaxFlows 1, MaxInputs 6 |
| proxy-config.ts:123 | a `#` inside a quoted message of the day cuts it, unless it is the first character, and the next save writes it cut; the comment above says "if not inside quotes" | `Uncommented` of `ConfigEditors`; its `Cut` |

## What is not modelled

Ports, publication of staged files, the panel update, sessions and the login limiter
and the subscriptions of a task's progress are in the plan. Left out for good:
permissions, passkeys, TOTP and CSRF (checks of one request, no shared state); delivery
of notifications, DNS and the catalogues of server software (calls to other services,
whose effect here is an error); players, performance and the codecs (functions over
data); the registration of backends by the panel; migrations, the command line,
deployment; the pages of the browser that only
show what they loaded, and the dialog that creates a server, which sends one request.

Of the parts that are modelled: copies and exports of a server, and players' commands on
its console; the content of packs; creating and removing worlds; which release a version
match selects, and which project a file name is taken for; the details page of a
project; the pacing, the back-off and the response cache of `rate-limited-fetch.ts`, which
only delay a request or answer it at once; folders more than one level deep; what is checked of a path and a
size. The components of `PROJECT.json` say the same one by one.

## Plan

1. *Done*: the lifecycle, the scheduler, the backups; `DataGuard`; the proofs above; the
   catalogue browsers, the mods page, the Files tab and the configuration editors.
2. `PortReservations`: several servers, `portConfigMu`, the unique table and the check
   before it; no port is given twice and none is leaked by a failed creation.
3. `PublishTree`: publication and rollback over a small tree, with failures and a crash
   in each rename; an abstract `AtomicSwap` it implements when nothing fails twice.
4. `PanelUpdate`: panel, worker and job file over the restart; `LoginLimiter`: parallel
   attempts against the window; `TaskProgress`: subscribers of a task entry.
5. Composition: a scheduled backup through the scheduler, `WithStoppedData` and the
   backup store, with the promise that a server that was up is up again (README.md:356).
6. Proofs: what the configuration editors know of the file.
