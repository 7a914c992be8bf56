# prune-juice in TLA+

Specifications, model checks and proofs for prune-juice, a program that scans a
Docker daemon, works out which resources nothing needs any more, and removes
them: with a verified copy of everything that could not be brought back. The
modules are written from the source under `src/`; `PROJECT.json` names, for every
definition, the lines it stands for.

## The system

| Component | State it keeps | Operations | Hard behaviours | What makes it correct |
|---|---|---|---|---|
| **Scanner** (`scan/`, `providers/`) | none between scans | `scan`: list, record, recall, attribute, judge | the daemon and the disk move under it; several scanners at once; scans cancelled or out of time | a verdict rests on what was seen and on directories the volume's own told of, memory alone licenses nothing |
| **Index** (`index/`) | SQLite: resources, volume→container edges, per-directory absence counts | `record_scan`, `record_projects`, `all_historical_owners`, `project_history` | counts and edges outlive what they describe; transactions fail apart | counts mean what they say, provenance survives the container |
| **Classifier and planner** (`plan/`) | none | `classify`, `Planner::plan`, `SafeToDelete::revalidate` | a batch verdict made item by item; unknown sizes and contents | the Tier 1 theorem; no witness without an actionable tier |
| **Executor** (`execute/`) | the receipt | `run` | world changes under a plan, lost answers, interrupts, kills, failing steps | copies before removals, nothing lost but late writes, an honest receipt |
| **Vault** (`vault/`) | a directory of archives and manifests | `store`, `verify`, `restore`, `forget`, `entries` | crashes between write, sync, rename and manifest; unlocked sharing; decay | no half archive is listed or restored; an entry one store was at is whole, kept and restored exactly |
| **Waivers** (`waiver/`) | one JSON file | `add`, `remove`, `covering` | read-modify-write without a lock, torn file | no waiver is lost, a waived resource is unreachable |
| **Command line** (`prune-juice-cli`) | the `Cancel` flag | `run` over contexts, vault, waiver and update commands | signals, several daemons, exit codes | order scan→plan→re-scan→apply, a truthful exit code |
| **Content probe** (`probe/`, the probe container of `docker/`) | none | walk, list, count, classify | volumes written to while read, limits, unreadable parts, a container to clean up | only what was read to the end licenses a removal; nothing is left behind |
| **Terminal interface** (`prune-juice-tui`) | screen, plan, ticks | event loop, scan and apply threads | messages of an older scan, quitting mid-item | the plan applied is the one shown |
| **Update** (`update/`) | check cache, staged file | `check`, `install` | kill between stage and rename, concurrent installs | the executable is always whole |
| **macOS app** (`app/`) | model, postponed install | scan, reclaim, command, updater callbacks | callbacks in any order with user actions, two pipes and two threads | one operation at a time, no relaunch over a running helper, a report that is whole |
| Disk, Docker client, model, tooling | — | I/O and pure functions | — | see `PROJECT.json` |

The components meet in four places: the *report* (scanner to planner and
executor), the *witness* (planner to executor, consumed by revalidation against a
second report), the *entry* (vault to executor: permission to remove) and the
*index*, which scans of all processes share. Everything else they share is the
daemon, which other people use too.

## Modules

| Module | Of | What it holds |
|---|---|---|
| `SafeRemoval` | the promise of the apply path | abstract: consent, licence, copy, removal |
| `Executor` | `execute/mod.rs`, `plan/mod.rs` (`revalidate`), `interrupt.rs` | one run over one plan, the daemon, other clients, signals; refines `SafeRemoval` |
| `ExecutorProofs`, `VaultProofs`, `ProvenanceProofs`, `TierProofs`, `ProbeProofs`, `TuiProofs`, `CommandsProofs`, `AppProofs` | | theorems about the module they are named for |
| `Vault` | `vault/mod.rs`, `restore_volume` and `dump_volume` of the Docker client | store, restore and forget as system calls on a directory |
| `Provenance` | `scan/mod.rs` 625–906, `index/mod.rs`, `providers/mod.rs` | scans, the index, and when a volume is an orphan |
| `Tier` | `plan/tier.rs`, `plan/graph.rs`, `plan/evidence.rs`, `plan/mod.rs`, the rest of `scan/mod.rs` | from scan to removal of the safe tier: what is free, on which facts, and what that costs |
| `Compose` | `providers/mod.rs` 157-331, 522-551 | which compose files are read, what they declare, whose a name is: operators only, evaluated with `MCTier` |
| `Probe` | `probe/mod.rs`, the probe of `scan/mod.rs` and of the Docker client | looking into volumes, natively or by a container, while others write |
| `Tui` | `prune-juice-tui/src/lib.rs`, `app.rs` | event loop, keys, scan and cleanup threads, their channel |
| `Processes`, `Waivers`, `Update`, `Commands` | `prune-juice-cli`, `waiver/`, `update/` | invocations of the command line; `Commands` composes the waiver file, the executable and the run over several contexts |
| `Arguments` | `parse_args`, `remote_authorisation`, `wants_tui`, the dispatch of `run`, `run_vault` | what a command line is taken to ask for: operators only, evaluated with `MCCommands` |
| `Reclaim` | `disk/mod.rs`, the end of `Executor::run`, `Receipt` | what a run says it freed: operators only, evaluated with `MCExecutor` |
| `App` | `AppModel`, `Service`, `Updater`, `AppDelegate`, `Protocol`, parts of `Views` | operations, the helper process, its pipes and readers, Sparkle's sessions |
| `MCExecutor`, `MCReclaim`, `MCArguments`, `MCVault`, `MCProvenance`, `MCTier`, `MCTierShared`, `MCProbe`, `MCTui`, `MCCommands`, `MCApp` | | constants for TLC |
| `MCProvenanceCorroborated` | | `MCProvenance` with a history of what each look at a directory found |

### Executor

The program counter `pc` walks through `Executor::run`: `rescan` (the caller's second
scan, one observation at a time), `item` (the top of the loop), `preserve`,
`dumping`, `storing` (inside `Vault::store`), `remove`, `await` (the request and its
answer), `tail` (the build cache) and `done`; `exited` is a process that is no more.

- A classification is abstracted to the *facts* it rests on: `TierOf[r][f]` is the
  tier `classify` gives, and equal facts stand for equal evidence hashes. So
  `revalidate` is `fresh[r] = planned[r]`, where `fresh` is the second report: one for
  the whole batch, as in the code. The code also compares the daemon's id and the
  tier; both follow from equal facts of one daemon.
- Data is abstracted to a counter of writes. A dump reads at its start and its end;
  if the two differ the copy is `Torn`.
- A removal is a request (`AskRemoval`), an act of the daemon at any later time
  (`DaemonRemoves`) and an answer (`Answered`) or none (`AnswerLost`); so a removal
  put down as failed may still happen, even after the process is gone.
- `Drift`, `Write`, `Vanish`, `Recreate` are the other clients of the daemon, and
  `Interrupt` and `Exit` the first and second Ctrl-C (or a kill).
- Left out: progress events, and kinds of resource beyond "an irreversible volume or not".

Byte counts and the host's figures decide nothing and are `Reclaim`'s. Three assumptions of
`MCReclaim` say of all small figures: nothing is said to be given back that was not, and a
figure that is missing stays missing; what `settle` takes was read three times running
(its comment says two), or is flagged; the run warns just when the receipt tells of a
shortfall.

### Vault

Each process is inside one call at a time; each stage of `pc` is a system call or a
request to the daemon, in the code's order. `part`, `final` and `manifest` are the three
files of an entry, `fd` follows a descriptor through renames and unlinks (a process
keeps writing to a file another one has renamed), `synced` and `settled` say what an
outage spares. An archive is abstracted to what it is an archive of, so equal
contents stand for equal digests; `Partial` is a file no `count_entries` gets to the
end of.

`PowerFails` loses bytes not yet synced and may undo recent changes of the directory,
later ones before earlier ones of the same entry; it happens at most once. The
code syncs the file but not the directory. Manifests are small files written in
place; a torn manifest does not parse and is therefore no manifest, which is the
undone case.

Two stores of one volume that begin in one second are at one entry: both find that there is no
archive (`vault/mod.rs:165`), truncate and write one temporary file (179) and rename it (211). The
code does not prevent it, so the model does not either; `crossed` is history, the entries at
which it happened. Of such an entry less holds, and the properties say what: no manifest is of half an
archive and nothing half or decayed is unpacked, but its archive need not be the one the
manifest tells of, nor the one a volume was removed on (`MCVaultSameSecond.cfg`). The runs let a
process begin a store whenever it likes, so all of this is in them.

### Provenance

A scan is `Lists` (containers and the catalog made of them), `RecordsScan` and
`RecordsProjects` (the two transactions), `Recalls` and `Judges` (the attribution
loop, which looks at the disk again). Between any two of them directories change
(`present`, `absent` from a parent that is there, `offline` with the parent), containers
come and go, and other scanners run; a scan may be abandoned anywhere, and the
index may fail in either transaction.

A claim is its confidence and its path. A volume's claims come from its own labels with
a path (`DirectClaims`), its project label located by catalog or index (`LabelClaims`),
its name (`GuessClaims`) or the memory of a container (`MemoryClaims`); the code's order
of falling back, and its recall of a missing path for any claim, are kept.
`orphans` keeps the *paths* that license a verdict, and `told` is history: the containers a scan ever
recorded. `AbsenceIsOfItsOwn` compares the two, because in between the project is located by whatever the
catalog, the index or a fallback has (`scan/mod.rs:779`), and the index is overwritten, or not written, by others.

Left out: volumes declared by compose files under `--roots` (`Compose`), images and
networks, sizes and the probe, all of which are `Tier`'s. The proven confidence is not told apart
from strong.

### Tier

One run of the program after another: `Begins`, `Measures`, `Lists` and `Judges` are a scan
(`df` is asked for first and answered at any time), once for the plan and once to check it;
then every free item gets its `Turn` and is removed or left alone. `Executor` treats the
facts of a verdict as a constant and follows an item through copies, failures and
interrupts; `Tier` treats removal as one step and computes the facts. Between any
two steps other people start, stop, create, write to and remove things, and delete
project directories.

- A report `rep` is a record of what the scan saw. `Holders`, `LastCarrier`, `Hidden`, `Unknown`
  and `Referenced` are `RefGraph` of it; `TierOf` is `classify`, with one operator per
  property (`LastCarrier`, `Destabilises`, `Gone`, the age) in the code's order.
- `Facts` is the `ReadSet`: one field per kind of fact, empty for a resource whose
  classification ends before it is read. Equal records stand for equal hashes. The
  distinction matters: the code promises that a fact not read cannot cancel a verdict.
- The index is `newest` (the edge `all_historical_owners` returns for a volume) and `misses`.
- `stirred` and `late` are history, for the properties only: what others changed since
  the plan's scan, and since the second scan, began.
- Abstracted: sizes to "nothing" or "something" (the 50 MB limit is implied by the stricter
  zero `reversibility_of` asks for), contents to reconstructible or not, ages to a day. One
  path per project; no name guesses and no disks that are offline (`Provenance` has both);
  creation times are known; ddev's own nameless resources are left out; waivers are
  `Commands`'.
- The rooted configurations take from `Compose` that the volume is declared: `MCTier` builds
  the catalog of a directory whose declaration is in a file only `COMPOSE_FILE` names.
  `MCTier` also has two assumptions TLC evaluates with every run of it: on all texts of up
  to four lines `KeysOf` agrees with a reference reading of a two-column block, and a name
  belongs to the longest project it begins with.

Two things the code's comments say of tiers are *not* properties here because they are
not meant literally. "Deleting it changes no other resource's tier" (`tier.rs:15`): a
removed container frees its volume and image, by design, and the next plan offers them.
And what one removal leaves, two may not: see `tier_batch`.

### Probe

`at` is where a scan stands: choosing native or container reading, the volume's listing
and the walk (one `read_dir` or one entry a step, `stack` holds its frames), or a batch of
volumes in one container (created, started, listing and counting, streamed, removed). The
tree `parent` with the classes of its names is changed by another program between any two
steps; some directories and volumes refuse to be read; the stream may be cut; the daemon
may refuse any request; the program may be killed, and run again.

`report` holds, for each volume, the class and, as history, what lay still in it while it was
read (`stood`), what of that lies in a directory that refused (`hidden`), which entries of
the top level lay still (`top`), and whether the listing came to its limit with one of them unread
(`capped`). Names are the classes `classify` tells apart. `ListLimit` is the 256 names of either listing:
which of more names come first is the directory's order, so a listing is any set of that many of them
(`Listings`). The 20 000 counted entries are small (`WalkLimit`), the 4 MB of output a cut that may come anywhere.
Times of last writes are left out: `Tier` has "touched".

### Tui

The event loop takes one message or one key at a time; a scan and a cleanup are threads,
`jobs` of them so far, and `queue` is the channel. What a scan finds goes through a
forwarding thread and may be overtaken by the scan's answer; a cleanup uses one sender for
both, which `ReceiptIsLast` is about. A cleanup does to each item in scope what an `Executor` may:
begins it, then removes, skips or fails it. Its scope is computed as the code does it, from
names and tiers, so namesakes are reached (`ReachIsConsented` says how far). A scan follows logs of
its probe and a cleanup streams dumps, which the client's timeout does not bound (`Streaming`).

### Commands

`Processes` has what an invocation is: a step `at`, an exit code, a bound on how many there are.
`Waivers` is the file read whole, changed in memory, truncated and written in place, without
a lock. `Update` is check, offer, locating the executable (`main.rs:606`: once, before the fetch), fetch,
staging, sync, test and rename. `Commands` adds the run: the
loop over contexts (several may lead to one engine, an engine may not be reached), plan with the
waivers of that moment, second scan, application, exit code, and the restart as the new
binary after an accepted offer. An error ends a process with any code `Error::exit_code` has for one
(`Errors`): which, is Docker's affair. Any process may be killed at any step, a run may be
interrupted, and the power may fail, which loses what was not synced. `disturbed` becomes
true when two changes of the waiver file overlap or a torn file is read: the code
defends against neither, and `WaivedAreSpared` is claimed of all other behaviours.

`Arguments` says what comes before: the words of a command line, one by one, with operands that may
look like options; then what is done, of several things asked for at once. `MCArguments`
assumes, of all short lines: only `--apply`, read as an option and beside no command, cleans;
options commute, and of two that set the same the later counts; a forget takes a
reason, and a vault command that is refused does nothing.

Left out: what reports say, default roots, the schedule of the update check (an answer just stops being fresh),
signatures and transport (a manifest is one the key has signed).

### App

Everything on the main thread is one action at a time; beside it run the helper process
(`Launches`, `Decides`, `Writes`, `Exits`), the thread that reads its output and waits for its exit, the
thread that drains its errors, and Sparkle, whose session (`cycle`) calls the delegates. A pipe
holds `Capacity` lines and a writer to a full one waits. Lines an app of this version cannot use are
not sent, except one that stops the reader (`Stopped`): another protocol or a line too long.
Every button that runs the helper is a `Command`, told apart by whether it changes resources. The end of
an operation is one block of the main queue (`Finishes`): the postponed install goes ahead
(`hostBecameIdle`) while the state is still the operation's, so Sparkle may ask the app to quit from within
that call and be refused. Crashes of the app are left out, as are text, totals and progress. The six
seconds of the launch check are an event that may come any time. A helper ended by SIGHUP reads as exit code 1, "findings".

## Runs

Each run asks one question; `PROJECT.json` names its properties, and for each
property of a passing run one mutation of the model that breaks it.

| Run | Shows | Bounds |
|---|---|---|
| `executor` | safety, accounting, refinement of `SafeRemoval`, termination unless a stream stands still | two resources sharing a name, one an irreversible volume; four kinds of run; two facts; two writes |
| `vault` | no half archive is listed or restored; an entry one store was at is whole, stays and is restored exactly; every call ends, or stands in a dump | two processes, stores of one entry at once included, one volume, one second, one outage |
| `provenance` | no volume is condemned for a directory only strangers told of; scanning again confirms an absence | one scanner, three volumes, two directories, two containers |
| `provenance_two` | one miss is never enough; memory alone licenses nothing | two scanners, two volumes, one directory |
| `tier` | what goes without asking: only late writes are lost, mounts stay known, no single removal takes a path, facts read are enough and no more, cleaning up ends | three containers, volume, image, network of one project; two disturbances |
| `tier_rooted` | a declaration alone keeps a volume | as `tier`, the project under a root |
| `tier_batch` | **violated**: two removals of one batch take the last record of where a project is | as `tier`, no disturbance |
| `probe` | a reconstructible volume is one, as far as it could be read and its listing went; no container is left | two volumes, two directories, a file; two levels; one write, one unreadable part |
| `probe_unreadable` | **violated**: a volume with an unreadable directory is called empty | the same |
| `tui` | one worker, ticks of the user's, reach within consent, receipts last, promises kept, busy screens end unless a stream stands still | four items, two of one name; five plans; three threads |
| `commands` | waived items are spared, the executable is whole, exit codes account | two processes, one of which may be a run; three invocations; three contexts of two engines; two releases |
| `app` | nothing is cut short, reports are whole, a reclaim is of what was scanned, operations end, the first scan starts or is lost for one of the reasons named | two settings, one tier, pipes of one line, four lines in all, two operations |

Why the bounds are enough. *Executor*: the stages of an item touch only that item, the
vault and the flag; two items make every pair of stages of different items meet (a
late removal of the first with any stage of the second), and a shared name exercises
the fence by names. Two writes allow one before and one during a dump. *Vault*:
entries do not share files, so one id suffices; two processes let any two of store, restore and
forget meet, two stores of one entry among them. *Provenance*: counts past `MIN_ABSENT_SCANS` are all alike
and are capped there; the third volume is the one a path must be recalled for from
another's memory. *Tier*: two mountless carriers and one with a mount are the three kinds
of carrier a project can have, and a fact of one item that leaks into another's shows
with two; two disturbances let the index fail in both scans, or a container stop and
another be written to. Everything else about a resource is a function of its own
report entry. *Probe*: a file below the limit of depth, beside a cache, under a closed directory
and moved past the walk are the ways to miss one, and one file and two directories give all
of them; two volumes let a batch mix up results. *Tui*: three threads are a scan, a cleanup and
the rescan that may be impatient. *Commands*: three invocations are a change of the waivers, an
update and a run, in any overlap of two; both releases say what they are, so that a binary which does not
is refused is left to `ExecutableStaysWhole`, which holds of every `Says`. `MCView`
lets TLC take two states for one that differ only in what an ended process knew (its
release, answer, manifest, staged file, plan): no step reads it before `Begin` or
`Restart` sets it anew, and no property of that run speaks of it. *App*: a pipe of one line blocks as one of 64 KB does; two
operations let the second begin from any end of the first.

Bounds inside the modules: `MaxWrites` and `Concerned` (Executor), one outage, no
decay between a restore's check and its read, no second of a forgotten entry again
(Vault), `Capped` counts (Provenance), `MaxEvents` and `Lives` (Tier), `MaxWrites` lines and
`MaxOps` operations and changes of settings (App), `MaxStarts` (Commands).

`executor`, `tui`, `commands`, `probe` and `app` switch off deadlock checking: a finished run, a
closed interface, the last invocation allowed, the last scan allowed, a quit app stop.

`TypeOK` is an invariant of `executor` alone; those of the other modules are proved (below).

### What the violated runs say

1. `graph.rs:312` asks whether a container is the only carrier in the *report*. All items of a
   batch are checked against one report (`main.rs:1011`), so two carriers that mount nothing
   vouch for each other and both go. The same loss has a second cause the run does not
   need: `all_historical_owners` recalls one owner per volume, so the path said to be
   "stored with each edge" (`tier.rs:322`) is hidden by another project's container
   on the same volume.
2. `probe/mod.rs:364` returns from a directory that cannot be opened without marking the walk as
   cut short, and the script's `find 2>/dev/null` does the same in the container. A database
   whose directory is closed to the reading user is "walked to the bottom, and not one
   file", therefore empty, therefore reconstructible.

### Other disagreements, reproducible

Each is a configuration that TLC refutes or a definition that does not hold when added to its
module's configuration; they are statements of the repository about itself.

| Configuration or definition | Says | The code |
|---|---|---|
| `MCExecutorInterrupt.cfg` | "an interrupted run must not go on to prune the cache" (test, `execute/mod.rs:1463`) | 526 consults a local that is set only at the top of the loop; an interrupt during the last item, or with none selected, goes unseen |
| `MCVaultSameSecond.cfg` | a returned entry is "permission to delete" (`vault/mod.rs:134`) | 179 truncates the temporary file of another store of the same volume and second |
| `MCVaultRestore.cfg` | "Refuse to restore over anything that exists" (`bollard_client.rs:536`) | 538-551 list, then create, which the daemon answers with an existing volume, then unpack |
| `MCProvenanceCorroborated.cfg` | an absence counts when the parent is there (`src/README.md:189`) | `scan/mod.rs:664` counts `is_dir()` alone, so one look after an unplugged disk's two misses is enough |
| `MCProbeCapped.cfg` | "a derivative marker only counts when it dominates" (`probe/mod.rs:444`) | the listing that is classified is the one "capped for display" (297): a cache and noise enough to fill it hide what lies beyond, and the volume is reconstructible |
| `MCProvenanceGuess.cfg` | a guess "may never justify a deletion" (`providers/mod.rs:504`) | `scan/mod.rs:816` makes any claim whose path was recalled strong |
| `MCCommandsRestart.cfg` | "the run continues, on the new version" (`main.rs`, the offer) | on Linux `current_exe` of a file renamed over ends in " (deleted)" and the exec fails |
| `Tui!QuitEndsBetweenItems` | "q cancels after the current item" (`ui.rs:570`) | the process ends with the worker wherever it is (`lib.rs:153-162`) |
| `Tui!UntickedIsUnreachable` | "anything the user did not tick is unreachable by this run" (`lib.rs:375`) | a namesake of another kind is reached |
| `Tui!WaivedIsSpared` | "A waiver marks matching resources Protected" (`src/README.md:185`) | `lib.rs:316` plans without waivers |
| `MCAppNamed.cfg` | the review sheet names what is reclaimed (`Views.swift:322`) | a scan from the menu while the sheet is open resets the selection to the safe tier, and the confirmed action takes it from there |
| `MCReclaim!DeliveredIsNotShort` | "Did the run deliver materially less than it promised?" (`execute/mod.rs:172`) | 612 adds the plan's build cache to what was promised also when the run was not to touch it, so `--tiers orphan` is told that "something in that chain is not working" |
| `MCAppStuck.cfg` | "was stopped" (`Service.swift:73`) | the reader stops, the signal only sets the helper's flag, the helper waits on a full pipe, and the app is busy for ever |

Seen without a model: `predicted` is "what the plan said it would free, before anything was
attempted" (`execute/mod.rs:125`), but only what was removed counts (608); the interface takes "the first
local context" (`src/README.md:411`) of a list that `--remote` lets start with another; `declared_volumes` says "when in doubt this includes rather than excludes"
(`providers/mod.rs:266`), but four columns of indentation, `name: {}`, a trailing comment,
quotes and `docker-compose.override.yml` are all missed, and declarations attach to the
directory's name, which `name:` or `COMPOSE_PROJECT_NAME` may differ from; "gap-free" sequence
numbers (`json/mod.rs:24`) start over with each context; the interface leaves with code 0
after a failure, though it "mirrors the CLI's contract" (`lib.rs:214`); "nothing was changed"
(`main.rs:374`) is also printed when an earlier context was cleaned; an older manifest may be
renamed over a newer release when two updates overlap.

## Fairness

- The client's 120 s timeout bounds the wait for an answer to *begin*. A stream that has begun has no
  bound: the archive of a dump (`bollard_client.rs:728`) and the log a container probe follows. Fairness
  excepts the steps that read one, and the liveness properties say so: they hold, or some process stands
  in one stream for ever.
- `Executor`: weak fairness of the process's own steps outside of streams (`Streaming`). The daemon and
  the world owe nothing; the timeout is `AnswerLost` and `StoreFails`.
- `Vault`: weak fairness of a process inside a call but not in a dump. Every other stage has a failing exit.
- `Provenance`: people scan again (the program's own advice, "run again to confirm"), a
  scan is not abandoned for ever and the index is not busy for ever, hence strong
  fairness of the four steps that can be pre-empted for ever by abandoning.
- `Tui`: the event loop drains its channel, threads do their work outside of streams and the process
  ends once the loop has; keys owe nothing.
- `App`: the helper and both readers run, the main queue is served and the six seconds pass. Sparkle's
  own check may be silent for ever; that is what the six seconds are for. Nobody owes an alert or a quiet reminder
  an answer (`Updater.swift:156`), so `LaunchScanStarts` excepts one that is presented for ever. It says
  that the scan *starts*: `releaseFirstScan` calls `scan`, which returns when the app is busy or the settings
  are not valid (`AppModel.swift:101`), and `IsLost` names just these. `OperationsEnd` takes the helper to
  end: of a helper that stands in a stream, nothing in the app says otherwise. `Commands` and `Probe` state no liveness.
- `Tier`: the program is run again and again, by a person or the app. Some step of it can
  be taken in every state, so fairness is that such steps are taken for ever. Other people
  do finitely much (`MaxEvents`), which is the premise of `CleanupSettles`.

## Proofs

All for arbitrary values of the constants, from the assumptions the modules name.

`Executor` (`ConstantsAssumption`, `OrderAssumption`, `MarksAssumption`):

- `TypeCorrect`: the typing of the state together with `PosInv`, that the position is
  within the plan wherever an item is being handled.
- `RemovalsArePreserved`: copies before removals. `PreservedBeforeRemoved` is not
  inductive: a removal in flight will happen whatever the process does. `SafeInv`
  adds `BusyInv` (what the item at hand satisfies at each stage), `RequestInv`
  (whatever is in flight was licensed, and has a copy if precious) and `AheadInv`
  (nothing is known yet of items further on).
- `DryRunsTouchNothing`, `CancellationIsFinal`, `RunsStopBetweenItems`:
  from `SafeInv` and `TailInv` (the cache is untouched until the tail is left).
- `LateWritesAlone`: what a removal can lose is only what was written after the check.
  `ContentInv` follows the content of the item at hand through check, dump and store:
  the write counter never repeats a value, so equal contents at two moments
  mean that no write came between.
- `ReceiptsAccount`: `CompleteInv` (items behind have outcomes), `AnswerInv` (an `ok` is of a
  removal that happened) and `TruthInv` (a removal of a recorded item is listed).
- `ExecutorIsSafe`: `Spec => SafeRemoval!Spec` with consent and licence read off the
  options, the report and the history. Each daemon removal maps to `Remove`, storing to
  `Preserve`, accepting to `License`, all else to a stutter.

`Vault` (`VaultAssumption`, and nothing about who else stores):

- `TypeCorrect`. `TypeOK` says more than shapes: no manifest is of an archive
  that has decayed and nothing decayed is unpacked. `InHand(p)` says what a process holds at each
  stage and that its descriptor is on a file there is.
- `ListedStaysWhole`, `ReliedEndures`, `RestoresAreExact`, all from one
  invariant. `Apart` says that two stores at one entry have been noted; of a process at an entry that
  is not `crossed`, `Sound(p)` says, stage by stage, what it has achieved: a store has a
  synced temporary file equal to its digest, then a synced archive equal to it, and its
  entry is neither listed nor forgotten before it lists it; a restore or a forget is of an
  entry that was listed. From this `StoresAlone`: the entry of a store that has not
  returned is nobody else's, so its steps disturb no one. `Listed(i)` adds to
  wholeness that the archive is synced, which is what an outage asks for. What holds of crossed
  entries too (no manifest of half an archive, nothing half or decayed unpacked) comes from the shapes.

`Provenance` (`ProvenanceAssumption`):

- `TypeCorrect`: the counts stay capped, and whatever a scan has in hand is of its own projects.
- `MissesAreConfirmed`: what a scan read of the counts may be old when it judges, so `CountsInv` puts
  both the index's counts and each scanner's copy of them below the misses that really
  happened. It uses that `MIN_ABSENT_SCANS` is at least 2.
- `MemoriesLicenseNothing`: `CatalogInv`, a project is in a scan's catalog only for a container
  the scan has seen.
- `AbsencesAreOfTheirOwn`: `ToldInv`, whatever the index, a catalog or a memory names is a container that
  was recorded once, with the volumes it mounted; so a path a volume is judged by was told by one of its
  own, even where another volume's memory located the project.

`Tier` (`TierAssumption`: kinds of resource are disjoint, carriers are labelled):

- `TypeCorrect` stands alone.
- `LosesOnlyLateData`, `RemembersMounts`, `KeepsDeclared`, `KeepsConfig`, `KeepsPaths` come from one
  invariant, `VerdictsHold`: of every item with the same free verdict in both reports it says what
  that verdict was about, and that whatever has changed of it since is in `late` or `stirred`, hence
  somebody else's. It must be said while the second scan is still under way, when the
  first half of the facts is older than the second; `LayersAreTold` is that intermediate state.
- `OnlyReadFactsCancel` compares two scans. `Quiet(r)` says that nobody did anything to the item, to
  what holds it, to what tells of its project or to the project; `PlanStands` and `CheckStands`
  then say that what either report saw of it is what is there, `SameFacts` that two such
  reports give equal facts, and `SameVerdict` equal verdicts.
- Hypotheses. `KeepsConfig` has `MinAbsentScans = 2`, which is the code's constant: with 3 a plan
  could be of a second look and its check of a third, and the directory need not have been missed in
  between by anyone who was told. `KeepsPaths` has `Tellable`, which says only that the value for "no
  verdict" is none. Both hold in the configurations TLC checks.
- Volumes that projects share are in. The index answers with the newest owner of a volume
  (`all_historical_owners`, `index/mod.rs` 415-442), so whose a volume is can change between the two scans by what
  happens to *another* project, and a path is told no more although its container's volume is there.
  `PathsGoInPairsOnly` and `OnlyWhatWasReadCancels` say so, each in one disjunct that holds only where
  containers of two projects mount one volume. `MCTierShared.cfg` has such projects: both properties hold there and
  are false without the disjunct.

`Probe` (`ProbeAssumption`: finitely many nodes):

- `NoContainerIsLeft`: at most one container is to be seen to, and every way out of it but a kill
  leads through the removal.
- `ReconstructiblesAreTrue`: for each entry that lay still, either the walk has met it, or a frame
  of the stack still leads to it (`Leads`), or it hides behind a directory that refused. Frames of a
  stack are a snapshot of a tree others change, so `Pending` is stated along the path of the entry
  (`Path`), and a move of anything on it makes the entry one that did not lie still. `Through` is the
  least set closed under "child of", which the lemmas `ThroughLeast` to `ThroughClosed` make usable
  without recursion; walks are of trees without cycles, from `Init` on.

`Tui` (`TuiAssumption`; the name that stands for all names is not a set of names):

- `OneWorkerAtATime`: at most one answer is under way, none while a thread works, and
  on a screen where a key starts a thread neither.
- `TicksStayWithItems`: `TicksInv`, no item has two rows and the ticked rows are those of the
  picked items.
- `CleanupsReachTheConsented`, `PromisesAreKept`: `JobsInv` (the only thread that can be busy or have
  answered is the last one started, and the screen says what for) and `ReachInv`: while the user can
  still change the ticks nothing has been selected, and once something has, ticks and promise
  are those it was selected by.
- `ReceiptsComeLast`: `CountInv`, items done with are shown or on the channel before the answer.
- `TypeCorrect`: the above, and that a forwarder has no more to pass on than was found.

`Commands` (`ProcessesAssumption`, `WaiversAssumption`, `UpdateAssumption`, `CommandsAssumption`):

- `ExecutableStaysWhole`: `UpdateInv` says what an update knows of its staged file at each
  step. Staged files are a process's own, so only a rename touches the executable, with a
  file that was fetched whole, synced and run.
- `WaivedStaySpared`: while nothing has disturbed it, `WaiverInv` says that at most one process
  is changing the file, what the file or the memory of that process holds of the waivers in
  force, and that neither the plan nor the deeds of a run touch what it owes to a waiver.
- `ExitCodesAccount`: `ExitInv` keeps, for each run, what is in the tally of an engine against the
  contexts behind the loop, and a failure against the exit code it has so far.

- `TypeCorrect`: `NextInv` keeps the loop within the contexts; the rest is in the three above.

`App` (`AppAssumption`):

- `NothingCutShort` from `Ordered`: the end of an operation is the last thing told, once the
  helper is gone, and until it is heard the app is busy, which is what quitting and the
  updater ask.
- `ReportsAreWhole`: `PipeInv` follows the lines that are in the pipe or on the main queue. A line
  carries no context, so `Under` says which context a line will be taken to speak of when its turn
  comes, and `Whole` that what is shown, with what is on the way, is what the helper said.
- `ReclaimsOnlyTheScan`: `KnownInv`, as long as no scan is called for, what is known is the scan shown.
- `TypeCorrect`: with `Spoken`, no pipe holds more than its capacity.

Only model-checked: liveness (`Terminates`, `OperationsEnd` of `Vault` and `App`, `AbsenceIsConfirmed`,
`CleanupSettles`, `BusyScreensEnd`, `LaunchScanStarts`), which is beyond the prover; the two
violated properties; and what the operators of `Compose`, `Reclaim` and `Arguments` compute, which is
checked on bounded inputs because texts and command lines are read recursively. Every other property of a
passing run is stated by a theorem.

## Plan

1. An abstract vault that `Vault` implements and `Executor` relies on, and an abstract cleanup
   that `Executor` implements and `Tui` and `Commands` rely on.
2. `Provenance` with images and networks; the schedule of the update check.

## Not modelled

Finding and reading the disk image (I/O), connection and decoding of the Docker client,
the context store on disk, drawing, signatures and transport of updates, the reports
printed, build and test tooling.
