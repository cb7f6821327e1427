# Verification of forge-persistence

TLA+ models of the whiteboard persistence service in `src/`: what it stores, how it
cleans up after itself, what its configuration makes of it, and how it is installed and
upgraded. TLC checks the models on small instances; TLAPS proves the main results for every
value of the constants.

## 1. The system

A single Node process (express, port 3000) behind an optional nginx. It stores what
whiteboard clients upload, and a background cleaner keeps the disk from filling up.
All concurrency is the event loop's: a handler runs until it awaits, and between two
awaits anything else may run. File streams (`fs.WriteStream`) open, write and close in
the background.

| component | source | state | operations | talks to |
| --- | --- | --- | --- | --- |
| snapshot store | `src/src/file.ts` 107-156 | the room directories: `latest.snapshot`, `<ms>.snapshot` | `putSnapshot`, `getLatestSnapshot` | called by `PUT /snapshot`; shares its files with the sweep |
| client log handler | `src/src/file.ts` 43-105 | map room -> append stream, idle times | `putLogs`, `clearStream` (each minute), `getActiveLogRelativePaths`, `deleteClientLogSafely` | called by `PUT /client/logs` and, as callbacks, by the cleaner |
| disk cleanup planner | `src/src/disk-cleaner.ts` 224-394, 491-528 | none between calls; running totals during one | `planDiskCleanup`, `minFreeBytes` | called by `cleanupDisk` |
| sweep | `src/src/disk-cleaner.ts` 115-230, 396-441 | none between calls | scan, plan, deletion loop | shares files with the handlers |
| cleaner run control | `src/src/disk-cleaner.ts` 443-579 | `running`, `currentRun`, `lastRunAt`, status fields, timer | `start`, `requestRun`, `run`, `getStatus` | called after every stored write, by the timer, and by `POST /admin/disk/cleanup` |
| server log | `src/src/log.ts` | stream, `currentBytes`, `rotationFailed`, files | `handler`, `rotateIfNeeded`, constructor | called by everything; its rotated files are cleaned by the sweep |
| HTTP handlers | `src/src/index.ts` | none | routes | call all of the above |
| upload decoder | `src/src/RawDecoder.ts`, `RawDecoderV2.ts` | position and metadata of one request | `decodeMeta`, `decodeSnapshot`, `decode`, `checkTimestamp`, `encode` | `PUT /snapshot`; the history codec has only commented-out callers |
| start-up and configuration | `src/src/init.ts`, `bootstrap.ts`, `url.ts`, `src/deploy/scripts/*.js` | `config/app.json`, and the copy of it the process holds | defaults, checks, merge | decides what the routes answer |
| admin token check | `src/src/admin-auth.ts` | none | comparison | admin routes |
| setup and upgrade | `src/deploy/setup.sh`, `src/deploy/scripts/*` | files of the installation directory, the containers | `init`, `setup`, `upgrade` | operator, Docker |
| RTM tokens | `src/src/rtm-token/` | none | `buildToken` | third-party code |

What is hard about it:

- **Files change under the sweep.** It scans, plans without awaiting, then unlinks one path
  at a time. Uploads write the same directories throughout, and a room found empty is removed
  recursively.
- **Uploads overlap.** Nothing serialises two uploads of one room, and `latest.snapshot` is
  written in place.
- **Streams outlive the decision to close them.** A closed stream keeps writing what it has
  buffered; a renamed or unlinked file keeps receiving it.
- **Free space is measured twice and summed in two accounts**, one per directory, that may or
  may not be one volume; the mount a plan works for may change while it is being made.
- **One slot for cleanup runs**, asked for by three parties, and settled in microtasks after the
  body has ended.
- **A configuration has two formats and three readers.** The merge, the check before start-up and the
  service each decide for themselves what an absent, an empty or a deprecated key means.
- **The installation scripts can stop anywhere**, are run again over what they left, and rewrite the file
  that a restarting container reads at the same time.
- **Failures**: `ENOSPC`, `ENOENT` at every call, a failed rename, a crash between truncation and
  write.

What makes each component correct: the planner takes what the policy lets go, in the
promised order, with a reason for each file, and says truly whether limits hold; the store
keeps each room's `latest.snapshot`, whole where uploads did not overlap or fail, and the history of every upload it
acknowledged until the policy takes it; the log handlers lose no line but with a failed stream or an unlinked file, and leak
no handle, and the server log keeps order; the run control never runs two sweeps, answers its callers and shows
status fields that belong together; an upgrade changes no answer of the service and what was checked is served; whatever the
scripts are interrupted in, the customer's configuration is not lost and nothing starts on another one;
an upload is stored under its own room, and a history survives being decoded and encoded.

## 2. The modules

    RetentionPlan   <--refines--  CleanupPlan
         ^   ^
         |   +---- assumed by --- ClientLogs
         +-------- assumed by --- SnapshotStore
    DiskCleaner     (starts the sweeps of SnapshotStore and ClientLogs)
    FileLogger      (its rotated files are the sweep's)
    Config   <--extended by--  Service   (the file, and the service that reads it)
             <--extended by--  Setup     (the scripts that write it, the containers)
    RawDecoder  <--extended by--  Upload (calls SnapshotStore's putSnapshot)

**RetentionPlan** is the contract of a cleanup plan: it grows by files the policy lets go
(`Erasable`) and is handed over only when it has all it must have (`Overdue`). `CleanupPlan`
is shown to implement it (`KeepsContract`, checked and proved). `SnapshotStore` and `ClientLogs`
take it as all they know about the plan, so that they hold for any sizes, limits and free space
without carrying the planner's arithmetic along.

**CleanupPlan** is `planDiskCleanup` with `minFreeBytes`. The seven passes are the values of
`pass`; a step looks at one file (`Visit`) or goes on (`NextPass`). `Queue` is a pass's
filtered list and `Visit` takes its oldest file, ties in any order. `Wanted` is what the pass asks
of the file (the cap test, the limiting mount), `Breaks` the emergency loop's `break`, `MarkDelete`
the helper of that name, `EffectiveFreeBytes` and `LimitingMount` the two helpers. `shared` is not
program state: it says whether the two directories really are on one volume, which the code can only
guess from the readings, and is read by properties only. Sums of sizes are the constant
`TotalSize` with the one law they need (`TotalSizeAssumption`); the MC module gives the real sum.

**DiskCleaner** is the object of that name. The body of a run goes through `phase`
(`measuring`, `scanning`, `deleting`), and its ending is several steps, because the catch and
finally clauses run in microtasks of their own: `Finish` or `Throw`, then `Catch`, then `Settle`.
Identities of runs are reused once nothing refers to them, so that their number bounds only how many
are remembered at once. `TimeoutMax` is the longest delay a Node timer takes.

**SnapshotStore** has every file system call of `putSnapshot` and of the sweep as a step: `mkdir`,
open with truncation, write, for both files; `readdir` and `stat` for each room and file; `rm`,
`readdir` and recursive `rm` per deleted file, the last one as the sequence of calls the
runtime makes of it. A file's data is a sequence of chunks that carry the upload they came from.
`linked` says whether an open file still is the one in the directory. `WriteFails` leaves what is
there (a truncated file), `Crash` drops everything in flight and keeps the files. The sweep's own calls may fail too: a scan that
fails ends the run (`ScanFails`), a failed `rm` is noted or swallowed (`DeleteFails`, `RemoveFails`), and a failed `readdir` of the room
is taken for an empty room (`CheckRoom`), whatever the room holds. `misread`, `left`, `taken`, `lastAck` and `overlapped` are
history variables, read by properties only; `overlapped` is a relation between uploads.

**ClientLogs** has `putLogs`, `clearStream`, `getActiveLogRelativePaths` and the two halves of
`deleteClientLogSafely` (up to its await, and the `rm`, which may fail), and the streams' own steps (`Open`, `Write`,
`Close`, `StreamFails`). `attached` says whether a stream's open file still has its name. A
failed stream stays in the map and drops what it is given, as in the code. `fate` records what has become of each
line and is read by properties only.

**FileLogger** has `handler` as one synchronous step in its four outcomes (`Log`, `Rotate`,
`RotateNothing`, `RotateFails`), the streams' own steps, a restart of the process and the
cleaner's deletion of a rotated log. Streams are numbered and never reused.

**Config** has no variables. It is what three programs make of one `config/app.json`: `Merge`
(`config-merge.js`), `Valid` (`validate-config.js`, strict or not), and `Starts`, `Effective`,
`PublicBaseUrl`, `IsBootstrapRtmConfig` and `HasAdminAccess` (`init.ts`, `url.ts`, `bootstrap.ts`,
`admin-auth.ts`). A file is a record of the keys that decide something; a key may be `Missing` or `Empty`,
which the three programs treat differently, and that is where they can disagree. `Behaviour` is
all that clients and administrators can tell of a configuration.

**Service** puts these on one file: `Upgrade` and `Check` act on the disk, `Start` reads the file and keeps what
it read (or refuses), and the routes whose answer the configuration decides answer from
what was read, however the file has changed since; the snapshot URL is asked for with a `Host` header and without one,
which only a configuration that names no public URL tells apart (`PublicBaseUrl`). `trusted` remembers which checks the file had passed when
it was read; it is read by properties only.

**Setup** is `setup.sh`. A script is a list of steps, `todo`; each step is an action, and a step that writes a
file is two, because `cp` and `writeFileSync` truncate first (`BeginWrite`, `EndWrite`). Skipped
steps, `set -e` (`Fail`) and the order are the script's. `Interrupt` stops it between any two of
them. Beside it the service's container dies, and restarts from whatever `config/app.json` then holds if the override
it was created with is the example, which is where the restart policy is (`Restarts`, `RestartProcess`); the compose files, those of older
packages too, have none. The operator edits the file while no script runs, and the clock ticks, which is what names the backups. `Up`
is `docker compose up -d` as far as the script relies on it: it creates and recreates containers whose image or definition
changed, which the package, the mode and the override decide for the service, and the package alone for nginx (this package's
definition adds port 443 and `./config/tls`); it starts those that are stopped, and leaves the others alone, so that they do not see a file that
changed. `own`, `stale` and `collided` are the operator's view and are read by properties only.

**RawDecoder** is the two decoders as functions on sequences of bytes: lengths read big-endian, a
`RangeError` where `Buffer` throws one, slices that stop at the end of the buffer, padding,
decimal timestamps. **Upload** is the handler of `PUT /snapshot` around `decodeSnapshot`, on requests that
may be cut after any byte, and the history codec's three operations in the order `index.ts` has them.

Definitions under a comment that begins with "Fault" are the plausible mistakes against which each
property is tried; no specification uses them.

## 3. The runs

| run | distinct states | what it shows |
| --- | --- | --- |
| `CleanupPlan` | 726 000 | two histories, a client log, a latest; every age in {0,1,2} (limits 1), size in {1,2}, reading in {0, 2, missing}, both `allowDeleteLatestSnapshot`, both layouts: contract, order, reasons, caps, no false all-clear |
| `DiskCleaner` | 665 000 | single flight, status fields that belong together, spacing of automatic runs, callers answered: 3 runs, a caller, writes, the timer, clock to 3 |
| `SnapshotStore` | 2 973 000 | with `allowDeleteLatestSnapshot` off: 2 uploads of one room (1 and 2 chunks), failing calls of uploads and sweeps, one crash, clock to 4: what survives, and whose contents the files hold |
| `SnapshotStoreAllow` | 294 000 | with it on, ages 0, clock to 2, no crash: how a latest can go, and that uploads and sweeps end |
| `ClientLogs` | 205 000 | two rooms, three batches, two streams that may fail, sweeps whose `rm` may fail: handles, where each accepted line is, active logs, everything settles |
| `FileLogger` | 202 000 | three lines (of 1 and 2 units, limit 2), four streams, two ticks, one restart, failing renames, stats and streams |
| `Service` | 104 000 | what `init` leaves, with any two of its four aspects (public URL, admin token, RTM, paths and TLS) set in every way: an upgrade keeps every answer and settles at once, a checked file is served |
| `Setup` | 1 088 000 | fresh hosts and an older installation with the example of the override or the customer's own, two modes, two files to save (one the service refuses), two seconds: interruptions, restarts and repetitions lose no configuration and serve no other; the service comes back |
| `Upload` | 75 000 | five room names, three user names, four bodies, cut after every byte; histories of up to two items with every residue of the padding: nothing stored under a wrong room, round trips |

Three more runs are expected to end in a violation: `SetupHttps`, `SnapshotStoreFresh` and
`ClientLogsUnlink` check, each, one sentence of the repository's documents against what the code
does; section 5 explains them.

Why the bounds are enough. A plan's conflicts are between two files of one class (order), a
history and a log (mounts and priorities) and a latest (last resort): the instance has each of
them, and two values on each side of every threshold. Overlaps are between two uploads, two streams of
a room, or an upload and the sweep; a third actor repeats one of these. `ClientLogs` has two rooms because a line
could end up in the wrong room's log, and two streams, one of which is old. One crash leaves behind
whatever a process can leave; a second one starts from such files again. Three log lines make two
rotations, the number it takes to collide. Clocks need one value beyond the longest age. A clause of
the merge, the check or the service reads keys of at most two aspects, so that pairs of aspects
meet all combinations. `Setup` needs two seconds for backups, since two within one is the exception the
property names, and is otherwise bounded by nothing: scripts are repeated for ever. The codec's padding depends on lengths modulo four.

### Fairness

Fairness only for what the runtime does by itself: file system calls
complete with a result or an error (`RunStep`, `UploadProgress`, `SweepStep`, `StreamWork`), settled
promises resume who awaits them (`Answer`) - uploads and streams are never assumed to fail, so
that nothing ends only by an error -, and in `ClientLogs` time passes and the one-minute
interval fires (`Tick`, `ClearStream`). In `Setup` a script that is not interrupted goes on (weak, `Step`),
Docker starts the process of a container it was told to start (weak, `StartProcess`), and restarts one whose policy says so
(strong, `RestartProcess`): it retries with a back-off for as long as
the process does not stay, while the moments in which the file is torn last milliseconds, so
that a retry eventually falls outside them. Clients, operators, triggers, interruptions, crashes and, elsewhere, the clock
get none. The planner, the configuration and the decoders are synchronous and are given none.
`FileLogger` may fall silent when nothing is logged, so its run does not check for deadlock.

## 4. The proofs

The theorems hold for every value of the constants that satisfies the modules' named assumptions, and TLC
evaluates these assumptions on every run. The first five entries below each prove type correctness and
the following.

**CleanupPlanProofs** - `KeepsContract`, `OldestFirst`, `EmergencyOrder`, `CapsExhausted`,
`AllClearIsTrue`, `DeletionJustified`. None of these is inductive. The inductive invariant `IInv` adds

- `Accounting`: the running totals are the sums over the files not yet marked, and the free
  space of each mount its first reading plus what was marked there. This is where counting a file
  twice would show.
- `Greedy`: while a pass still wants files of its class, it has marked all it has looked at (in the
  emergency pass: all that lies on the mount it works for), and it looks at the oldest first.
- `AgedGone`, `CapsTried`, `EmergencyTried`: what each earlier pass has achieved, kept by all
  later ones because marking only ever lowers the totals.
- `Verdict`: `overLimit` is the comparison of the final sums.
- `SplitMeansDifferent`: the two readings differ if and only if `split`, which is why the larger
  running total cannot exceed what the volume really has.

`OldestFirst` deserves a word: on split mounts the emergency loop skips files of the healthy mount, and
one would expect it could mark a younger history after skipping an older one when the limiting mount flips. The
proof shows it cannot, because the histories all come before the logs in one list, and the first group
cannot flip the balance towards itself. The list's *third* group, the latest snapshots, can: see section 5.

**DiskCleanerProofs** - `SingleFlight`, `StatusTellsLastRun`, `AutoRunsSpaced`. `IInv` adds
`RunInProgress` (what phase the current run may be in and what it has recorded so far) and `ShownRuns`
(the runs the status refers to have ended, as what they are shown for, and a result beside an error is of a
success before the failed run). All actions that start a run share one
lemma.

**SnapshotStoreProofs** - `LatestSurvives`, `NeverEvicted`, `LatestGoesOldOrEmptied`. What the first two have
in common is `Kept`: while latest snapshots are protected no plan contains one; an upload creates
`latest.snapshot` before it can leave a history file; so a room that has a history file to delete has
a latest, is not found empty after the deletion, and is removed only if the sweep failed to read it (`misread`). The
invariant says so of rooms, of uploads at each `pc` and of each stage of the sweep. That the file has something in it is `Filled`: an upload
that has truncated it still has the file that is in the directory, so that it is empty only until, or
because, such an upload did not get further. The third property needs the plan to come from the scan, the
scan's times to be times already past (`ScanTimes`, `PlanSound`), and that a room is removed with its `latest.snapshot` left in it only after a failed
read (`RemovalSound`).

The same module proves what the files hold: `HistoryIsWhole`, `MixedOnlyByOverlap`, `SequentialLatestIsLastAck`.
As far as files and uploads go a step of `Next` is one of four (`StepKinds`: nothing, an unlink, a crash, a step of an
upload), which spares these proofs the sweep's actions. `HistoryThere` says that a history file once opened is there until a sweep unlinks
it, and that only uploads of its millisecond write to it; `OwnHistory` that an upload no other shares its name
with has emptied its history file before it writes it. `Overlaps` follows an upload's bytes pair by pair: any two uploads of one room in
flight together are marked with each other, and whoever's bytes are in a file with whoever still has it open and with whoever
else's are there, because `open(.., "w")` truncates: without that, bytes of an earlier upload would stay behind a shorter later one. `InTurn`
uses it to know that an unmarked upload is the only one in flight: `latest.snapshot` is then what was last answered,
or empty, or whole, according to where that upload is; what a sweep unlinks meanwhile is covered by "if it is present".

**ClientLogsProofs** - `NoLeakedHandle`, `ActiveLogKept`, `LinesAccounted`. `NoLeakedHandle` becomes inductive with
`StreamsKnown` (a stream in the map is the one of its room, at work and not told to end, so a stream
cannot be in the map for two rooms and ending one leaves the others alone). `ActiveLogKept` needs
`ActiveNotPlanned`: the contract the sweep's plan keeps (`RetentionPlan`'s `Erasable`) lets no plan
name an active log, and only the log being deleted is unlinked. `LinesAccounted` needs that a closed or failed stream buffers
nothing (`NothingWaits`), so that a stream that is told to end takes its lines to the file first, and that a stream whose file is
still in the directory has it open (`AttachedFile`), so that what it writes is found there. Sequences are compared by what they hold (`Holds`, `Once`), so
no induction over the data is needed, only what `Append` and `Tail` do to that.

**ServiceProofs** - `UpgradeKeepsMeaning`, `UpgradeSettles`, `CheckedServes`, for every
configuration file and not only the instance's. Its first part is about `Config`'s operators and goes key by key: what `Normalized` and then `Merge` leave in each
key, then each part of `Behaviour` (public URL, RTM, administrators) for the merged file and the original,
by cases on which of the new and the deprecated key is given. From this: `MergeKeepsBehaviour` (with
`ShadowedToken` the exact exception), `MergeKeepsValid` and `MergeTwice` (the merge is idempotent: the
first one leaves no key missing that a second would fill). `CheckedServes` needs `CheckInv`: the file on disk
passes the checks it is marked with, and a running process holds the `Effective` of a file that passed those in
`trusted`, whatever has become of the disk since (`Trust`), and the last reply is that of this configuration (`ReplyRight`). `ValidAnswers`
then goes from what a check accepts to what the routes answer, with a `Host` header and without.

**SetupProofs** - `CustomerConfigKept`, `ServesCustomerFile`, for any installations, any files the operator saves and any
number of seconds. `IInv` says what a script may have left to do (`Shape`: the stamp comes right after the
copy of the example, the merge right after the backup, `up` last), what a write in progress is of
(`WriteInProgress`), and from these, what `config/app.json` can hold (`AppFile`: nothing, a torn file, the
shipped example as long as there is no configuration of the operator, and afterwards only that, as saved or merged).
The order of the steps is what makes the rest true: `Kept` (the file may be torn only after a backup of it was
finished) and `Checked` (no container without a configuration that passed the check, which the shipped token
does not; a process is started, created or restarted only in a container, `Serving`). `ServesCustomerFile` takes the merge's part from the lemmas in `ServiceProofs`: a merge of a merge is the merge, and behaves alike.

**FileLoggerProofs** - `NothingLostButByCollision`, `LinesKeptInOrder`, `ActiveLogBounded`. Three invariants, each on top
of the one before. `IInv` needs beside the first property that an open stream's file has a name or was taken by
the cleaner (`OpenFiles`), which is what a rotation onto an earlier name breaks, and that the streams to come have
nothing buffered (`Unused`).

`SInv` adds how streams and files stand to each other. The current stream was not told to end (`Endings`),
only a stream at work buffers lines (`BufferedWhenLive`), one that has not opened yet has no file (`Fresh`), and no rotated name is of a
later time than now (`Dated`). While every rotation went well (`Orderly`) there is one writer of `server.log` (`OneWriter`): only the
current stream may still be opening, older streams write to older files, and later rotated names are of later files.

`OInv`, for the order of the lines, says that files and buffers hold only accepted lines (`OnlyAccepted`) and that each file and
each buffer is in the order of acceptance, an earlier file before a later one, an older stream's buffer before a
younger one's, and a buffer after all files up to the one it goes to and before the files that come later (`LogOrdered`). `BInv`, for the
size, says that the counter covers the bytes of `server.log` and what the current stream has buffered, and is within the limit
unless these are one line (`WithinCount`), and that rotation is
only off after a failure (`Guarded`). Counting needs the buffer in it: `bytes` is raised when a line is accepted, not when it is written.

Both speak of recursively defined data, `FlattenSeq` of all rotated files and `Bytes` of a file. `NatSetInduction` is induction on
Nat stated of a *set* of numbers (from the well-foundedness of `<`), and `RecursionExists` proves from it that
the recursive function exists, so that its equation may be used. `FlattenSteps`, `BytesAppend` and `BytesTail` follow.

**UploadProofs** - `SnapshotUnderItsRoom`, `HistoryRoundTrip`, for any names, snapshots and histories of any length. What
a buffer holds is said by `At(b, i, s)`, byte by byte. For the first, `Cut` says that `raw` is the beginning of what a client
wrote; `CutSnapshot` goes through where the cut can be: up to the end of the user there is nothing left
for a snapshot, so nothing is stored, and after it the room has come whole and what is left is a beginning of the snapshot.

The second needs to know what the codec computes, and that is recursion everywhere: the digits of a timestamp (`DigitsRead`,
`TextRead`: what `parseInt` makes of what was printed is the number), the places of an item's fields (`ExtentSteps`,
`HeaderAt`, `ItemRead`), the concatenation of all items (`FlattenAt`) and the decoder's loop (`ItemsRead`, from the last
item back to the first). The loop is a recursive function on positions; that it exists (`ItemsExist`) is proved from the fact that
the next item always starts further on, which is why `decodeHistory` ends on any bytes. `Kept` is then the invariant: what is
in memory, or encoded in `raw`, is the history that was sent, with one number added to all its timestamps (`Moved`).

What these proofs assume of the constants is in the modules: `RequestAssumption` (what is sent are bytes, with lengths that four bytes
can hold, and histories have the version's number of fields) and `RangeErrorAssumption` (an exception is not a value). The conclusions
about a decoder are about what an encoder wrote; of other bytes only `PUT /snapshot`'s head is decoded, cut or not.

Only model-checked: all liveness, which is beyond the prover, as is `ENABLED`.

## 5. Where code and documents disagree

With a run:

1. `HttpsAfterSetup` (`setup.sh:107`, run `SetupHttps`): with `tls.enabled` set and `setup` run again, the template is rendered,
   but `docker compose up -d` leaves the nginx container that this package started as it is and HTTPS is not served, against
   `src/README.md:92-96`.
2. `OnlyOldLatestDeleted` (`disk-cleaner.ts:417`, run `SnapshotStoreFresh`): with `allowDeleteLatestSnapshot`, a latest uploaded
   between the scan and the unlink is deleted fresh, against the simplification plan, line 105.
3. `NoUnlinkBehindStream` (`file.ts:102`, run `ClientLogsUnlink`): a line accepted while `rm` is awaited reopens the log that
   `rm` then unlinks, against the plan's lines 38 and 106.

The models have these too, without a run of their own:

- on split volumes an old latest may go while a deletable history of its volume stays (`disk-cleaner.ts:368`,
  `Queue` in `CleanupPlan`), against `src/README.md:173`;
- on one volume the two directories' savings are not added up, so that a plan deletes more than it must and
  may report `overLimit` when it is not (`disk-cleaner.ts:293`, `EffectiveFreeBytes`), against `src/README.md:175`;
- after a failed run there is no minimal interval (`disk-cleaner.ts:557`), against `src/README.md:157`; `AutoRunsSpaced`
  speaks of completed runs;
- a `readdir` of a room that fails after one of its files was deleted, for whatever reason (`EMFILE`, `EIO`, `EACCES`), is taken
  for an empty room, and the recursive `rm` that follows removes the histories, the `latest.snapshot` and the directory,
  `allowDeleteLatestSnapshot` or not (`disk-cleaner.ts:424`, the rooms in `misread`, the exception of `LatestSurvives`,
  `NeverEvicted` and `LatestGoesOldOrEmptied`), against `src/README.md:150` and the plan's line 104;
- a write of `latest.snapshot` that fails, or that a crash interrupts, leaves the file truncated, and it is served with status 200
  (`file.ts:134`, `WriteFails` and `Crash`; `LatestSurvives` says that nothing else empties it, `Emptied`);
- overlapping uploads leave a `latest.snapshot` that is neither's (`file.ts:134`), the exception
  `MixedOnlyByOverlap` makes, against the plan's line 17;
- the check before start-up accepts any path that ends in `server.log`, the service only the file of that name
  (`validate-config.js:24`, `init.ts:71-72`), the exception `CheckedServes` makes;
- a configuration without a public URL passes the check that is not strict, and the snapshot URL is then taken from the request's `Host`
  header: a request without one is answered 400 (`url.ts:20-23`, which `test/url.test.js:34-37` asserts; `CheckedServes` promises it
  an answer only after a strict check);
- lines accepted by a client log stream that has failed are dropped until the stream has been idle for ten minutes
  (`file.ts:81`; `fate` "dropped", the exception `LinesAccounted` makes);
- a setup or upgrade whose `up -d` finds the service's container unchanged does not restart it for a `config/app.json` that was
  edited: it serves the old one until it dies (`setup.sh:107`, `stale` in `Setup`, the exception of `ServesCustomerFile`);
- only the example of the override makes Docker restart a container: one that was created with another override, or with
  the compose files of an older package alone, stays down (`ServiceComesBack` speaks of this package's containers beside the example);
- `intervalHours` from 597 on is more than a Node timer takes and fires every millisecond (`Period` in
  `DiskCleaner`; only after a successful run are the runs it asks for still spaced, `AutoRunsSpaced`);
- one failed rename turns the rotation of `server.log` off until the next restart (`RotateFails` in
  `FileLogger`; the exception `ActiveLogBounded` makes);
- a file with an empty `admin.token` beside a deprecated `adminToken` lets nobody in before an upgrade
  and the holder of the old token after it (`ShadowedToken`, the exception of `UpgradeKeepsMeaning`).

(The plan is `src/docs/superpowers/plans/2026-06-05-private-deployment-simplification.md`.)

## 6. Limits of the models

- Two separate volumes that report the same number of free bytes are taken for one by the code;
  `AllClearIsTrue` excludes that case. The server and the client log directory are one mount to the planner.
- Once the sweep has failed to read a room (`misread`), `LatestSurvives` and `NeverEvicted` say nothing more of it.
- Clocks do not run backwards. A manual caller that joins a run past its scan gets that run's result, and no
  property says what he should have got instead.
- A write puts all of a file's data in place or none; `writeFile` may stop half-way, which would only
  add contents to those an overlap already leaves.
- Reading is not modelled: `getLatestSnapshot` returns what `latest.snapshot` holds at that moment.
- File names are classified by the code's regular expressions; the models start from the kind.
- `Setup` runs one script at a time, and files are edited while none runs. Two backups within one second
  share a name; `collided` marks that, and `CustomerConfigKept` says nothing after it. The nginx container does
  not restart by itself. An image of an older package is taken to read the file as this one does. The certificate files may be there or not
  (`Render` succeeds or fails); their names are part of the configuration. The contents of the backups of `nginx.conf` and of the override are left out. A `setup` in
  nginx mode overwrites `config/nginx.conf` without a backup; no document promises otherwise.
- `Config` has no key nobody's behaviour depends on: `deployMode` (every script passes the mode on its
  command line), the retention keys (example and service have the same defaults), `admin.allowRemoteAccess`.
- `Upload` has room names in ASCII and no limit of 256 characters. Cut requests are cut by the client, whose
  `Content-Length` matches what it sent; the body parser rejects aborted connections. A history whose timestamps are
  no numbers is not among the inputs: the codec has no live caller that could pass one.

### Not modelled

The third-party RTM token builder (`rtm-token/`: a pure, vendored serialisation). The Compose, nginx and Docker
files, which are data; `Setup` has what the scripts rely on of them. Packaging, doctor and smoke
scripts, which only read, or only write a new directory.

## 7. Plan

Done: all modules of section 2, and the proofs of section 4. Left, in this order:

1. `DiskCleaner`'s run control composed with the sweep of `SnapshotStore`, so that the triggers of real uploads
   start the sweeps that race with them; and a clock that may be set back.
