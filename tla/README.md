# A specification of rmdadm

rmdadm manages Linux MD RAID arrays: a command line tool, a REST daemon on top
of the same operations, a monitor, and a copier of block devices. This
directory holds TLA+ modules that model the parts of it that keep state or run
concurrently, the TLC configurations that check them on small instances, and
proofs, checked by TLAPS, of what holds for every instance.

File names below are relative to `src/src/` unless they start with `src/`.

## 1. The system

### Components

| Component | State | Operations | What makes it correct |
|---|---|---|---|
| Migration (`migration.rs`) | one JSON file per pair of devices; the devices; the local state of a running copy | start, pause, resume, status | an offset that can be read is backed by the target; Completed means on stable storage; a pause stops the copy; a stopped copy can be resumed; a copy ends |
| Create (`ops/create.rs`) | superblocks, MD nodes | create (validate, node, UUID, superblocks, assemble) | no superblock of a member is overwritten; what is assembled is what was written; dry runs change nothing |
| Assemble (`ops/assemble.rs`, `src/udev`) | the kernel's arrays | assemble, assemble --auto, udev's worker | members of an array belong to one set; an array that runs is whole; a set that is there gets started |
| Apply (`ops/apply.rs`) | none of its own | assemble, else create, entry by entry | creates only where there is nothing to assemble |
| Manage (`ops/manage.rs`) | the kernel's arrays | stop; fail, remove, add | a manage that succeeds did everything it was asked for; the data-loss check refuses what it is there to refuse |
| Superblocks (`metadata/v1.rs`, `v0.rs`) | bytes on disk | load, write, checksum | what is written is what is loaded |
| Validation (`validation.rs`) | none | device and level checks | a device in use is refused |
| Cluster (`cluster.rs`) | `nodes.json`, `metadata.json` | join, leave, list, sync | an acknowledged join stays until a leave; the file stays readable |
| Spares, bitmap, reshape (`ops/spare.rs`, `bitmap.rs`, `reshape.rs`) | sysfs attributes | add, remove, list, activate; add, remove, clear; level, chunk, layout, grow, shrink | a command that succeeds undisturbed did all of it; an array keeps a device, a bitmap a legal chunk size; a dry run writes nothing |
| Rate limiter (`api/rate_limit.rs`) | table of clients behind a lock | check, cleanup | bounded bursts; refusals earned; bounded table; no client locked out |
| Authentication (`api/auth.rs`) | configuration behind a lock | middleware, require_role, login, refresh | nobody gets a role by a chain of requests; who has expired stays out; who may is let in |
| API server (`api/mod.rs`, `routes.rs`, `handlers.rs`) | none of its own | one handler per operation | the layers are passed in order; every request is answered unless migrations keep every worker |
| Monitor (`daemon.rs`, `notifications.rs`) | timer | read every array once a minute, alert | a degraded array raises an alert |
| Configuration (`config.rs`) | file, environment | load, validate | what validate accepts works |
| Failure prediction (`monitoring.rs`) | none | score a device | a score in range |
| The rest (`btrfs.rs`, `logging.rs`, `error.rs`, `ops/detail.rs`, `exporter.rs`, `monitor.rs`, `api/web.rs`, `openapi.rs`, `models.rs`, `src/web`, `src/k8s`, `src/systemd`) | none | output, single external commands, data types | |

### How they interact

There is no central process. Each command line invocation is a process, each
REST request a task of the daemon that calls the same functions, and udev
starts one `rmdadm assemble --auto` per block device event. They share the
disks, the kernel's arrays, sysfs and the files under `/var/lib/rmdadm`, and
take no lock on any of them. Inside the daemon, tasks share the table of the
rate limiter and the authentication configuration, each behind an RwLock. The
writes of create cause udev events, which start assemblies: the one callback in
the system. The monitor only reads.

### What is hard

* Read, change and save of a file without a lock: migration state, `nodes.json`.
  A save truncates first, so it can be seen, overtaken or cut off in the middle.
* A pause is a write to the file of a process that writes it all the time.
* Checks made long before they matter: holders of a device, superblocks,
  array state.
* Sequences of ioctls and sysfs writes that return at the first error and undo
  nothing.
* Two assemblies of the same disks, one of them started by the writes of the
  other.
* Ordering between page cache, `sync_all` and progress records at a power loss.
* Windows, boundaries and garbage collection in the rate limiter.
* A role that is looked at in one layer and relied on much later, behind a body
  that arrives, a token that expires, a refresh that makes a new one of it.
* Synchronous handlers on the workers of an asynchronous runtime.

`PROJECT.json` lists each hazard at its line, with the properties that cover it.

## 2. Modules

| Module | What it is |
|---|---|
| `Migration` | `migration.rs`, call by call |
| `ResumableCopy` | what a migration promises: claims are made only of data that is held |
| `MigrationProofs` | theorems about `Migration` |
| `RateLimiter` | `api/rate_limit.rs` |
| `FixedWindow` | what a rate limiter promises: plain fixed windows |
| `RateLimiterProofs` | theorems about `RateLimiter` |
| `Cluster` | `cluster.rs`: load, change, save of `nodes.json` |
| `Registry` | what the list of nodes promises: a command that overlaps no other is atomic |
| `ClusterProofs` | theorems about `Cluster` |
| `ArrayOps` | create, assemble, apply, stop and the udev rule over disks and kernel arrays |
| `ArrayOpsProofs` | theorems about `ArrayOps` |
| `ArraySlotsProofs` | theorems about `ArrayOps`: which disk gets which slot |
| `ArrayAdmin` | manage, spares, bitmap, reshape and scrub: the commands that change a running array |
| `ArrayAdminProofs` | theorems about `ArrayAdmin` |
| `ArrayAskedProofs` | theorems about `ArrayAdmin`: a command that succeeds has done what it was asked for |
| `Gateway` | `config.rs` and `api/`: configuration, layers, roles, tokens, workers |
| `GatewayProofs` | theorems about `Gateway` |
| `MCMigration`, `MCRateLimiter`, `MCCluster`, `MCArrayOps`, `MCArrayAdmin`, `MCGateway` | constants for TLC |

Definitions marked `mutant` are plausible mistakes; `PROJECT.json` says which
definition each replaces and which property then fails. No specification uses
them.

### Migration

`file[i]` is what `load_state` makes of state file `i`; `run[p]` is the local
`MigrationState` of invocation `p` and the place where it is; `landed` and
`durable` are the source blocks the target returns and those on stable storage.
`SaveOpen` is `File::create`, `SaveWrite` the end of the serializer's writes;
between the two the file cannot be parsed, other invocations may open it too,
and the process may die. A load is not atomic either: it opens the file (`Resume`,
`Pause`, the head of the loop) and knows what it says when it has read it
(`ResumeLoaded`, `PauseLoaded`, `LoopCheck`). `LoopCheck` ... `SyncAll` are the
copy loop. `CopyFails` and `Die` cover every error and a kill.

serde_json writes to, and reads from, a file without a buffer. A load or a save
that meets the save of another invocation (`met`) therefore ends in bytes of
both, and these may parse as a record that nobody saved: 8388608 written over
12582912 reads 83886082. The model does not work out what they say. They may be
unreadable or any record with a number of `Offsets` (`Spliced`), and the
invocation that reads it goes on from there: it may skip blocks, reach the end of
the source and report Completed. No property of the offsets can hold of such a
record, so `exact` remembers of every record and every local state whether a splice
went into it, or into what it was made from. ProgressBacked, CompletedMeansDurable
and KeepsPromise speak of the exact ones, TooSmallTargetUntouched and
EveryCallReturns of all.

Not modelled: the bytes (a device is a sequence of equal blocks); a power loss,
before which `sync_all` has run only at the end (`migration.rs:133`), so that
progress records can be ahead of the data.

### Cluster

`file` is what `load_nodes` returns: one list, or nothing when the file cannot be
parsed. `run[p]` is a `ClusterManager`, which lives as long as its command: its
copy of the list, the change it was asked for, and the place where it is.
`Begin` opens the file, `Load` has read it and changes the copy, which meets no
other state in between, and `Refuse` is a file that cannot be parsed; `SaveOpen` is
`File::create`; `SavePart` and `SaveWrite` are the writes of the serializer. As in
Migration a load or a save that meets the save of another command ends in spliced
bytes: names and addresses of different length make up ones that nobody joined,
so the file may then hold any list (`Spliced`), and `exact` remembers it.
`exact`, `lapped` and `joined` are only observed: whether a splice went into the
list, whether another command was active at the same time, and what was ever
asked for in a join. Listing nodes changes nothing. `sync` writes a snapshot
that no command reads, and is left out.

### RateLimiter

`check_rate_limit` and the cleanup hold the write lock from beginning to end
and read the clock inside it, so `Request` and `Cleanup` are one action each.
Times are ages in ticks. `recent` is a ghost: for each age below a window, how
many requests were admitted that are no older. The disabled limiter and a window of zero are excluded by assumption.

### ArrayOps

`super[d][k]` is the superblock at the 1.k location of disk `d`; `Load` tries
1.2, 1.1 and 1.0 in this order, as the code does. `md[m]` is the kernel's array:
its node, whether SET_ARRAY_INFO was accepted, its members by slot, whether it
runs. `run[p]` is a process. One action per system call that changes something
or whose result decides: `Validate`, `Ensure`, `WriteSuper` (one disk each),
`LoadSeed`, `ScanDisk` (one disk each), `OpenArray`, `SetInfo`, `LoadAll`,
`AddDisk` (one disk each), `RunArray`. `Failed` is where the error goes: in
apply a failed assemble is followed by a create, everywhere else the command
ends. Nothing is rolled back, as in the code.

The check of `Validate` is not perfect, and not modelled as if it were:
`is_in_md_use` looks up the holders by the last part of the path as it was given,
and a directory that is missing or unreadable counts as empty. So a member that is
named by a link, as in `/dev/disk/by-id`, passes, and one create overwrites its
superblock. `Unseen` are the disks this may happen to, and the properties that rest
on the check speak of the others. `EnsureFails` is a node whose name the kernel
refuses, or that does not appear within 2 s ("late" in `World`). The scan of /dev
goes in the order of the directory and only over candidates' names (`ScanOrder`);
`Sorted` is the sort and the dedup that follow. An automatic assembly finds a disk
under one path, the one it has in `PathOrder`.

The kernel and udev are external. Their contract, as the code relies on it, is
stated above `OpenArray`; that udev recognises the superblocks is part of it. Atomic by abstraction: the parallel
read of all superblocks in `LoadAll`, the check of all devices in `Validate`,
the write of one superblock. Left out: RAID level, sizes, chunk and layout, and
the checks of a device alone.

### ArrayAdmin

`array` is one running array of the kernel: the word in array_state, the role of
each disk, the device count, the attributes, the bitmap. `run[p]` is an
invocation: its request, its place, and `todo`, the calls it still has to make.
A command is opened by one action, `StopOpen` ... `ReshapeOpen`, which models
everything the function reads and decides before its first call, and leaves the
calls in `todo` in the order of the code; an empty list is a success. Each call is
an action: `HotDisk` (the three hot ioctls), `StopArray`, `WriteAttr`, `Count` and
`Resize` (the device count is read, and written later), `WriteBitmap`, `Trigger`
(writes that only start something). `Fails` is `?`: any call may be refused, and
nothing is undone. `Answer` is the prompt of reshape. The kernel goes on by itself
in `DiskFails`, `Recover` and `Settle`; that is its contract as the commands rely
on it, and external. `met` only observes who was active at the same time.

The model says what the code does where that is surprising:

* The three calls of `ops/spare.rs` whose name begins with `md/` go to a path
  with `md` twice (`Doubled`), which no file has: no action makes them, so adding
  and removing a spare, and activating one in a slot, end with an error (or a dry run).
* `AtRisk` waits for words that array_state never says.
* `activate_spare` and `clear_bitmap` take no dry-run option; the prompt of
  reshape, refused, is a success; the state is read before the prompt and not
  after it; a bitmap location that cannot be read counts as no bitmap.

Left out: texts and units (reshape writes its chunk size as it was given, in KB,
where bitmap converts to bytes; a backup file becomes part of the word written to
sync_action), the width of delta, and the checks of single devices. Reached by no
command: `configure_spare_policy`, `cancel_reshape`, `get_reshape_progress`.

### Gateway

`conf` is what `Config::load` returns (`Override`, `Validates`) and start_server
copies into the environment; `holds[c]` the tokens of a client; `req[q]` a request:
where it is, what it shows, the claims the middleware put into its extensions.
`Limited` is the refusal of the limiter, `Enter` all the layers after it
(`Refusal`: middleware, then role), which wait for nothing and so are one poll of
the task; `Call` the handler once its body has arrived; `Login`, `Refresh`,
`Migrated`, `Handled` the handlers. All of these need a free worker, and a request
in a handler keeps one, since the handlers are synchronous. What a handler does is
in the module of the operation it calls, and it returns with a result or an error:
both are 200 here. `Closed` is a client that goes away, a body that does not parse,
or a handler that panics, as `generate_token` does when token_expiry_hours is out
of the range of dates (`api/auth.rs:102`).

A token is the role and the expiry of its claims; nobody makes one without the
secret, and the user name is part of the password. Which requests the limiter
refuses is the business of `RateLimiter`; here it may refuse any that its
configuration lets it refuse (`MayRefuse`, `MayPass`). With a window of 0, which
validation accepts, the interval of its cleanup panics, every request starts a window
of its own, and only a limit of 0 refuses anybody. The two modules meet
in these two definitions; RateLimiter assumes a window of at least one tick.

What the model says of the code: the server itself only gives the role Admin, the
other roles come in tokens that somebody else signs; a token can be refreshed for
ever, and nothing revokes one; who came in by the API key has no claims and cannot
refresh: its handler answers 401. With authentication disabled there is no role,
so every route that requires one answers 401, and only the reading routes work. This
is a disagreement with the documentation, which offers the switch to "Disable
authentication" (`src/README.md:420`, `src/rmdadm.conf.example:21`): no run of its own
shows it, and no property calls it right. RefusedForCause lists it as one of the
causes a refusal may have, besides insufficient credentials and a refresh without
claims; that there is no fourth is what the property says. `bind_address`,
`enable_tls` and `monitoring.enabled` are read, and nothing uses them.

## 3. Runs

### Runs that pass

| Run | Bounds | Shows |
|---|---|---|
| MigrationCopies | 3 pairs of source 2, one of which is touched in a behaviour: 2 invocations, target 3; 1 invocation, target 1; 1 invocation, target 1, sizes that cannot be told; buffer 2; spliced digits spell 3 | TypeOK, ProgressBacked, CompletedMeansDurable, TooSmallTargetUntouched, KeepsPromise (refinement), EveryCallReturns |
| ClusterCommands | 2 commands at a time, 2 nodes, 2 addresses, symmetric in each | TypeOK, ListedWasJoined, AtomicUnlessLapped (refinement) |
| RateLimiterWindows | 2 clients, limit 2, window 3 | TypeOK, BurstBound, RefusalEarned, TrackersExpire, IsFixedWindow (refinement), EventuallyAdmitted |
| ArrayRace | 2 processes, 3 disks, 3 arrays, 2 sets; assembles by hand of two disks each and udev workers, kills, unplugs, reboots, late nodes | TypeOK, MembersShareUuid, ActiveIsWhole, AutoFollowsNumbers |
| ArrayAlone | 1 command at a time, 3 disks, one of them with holders the check may not find, 3 arrays, 2 sets and a new UUID; every command, dry or not, stops, kills, unplugs, reboots, late nodes | MembersShareUuid, DryRunInert, MemberSuperKept |
| ArrayHotplug | 2 workers, 3 disks, none plugged in at first; no commands, kills, unplugs or late nodes | HotplugAssembles |
| AdminCommands | 2 invocations, 19 requests of every kind, 2 disks, at most 2 devices, 2 words of array_state | TypeOK, NeverEmptied, BitmapChunkValid, DryRunCallsNothing, BitmapAsAsked, ManagedAsAsked, ReshapedAsAsked, CommandsReturn |
| GatewayRequests | 2 requests in flight, 2 clients, 4 routes, 3 secrets, 1 worker, expiry of 1, clock to 1; 3 configurations | TypeOK, NoneRises, RefusedForCause, ExpiredStaysOut, AnsweredUnlessBlocked |

Why the bounds are enough. A migration interferes through one file, and the
interference is between a writer and another: two invocations on one pair let a
pause and a copy, or two copies, overlap at every step. Two blocks and a
buffer of two allow whole, short and repeated chunks, and a process that starts
over at any offset; spliced digits spell an offset past the end of the source and
of the target; pairs with files of their own do not interact, so one of them at a
time is enough (`OnePair`); the first target is larger than the source, so that
the end of the source is what ends a copy. Two commands of the cluster let every
load, truncation and write of one fall anywhere in the other, and any number of
them follow each other. The theorems say the same for any number. Symmetry is used
in ClusterCommands and ArrayRace only, where nothing is said of liveness and no
definition tells the processes (in ClusterCommands also the nodes and the
addresses) apart. A limit of two and a window of three
ticks put a burst at the end of one window, at the start of the next, and a
request in between; the cleanup meets every phase. In ArrayOps two processes
suffice for every race over one array, and a third disk, of another set, for
every wrong list; three arrays let a set be assembled under more than one name. In
AdminCommands two commands overlap at every call, and the
requests fail, remove and add the same disk, two disks at once, set a legal, an
illegal and no chunk size, and grow, shrink and change the geometry of an array
that may be at its least or at its largest count; each invocation runs one
command, so a behaviour has two, and a third would find the array as one of the
two left it. `MaxDisks` is the count the kernel accepts, and the only bound. In
GatewayRequests one worker is enough to be kept by one of two requests, one hour
lets a token expire before, in and after a refresh, and the clients between them
know a key that is in force or replaced, the password, and a token of a lesser
role; the three configurations that validation lets through have authentication with
the limiter on, authentication with a limit of 0, which refuses all, and no
authentication with a window of 0, under which nothing is limited. `MaxTime` stops the clock, not the requests. No counter is unbounded except the UUIDs a create draws:
`UUIDs` bounds the number of creates in a behaviour.

The restrictions of the array runs are needed. What happens without them was
seen while modelling, and it is a limit of the code, not of the model:

* A stop between the reading of the superblocks and the adding of the disks lets
  another assembly set up the same array: the disks of two sets meet in it
  (MembersShareUuid), unless one process runs at a time. ArrayRace has no stop.
* Two creates at once each pass the check of the devices before either writes
  (MemberSuperKept). ArrayAlone has one command at a time.
* One create that is given a member by a link passes the check too, and overwrites
  its superblock. ArrayAlone lets that happen to the disks in `Unseen`;
  MemberSuperKept and MembersShareUuid speak of the others.
* An assemble by hand starts what it was given: a list of one disk of two makes an
  array that runs with a slot empty (ActiveIsWhole). ArrayRace only has lists as
  long as the superblocks say, and no creates: what a create that is killed halfway
  leaves is in ArrayAlone, where ActiveIsWhole is not claimed.
* Loads and saves of one file that overlap splice its bytes (ProgressBacked,
  CompletedMeansDurable, KeepsPromise, ListedWasJoined). The runs let them, and these
  properties speak of what no splice went into.
* A disk pulled out while its set is being assembled makes one ADD_NEW_DISK fail;
  the array stays configured and every later assembly stops at SET_ARRAY_INFO
  (HotplugAssembles). ArrayHotplug only plugs disks in.
* An automatic assembly gives slots in the order of path names and never reads
  `dev_number`; if the names sort differently from the list given to create, the
  disks are in the wrong slots (AutoFollowsNumbers). In ArrayRace paths sort as the
  disks are numbered; the order in which /dev lists them is another one.
* An old superblock at the 1.2 location is found before a newer one at 1.0, so a
  create of version 1.0 may assemble the old set.
* Two cluster commands that overlap may lose one of the changes, although both
  were acknowledged, and one that dies inside a save leaves a list that no later
  command can load (AtomicUnlessLapped promises nothing of either).
* Two pairs of devices whose names differ in characters that are not
  alphanumeric share one state file (`DistinctIds` fails).
* A process that dies inside a save of a migration leaves a file that cannot be
  parsed, and so nothing to resume from (`migration.rs:154`).
* Commands that overlap on one array may each undo the other: two grows count
  from the same number, and two adds of a bitmap may leave the chunk size of one
  with the location of the other. A stop forgets the bitmap and the disks of an array
  (the model leaves out what the kernel forgets). The properties `...AsAsked`
  speak of commands that met no other of their kind and no stop.
* An add of a bitmap on a stopped array cannot read its location and takes that for
  no bitmap. After an add and a stop, a third invocation, an add that is refused,
  may thus end with the location of the first still set: "an add that fails leaves
  no bitmap" is false, which the attempt to prove it showed and the two
  invocations of AdminCommands cannot. BitmapAsAsked says what is meant: only its
  last call, when it succeeds, changes the location.
* A manage or a reshape that reports an error may have done a part of what it
  was asked for.
* As many migrations as there are workers stop every other request, the pause
  included (AnsweredUnlessBlocked excepts it).

### Runs that show a disagreement

Each checks one property that a document, a comment or a message of the program
states, and finds it violated by what the code does. `PROJECT.json` quotes the
lines.

| Run | Property | What happens |
|---|---|---|
| MigrationPause | PauseIsNotOverwritten | a pause between the check and the next save is lost |
| ArrayCreateRace | HotplugAssembles | create and the worker it caused take one disk each |
| ArrayApply | ApplyCreatesOnlyBlank | apply overwrites a valid set because a node is missing |
| AdminDegraded | DegradedIsGuarded | a disk has failed, and a manage that is not forced may fail another |

### Fairness

* Migration: weak fairness of the steps of an invocation that has begun. The
  operating system runs a process that is not blocked. No fairness of the
  commands, of errors or of deaths.
* RateLimiter: the clock advances, the runtime schedules the cleanup, and for
  EventuallyAdmitted the client keeps asking (that is its premise).
* ArrayOps: weak fairness of the steps of a running process, and udev starts a
  worker while it has an event. Nobody has to plug a disk in.
* ArrayAdmin: weak fairness of the steps of an invocation or of its failing: a
  process that does not wait for its user is scheduled, and every system call
  returns, with or without an error. No fairness of the prompt or of the kernel.
* Gateway: strong fairness of the layers and of calling a handler, because a
  request may find the workers taken again and again, but the runtime takes the
  oldest task that is ready when one is free, and because bodies arrive or their
  connections close; weak fairness of the handlers, which return; none of a
  migration, which may copy for ever.

CHECK_DEADLOCK is FALSE in AdminCommands and AdminDegraded: every invocation runs
one command, and ends. It is FALSE in ArrayHotplug: when every disk is there and every
event has been handled, nothing is left to do. It is FALSE in ClusterCommands:
when a save was cut off and nobody is active, every command is refused.

## 4. Proofs

All theorems are checked by TLAPS for every value of the constants that
satisfies the modules' named assumptions.

* `MigrationProofs`. `TypeCorrect`. Then, for pairs with distinct state files
  (`DistinctIds`, which the code does not ensure), `OffsetsAreBacked` and
  `CompletedIsDurable`, of records no splice went into. Neither property is
  inductive: a file is written from the local state of an invocation, and the local
  state comes from a file. The invariant therefore says the same of both
  (`FileBacked`, `RunBacked`): the offset of each exact invocation is backed, and one
  that is about to save Completed has synced. Of what a load or a save that met
  another leaves it is only used that it is not exact (`SplicedCases`): nothing is
  assumed of `Offsets` but that they are numbers, and a copy that was misled by one
  runs beside the others in the proof and breaks none of their records.
  `TooSmallIsRefused` needs no hypothesis: no invocation gets past the check of
  the sizes to the copy loop with a target known to be too small, not even a resume
  of a record that another pair or a splice has left. `ImplementsPromise` maps each
  step to one of ResumableCopy or a stutter, where a record that is not exact counts
  as no claim.
* `RateLimiterProofs`. `TypeCorrect`; `EntriesExpire` from the invariant that
  relates the age of an entry to the time left until the next cleanup.
  `BurstsBounded` and `RefusalsEarned` need no sum: the counts by age are
  cumulative, and the invariant `Ledger` says what an entry accounts for. Within
  its window it counts all that was admitted since the window began, and what
  came before is at most another limit; past its window, all that can still be
  recent is in its count; an entry that is gone, or old enough to be dropped, has
  nothing recent to answer for. `ImplementsFixedWindow`, where an expired entry, a dropped one and an absent
  one are the same closed window.
* `ClusterProofs`. `TypeCorrect`. `OnlyJoined` from `AllNamed`, which says of every
  exact copy what ListedWasJoined says of the file. `ImplementsRegistry` maps the
  change of a command to its truncation of the file, since nobody can load the file
  from there to the last write. Its
  invariant (`Alone`, `Fresh`) is what makes that an atomic step: of two active
  commands both are lapped, so between the load and the save of one that is not
  lapped the file is still what it loaded.
* `ArrayOpsProofs`. `TypeCorrect` from `TypeInv`, which adds to the types what a
  process may be doing at each place (`Good`): only a create that is not a dry
  run is ever at a write. `DryIsInert` follows step by step: the actions of a
  dry run are those of a real one, and each asks before it changes anything.
  `AssembliesShareUuid` is about assemblies, by hand and by udev, where nobody
  creates or stops (`Assembling`; what a stop does is said in section 3).
  MembersShareUuid is not inductive, since a disk is added by a process that
  read its superblock long before. `SharedInv` says why it is right to: an array
  whose SET_ARRAY_INFO was accepted has at most one process adding to it
  (`Owns`), because the kernel accepts it only once; an array without it is
  empty; its members were all in the list of that process; and the superblocks
  of the list agreed when it read them and do not change, also while a disk is
  out (`Agreed`). `MembersAreKept` is about everything else, create, apply and
  stop included, but for one process at a time (`OneProcess`, the restriction of
  ArrayAlone) and for disks whose holders are found: those of a create at its writes
  that no array held are still free (`Unclaimed`), because it looked, and only an
  assembly could claim them, which is its own; the rest are in `Unseen`, of which
  nothing is assumed or claimed.
  `OneProcessSharesUuid` is MembersShareUuid under the same restriction: `SoleInv`
  says of the one process what `SharedInv` says of an owner (of the disks that are not in
  `Unseen`: `SeenShared`), a stop under it only empties an array, which then has no
  information and takes no disk, and a create writes to no member but those in
  `Unseen`.
* `ArraySlotsProofs`. `RunningArraysAreWhole` and `AutoSlotsAreNumbers`, under
  `WellKept`: disks are only assembled, a set agrees on its size and numbers its
  disks apart, and who assembles by hand lists as many as the superblocks say. The
  last is needed, since the code asks nothing of a shorter list but that it loads
  and agrees. Superblocks then are constants, and the work is in counting: a
  worker of udev gathers disks in the order /dev lists them, sorts them by path and
  drops what is there twice (`SortedApart`), so that `FS_PigeonHole` bounds how many
  there can be, and starts only when it has as many as the superblock says, so it
  has the whole set (`ScanEnds`). What it adds fills the slots from 0
  on, and only a list that was added to the end is run. Where paths also sort as
  the disks are numbered (`PathsFollowNumbers`), n ascending numbers below n are
  0 to n - 1, so place and number are the same (`AscendingBelow`). The instance of
  ArrayRace satisfies both hypotheses.

* `ArrayAdminProofs`. `TypeCorrect`, `ChunkValid`, `NotEmptied`, `DryRuns`. What
  holds of the array cannot be inductive by itself, because a command decides its
  calls when it opens the array and makes them much later. So the invariant
  `IInv` says it of every call that waits: `CallState` holds only chunk sizes that
  were looked at, and by `RunOK` a device count that was read leaves at least one
  device after what is still to be written, whatever the count is by then. It
  also says what a dry run may have waiting, and that only a reshape that is not
  a dry run is ever at the prompt.
* `ArrayAskedProofs`. `ReshapesAreComplete`, `ManagesAreComplete` and
  `BitmapsAreComplete`, without hypotheses. A history of the calls made is not
  needed: while a command is at its calls, every single thing it was asked for is
  done already, or its call still waits in `todo` (`Due`), and when no call is left
  all of it is done. Three facts make that last. Two commands that are active
  together each know of the other (`Met`), so beside one that is `Alone` there is
  none of its kind. Every call that waits is one its request stands for
  (`Planned`), so the other kinds write something else. And a manage adds after
  it has failed and removed, and an add of a bitmap writes the location last
  (`Ordered`), so no later call of its own undoes an earlier one. The kernel's own
  steps are harmless because a faulty disk stays faulty, and one that is out
  stays out, until a command says otherwise.
* `GatewayProofs`. `TypeCorrect`, `NobodyRises`, `RefusalsHaveCause`,
  `ExpiredStay`. A role is looked at once, in the layers. The
  invariant follows a request from its client on (`RequestOK`): what it shows, and
  what it claims, belongs to its client, and behind the layers its client has a
  role that suffices and authentication is on where one is required. It is stable
  because tokens are only added and the configuration does not change
  (`RequestStable`). `ExpiredStay` is an action property: from a state in which a
  client is out, no step gets it a token or gets one of its requests past the
  layers. `RefusalsHaveCause` is one too: it follows each refusal of a guarded route
  to the layer (`SentKnowsWhy`) or the handler (`HandlerKnowsWhy`) that made it.

The assumptions of the two, `AdminAssumption` and `GatewayAssumption`, only say of
what kind the constants are; requests are those a command or a handler makes.

Every invariant and every action property that a passing run checks is stated by
a theorem, and the hypotheses of each are met by the instance of the run. Only
model-checked are the liveness properties, which are beyond this prover:
EveryCallReturns, EventuallyAdmitted, CommandsReturn, AnsweredUnlessBlocked and
HotplugAssembles.

## 5. Not modelled

* Superblock 0.90 (`metadata/v0.rs`): reached by no command.
* The bytes of superblocks, their offsets and checksums; sizes, RAID geometry.
* The monitor (`daemon.rs`), which keeps nothing between two rounds: it alerts on a
  word that array_state never says (`daemon.rs:44`).
* Notifications, failure prediction, the Btrfs wrapper, logging, read-only output,
  web pages and generated documentation: no state that another part reads, and
  nothing to interleave. Each is one external command, one SMTP call or a text.
* The snapshot `metadata.json` of `cluster.rs`, which nothing reads.
* JWT signatures, which the library checks, and the headers of a refusal.

## 6. What could come next

`SuperblockLayout`: offsets and checksums as operators, checked against a reference
definition. ActiveIsWhole for one process that also creates and stops, and
a hypothesis weaker than `Assembling` for several: a stop of an array nobody is
assembling.
