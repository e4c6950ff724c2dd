# rmfs: a verification development

rmfs mounts the state of a resource manager (Slurm) as a FUSE file system. A
start of the program reads its configuration, asks the resource manager for
partitions, nodes, jobs and steps, builds a tree of *rnodes* out of the replies
(`mk_fs()`), reads what an earlier instance may have left, and enters
`fuse_main()`, whose handlers look paths up in the tree.

This directory holds TLA+ models of the parts where the program's own logic
is, the TLC runs over them, and TLAPS proofs. Paths below are relative to
`src/SOURCES/`.

## Inventory

| component | state | operations | what makes it correct | status |
|---|---|---|---|---|
| rnode pool: `lib/rnode/rn_alloc.c`, `rn_provision.c` | `rn_pool`, `rn_allocmap`, `rn_curalloc`, `nxt_avail`, `p_nxt_avail_rn` of the superblock `rn_paramtab` | `rn_poolinit`, `rn_alloc`, `rn_provision` | five copies of one fact stay equal; a node in use is never handed out again; inode numbers are unique; the pool's end is respected | modelled, proved |
| tree builders: `rn_public.c`, `rn_mk*.c`, `rn_cast.c`, `rn_tab.c` | the rnodes, the call stack, `p_fsroot`, `p_jobd` | `mk_fs` and one builder per node type | parent and child pointers agree, every directory has its guard, names are unique, a directory shows its own record, failures leave nothing half-visible | modelled up to unreachable code |
| `ErrExit`: `slu_rmfs/usage.c` | `caught_in_a_loop` | `ErrExit` | which failures end the process | modelled with the builders |
| superblock accessors and lock: `lib/rnode/rmfs_param.c` | a lock counter, the dirty list, `last_update` | lock, release, getters, setters, `rn_param_adddirty` | the counter is balanced; the list has no cycle | modelled but for accessors nothing calls |
| configuration: `slu_rmfs/ingest.c`, `lib/collect/collect_cp.c`, `lib/conf` | one `config_param_t` per parameter | `ingest_config`, `collect_cp` with its recursion over dependencies, lookups by hash | the value comes from the most trusted source whatever the order; a source is never replaced by a lesser one | cold start and the call of the predecessor's collector modelled |
| collectors: `lib/collect/collect_slurm*.c` | `p_slcnf`, the four replies | load, ask, check, read one attribute | an attribute is read from the record of its node; a failed load has the stated effect | loads modelled; replies are inputs of the builders |
| derived parameters: `lib/collect/calcul.c` | pool size, `isController` | `calcul_*` | the pool is large enough for the tree | modelled |
| FUSE operations: `lib/fuseops` | none of their own; the lock counter, and parameters by accident | `namer`, `rmfs_*` | a path that `readdir` lists can be looked up; answers are those of the resource manager's replies; nothing is changed | modelled |
| control functions: `rn_ctlroot.c`, `rn_ctljobid.c` | the dirty list | umount, effluviate, write, sign | everything dirty is written once | the failing signature; no handler reaches the rest |
| predecessor, backing store, mount: `collect_predecessor.c`, `collect_backingstore.c`, `mount.c` | files of an earlier instance | claim, read, hand over | one instance serves the mount point | the stubs that are built |
| command line, OS, environment, MAC file: `collect_fuse.c`, `collect_os.c`, `collect_env.c`, `collect_macconf.c` | `slurm_fopts[].p_cp`, `term_count` | one collector each | the words of a command line end up in the mount point | modelled where the cold start calls them |
| parameter types and hash: `lib/conf/typ`, `lib/conf/misc` | none | `typ_check`, conversions, `djb_strtohash` | pure functions | refused texts; an injective hash |

How they interact: `main()` calls ingestion, `mk_fs()`, ingestion of the earlier
state and `fuse_main()` in this order, in one thread. Collectors leave the
replies in configuration parameters, and the builders take them from there.
Builders get nodes from the provisioner and it from the pool; all share
`rn_paramtab` through a lock that only counts. FUSE handlers read the tree from
`p_fsroot`, from several threads, each behind a lock that excludes nobody. There
is no message and no callback before `fuse_main()`.

What is hard: `collect_cp()` is called again for every parameter that depends
on a row, in a mode that one of the rows decides, and finds rows by a hash that
its own setters overwrite. The builders recurse through `rn_cast()`, which calls the builder
of whatever type it has just cast, so that a directory is visible, half-cast and
half-named, while whole subtrees are built below it. `ErrExit()` does not always
end the process. Most builders find the slot of the next child by adding one to
the pointer that the previous `rn_cast()` returned. The allocator keeps its
state redundantly, and inode numbers depend on a copy taken before the call. The
handlers rely on a tree that nothing changes after `fuse_main()`, on walks that stop at
the same holes, and in two places on variables that nobody has initialised.

`PROJECT.json` lists the single hazards with their lines and properties.

## Modules

| module | what it is |
|---|---|
| `RnodeSpace` | abstract: inode numbers granted in contiguous fresh runs |
| `RnodePool` | the pool and the provisioner, one step per loop iteration |
| `RnodePoolProofs` | TLAPS: the inductive invariant, the safety properties, the refinement of `RnodeSpace` |
| `MCRnodePool` | TLC instance of `RnodePool` |
| `MkFs` | the builders, with the call stack as a variable |
| `MkFsInv` | the first inductive invariants of `MkFs` |
| `MkFsProofs` | TLAPS: lemmas on the builders' tables, one lemma per step, and what follows: the invariant, types, the builders' own blocks, the refinement of `RnodeSpace` |
| `MkFsTreeProofs` | TLAPS: the second invariant, of names, parents and records, the properties of the tree, and the third invariant, of what a mounted tree is |
| `MkFsMountProofs` | TLAPS: the fourth invariant, of how far every directory is filled, that a mounted tree is complete, and the fifth, of the tree's shape |
| `MkFsCountProofs` | TLAPS: the sixth invariant, of what the replies say and what the pool has given at every return of a builder, and that a mount is accounted for |
| `MkFsPromises` | formulas that comments of the source promise and the code does not keep |
| `MCMkFs` | TLC instance of `MkFs` and `MkFsPromises` |
| `ClusterView` | abstract: what a user of the mounted file system may be answered, as a function of the resource manager's replies |
| `Serve` | extends `MkFs`: the rest of `main()`, and the handlers on the tree that `mk_fs()` has built |
| `ServePromises` | a formula that a comment of the source promises and `Serve` does not keep |
| `ServeProofs` | TLAPS: the lock of the superblock under the handlers; that `Serve` runs `MkFs`; types, the immutable tree, listings against look-ups, the numbers of `statfs`; that every step is one of `ClusterView` |
| `MCServe` | TLC instance of `Serve` and `ServePromises` |
| `Ingest` | where each parameter gets its value from |
| `IngestInv` | the inductive invariants of `Ingest` |
| `IngestProofs` | TLAPS: one lemma per step, and what follows: types, dependencies, sources, lookups, the mount point |
| `IngestOriginProofs` | TLAPS: where each value has come from, and what ingestion comes to |
| `IngestPromises` | formulas that comments of the source promise and `Ingest` does not keep |
| `MCIngest` | TLC instance of `Ingest` and `IngestPromises` |

### RnodePool

The variables have the names of the fields of `rn_paramtab` (`inc/rmfs/param.h`)
and of the locals of `rn_provision()` and `rn_alloc()`; `pc` is the program
counter of the one running call. A pointer into the pool is a slot number.
`Provision`, `Reject` and `Accept` are `rn_provision()` up to its call of
`rn_alloc()`; `Exhausted`, `TakeBlock`, `Invalidate`, `TakeSlot` and
`AllocReturns` are `rn_alloc()`; `Zero`, `NumberSlot` and `ProvisionReturns` the
rest. `TakeSlot` and `NumberSlot` are one iteration each, because the code's own
comment gives consistency at every iteration as the reason for the loop. `PoolInit` is the
call in `mk_fs()`, which may be repeated, and `Cast` what a builder does with a
node it holds. The history variables `held` and `leaked` are the slots builders
have been given and the calls that returned with the lock held.

The steps of a call are the atomic steps. Nothing runs beside them: the
process is single-threaded until `fuse_main()`.

### MkFs

`rn` is the pool's provisioned slots. A node has the fields that the properties
tell apart: its type, `gen`, name, parameter type (`p_cp->typ`), record pointer
(`p_dyntyp`), parent, block of children and directory flag. A record pointer is
the record's index in its reply; an array and its first record have one address
and so are both 1. `stack` holds the running builders, `ret` what the last
`rn_cast()` returned to the innermost one.

`Refuse` is a builder's check of its reply; `Provision` its block and the
second cast of its own node; `CastChild` and `CastTwin` the cast of a child;
`MkAttr` the leaf builder; `ChildFails` and `ChildBuilt` what a builder does with
the NULL or the node it is returned; `Return` its end. What the builders do
differently, from `rn_mkfsroot.c` to `rn_mkctl.c`, is in one definition per builder:
the severity of each failed check (`PartsCheck`, `JobsCheck` ...), the children
with what happens when one fails (`RootChildren`, `JobChildren` ...), and the
slot the next child goes to (`NextSlot`). The tables of `rn_tab.c` are tables here
too, the two swapped rows included. `Fail` is `ErrExit()` followed by
`return NULL`.

`calcul_rnodepool` is the estimate of the pool's size and `rn_poolinit` what
becomes of it. The inputs name the size of the pool freely; one run compares it
with the estimate.

An allocation is one step here; that this is sound is what `RnodePool`
implements, and `SlotsGranted` ties the two: every step of `MkFs` that changes
the pool is a `Grant` of `RnodeSpace`.

### Serve

`BuildTree` is a step of `MkFs`, whose variables `Serve` shares; `Prevstate`,
`RmfsInit` and `Unmount` are the rest of `main()`. `call[c]` is the handler that serves client `c`:
its program counter, the request, the node that `namer()` found, the lock sections
it has still to go through, a register and the reply. `Receive` is the handler's
entry with its look-up; `TakeLoad`, `TakeStore`, `DropLoad` and `DropStore` are the two halves
of `+= 1` and `-= 1` in `rn_paramtab_lock()` and `rn_paramtab_release()`; `Handle` computes the answer;
`Deliver` gives it to the kernel. Two handlers have steps of their own where a value is
read or stored that another may touch: `ReadCheck` and `ReadCopy` for
`rmfs_read()`, `FindContext`, `StoreStr` and `StoreSize` for `rmfs_setxattr()`.
`namer` walks the path a name at a time (`Look`); `MayAccess`, `Stat`, `List`, `Statvfs`, `GetXattr`, `ListXattr` and `Trunc` are the functions of those names.

`Deliverable` is what the kernel does before it passes a request on: it has
looked up every directory on the path, and it reads and writes files only. A request
to read or write stands for the open before it too: its access mode is the mode the
file was opened with. A file opened for writing, alone or besides reading, is not read: no
file of a tree can be opened so, as `ShowsInputs` says of the open itself.

A reply has two parts: what a user can tell apart, which `ClusterView` speaks of,
and the numbers of slots and of the pool.

Variables that nobody initialises have every value a build can give them: the
access mode of a truncation is any; the pointer through which
`rmfs_setxattr()` stores a context is any parameter a file shows, one that no file
shows, or one that cannot be dereferenced. `stored` holds what such a call has
changed.

`ClusterView` knows no rnodes: a *place* is a directory or file, given by its kind and
its record, and `IsAnswer` says which answers a request may get. `ShowsInputs` is the
refinement.

### Ingest

`cp` is `slurmfs_config[]`; a row has the fields that ingestion writes: `actual`
(`src.actual`), `val`, `h` (the hash by which it is found, text standing for the
hash) and `dep`. The table's constant columns are `slurmfs_config`, row by row.
`stack` is the recursion of `collect_cp()`; a frame has the row, the dependency it
has come to, the source it tries next and the argument it parses. `linked` is
`slurm_fopts[].p_cp`.

`NextParam`, `CollectDependency`, `DependencyReturns`, `ReadDebug`, `SkipSources`
and `Return` are `collect_cp()` and the loop of `ingest_config()` that calls it;
`SkipSources` takes at once the turns of the loop over sources that do nothing.
Each collector is an action that `Trying(s)` guards with the test for the source:
`CollectMacConf`, `CollectEnv`, `ConstructMountOpts`, `CollectMountOpts` with
`ParseWord`, `ParseOption`, `ParseParam` and `ParseEnds` for the callback
`parse_an_arg()`, `CollectDefault`, and those that rows name themselves.
`Answer` is what `collect_cp()` does with a collector's result. `Finish` is
`config_consistent_complete()`.

Every load from the resource manager succeeds or fails, independently of the
last one, so that the controller's fields may be missing at `ControlMachine` and not have
been asked for at `ClusterName`: `CollectConfParam` tests one of them there and uses the other.
`ANY()` shifts
by a mask, and the processor takes the distance modulo 32. A failed assertion
ends the process here: by the time a collector asserts, `Debug` has its
default, `TRUE`.

An option is looked up among all parameters, by the hash of a name or of a value. Where it finds
none it is discarded (`ParseOption`). Where it finds one (`ParseParam`), the argument is checked as a text
and then given to `set_val_ptr()`, which hands it to the type a second time as if it were a
`rmfs_param_t`. What becomes of it depends on the type: any bytes are a number (`NumberTypes`),
so that the row's value becomes the place of the argument (`Address`); the types of `PointerTypes` read at
the address that the bytes spell, and crash; those of `SizedTypes` do so up to a length that lies behind the text
and may be none, and refuse a length they know to be unknown, which is that of a value so
stored; a path at such an address is refused; a truth is no address. The source is then recorded
through a pointer that `parse_an_arg()` has not set; `SourceLost` has the outcomes a build can
produce: elsewhere, in the row that an earlier word left there, or a crash. None of the values so replaced
is a reply of the resource manager, which rows keep in another field: the inputs of `MkFs` are
the same.

## Runs

`tlc -config <run>.cfg <module>` in this directory.

**pool** (`MCRnodePool`). About 50,000 states. The default pool size 256 is scaled to 7,
with `RN_BASEALLOC` at its real value 2, so that five slots are to be had; the
configured sizes are unset, below, at and above the default; requests are 0 to 4.
Two or three provisions exhaust the pool, with every remainder. `MaxLock` stops
new calls after two leaked locks (one already shows that a leak does not
disturb the rest) and `MaxGen` casts a node at most twice, as the builders do.

- `CountersAgree`: at every iteration the marked slots are those held or taken
  by the running call, and index, count and pointer agree with them.
- `NoDuplicateAllocation`: the "duplicate allocation" exit is dead code.
- `InodeIsSlot`: inode numbers, computed from a stale copy, are still the slots.
- `LockAccounted`: every imbalance of the lock is an early return's.
- `HeldNodesKept`: the two `memset()`s and a repeated `rn_poolinit()` never reach a
  node in use.
- `ProvisionEnds`: a provision returns or ends the process.
- `SpaceSpec`: the pool implements `RnodeSpace`.

**mkfs** (`MCMkFs`). About 32,000 states from 424 inputs: all combinations of the
four states of a reply (missing, `last_update` 0, no array, an array) with up to two records,
distinct and repeated, first for partitions and nodes, then for jobs and steps; jobs
with two repeated names, for the hole that a rejected twin leaves; every pool
size from too small for the root to ample; Debug on and off; a cluster named
like its sibling; allocated nodes; attributes whose check fails. Two records are
enough to have a first, a last, a repeated one and one that follows a failed
one. Attribute tables are cut to one parameter of each kind that the builders tell
apart; the number of attributes only scales the blocks.

- `TreeWellFormed`: parents and blocks agree at every step, and no block loses its guard.
- `CastIntoOwnBlock`: a cast goes to a fresh slot of the builder's own block.
- `RecordsMatch`: a directory and the attributes below it come from the same record.
- `ListedDistinct`: no listing shows a name twice, below the root.
- `CastOnce`: a named node stays as it is, whatever fails later.
- `MountComplete`: what a mounted tree may lack, and what must have failed for that.
- `MountAccounted`, `MountOutcome`: what `mk_fs()` comes to, as a closed form of
  the inputs (`Mountable`, `Needs`), independent of the recursion. It mounts only if the form
  allows it, and has taken the slots the form says (`MountAccounted`); and it always comes to the end
  that the form says (`MountOutcome`).
- `SlotsGranted`: the steps on the pool are those of `RnodeSpace`.

**ingest** (`MCIngest`). About 164,000 states from 200 inputs: a plain start, and every
deviation that a collector tells apart, two at a time where they meet in one
row: MAC files for four parameters; the three environment variables in every
combination; command lines of up to two words of six kinds (two are needed for a
word to follow another and for an option to follow a word); for each kind of type, an option that finds a row with
or without a value, by its name or by the hash of its value, behind a word and twice; host names, user
names and a cluster name that are those of parameters, or missing; partitions with and
without records; seven refused texts.

- `SourceKept`: a source is never replaced by a less trusted one, nor a value
  by another, save by a word, which becomes its source, or by the place of an option that names
  the row; an option for one row never changes another, nor a path, a host, a user or a truth.
  What the option does change is against the promise of `ingest.c:3`, as `value_kept` shows.
- `DependenciesFirst`: nothing has a source unless what it depends on has one.
- `MostTrusted`: a parameter comes from the most trusted of the sources that have it
  and may give it, in the mode that held when its row was reached.
- `Outcome`: each way to end has its cause, among them a cluster without a name whose control
  machine has one, and options that find a row; and a complete configuration lacks only
  what it always or legitimately lacks.
- `NameResolves`: a lookup by name finds its row although hashes are overwritten.
- `MountPointArg`: the mount point is the last acceptable word.
- `Ends`: ingestion ends.
- `TypeOK` holds two bounds of the code besides types: recursion is at most three
  deep and the command line is parsed once.

**serve** (`MCServe`). About 134,000 states. Seven trees: an ordinary one with a partition, two
nodes and two jobs; one where a partition, a node and the cluster are named like the directory
that holds them; one whose second job is rejected, so that its directory has a
hole, and where strangers are kept out; three bare ones whose pool ends with the tree, one slot later and
two slots later, so that the available slots wrap; and one that does not fit its pool
and is never served. On each, one at a time: every operation, access mode, size, attribute name and user
on every path of the tree, on one wrong name in every directory and on the directory's own
name. On an eighth, two at a time: a listing, the counters, a read and the
storing of a context, in every interleaving. Two clients are enough for an update to be
lost and for a read between two stores. `MaxDrift` stops new requests when the lock
has drifted by more than one, in either direction; a drift only adds to the next.
`MaxDamage` stops the storing of contexts when one parameter differs from what it
was; every parameter is tried. `Word` scales the unsigned long to 16 bits, far
above any number that is not wrapped.

- `ShowsInputs`: every answer is one that `ClusterView` allows.
- `ListingAgrees`: number and type in a listing are those that a look-up of the entry finds.
- `StatfsCounts`: the numbers of `statfs` are those of the closed form `Needs`, the wrap included.
- `TreeImmutable`: no request changes a node, the pool, a bookmark or the dirty list.
- `LockBalanced`: a handler that has run alone leaves the lock where it was.
- `Answered`: every request is answered, whatever the lock's value has become, or
  the process has ended under it.

The remaining runs check one formula of `MkFsPromises`, `ServePromises` or `IngestPromises` each and find it violated.
They are disagreements between the code and its own comments, and `PROJECT.json`
quotes both sides.

| run | the comment | the code |
|---|---|---|
| `job_shows_own_record` | the record stored at set-up | every job has the first record |
| `job_dirs_built` | a job has jobsteps, attributes, control | the signature fails first |
| `estimate_suffices` | an estimate for every node, plus overhead | from thirty nodes on the tree does not fit |
| `listed_resolves` | modelled after `namei()` | an entry named like its directory is never found |
| `env_overrides` | the environment overrides the file | the setter refuses the value, the default is lost too |
| `options_honoured` | mount options override | no option is matched |
| `macconf_usable` | the MAC file overrides the default | its first line ends the process |
| `value_kept` | what a source has given is not overwritten from a lesser one | an option called like the parameter does |

Nine more disagreements show in what the models and the passing runs state of the code: a root's command, cast
as a knob, becomes an attribute (`CastOnce`; `rn_mkctl.c:66` says knobs); the table's rows for
umount and check are swapped (`CtlTab`; `rn_README.c:30`); `ControlMachine` gets the
cluster's name (`CollectConfParam`; `cp_tab.c:64`); the node
that is served is the cluster, whose child the jobs directory is, and not the root
(`MountComplete`; `inc/rmfs/rnode.h:49` says the root); `ErrExit()` returns without Debug and not with it (`MountAccounted`;
`usage.c:25`); `ListedDistinct` excepts the root, where the cluster gets its name
after the check for twins (`rn_cast.c:88`); a start without a mount point is found
complete (`MountPointArg`; `ingest.c:72`); and `isController` is not derived on the controller,
for hashes of two parameters' names are compared and not those of the hosts
(`CalculIsController`, `Outcome`; `calcul.c:28`), nor gets the
default that its row has for Debug (`Outcome`; `collect_cp.c:69`).

`Deadlock`: the models end in a state that stutters explicitly (`Exited` in
`RnodePool`, `Over` in `Serve`, `Ended` in the others), so the deadlock check stays on.

## Fairness

`RnodePool`: weak fairness of the steps of a running call, which nothing in a
single-threaded process can hold up; none of a new call, since no builder is
obliged to make one. `MkFs`: weak fairness of `Build`; `mk_fs()` runs to its end
without waiting for anything. `Ingest`: weak fairness of all steps but the final
stutter, for the same reason; a load that fails is a step like one that succeeds,
so nothing is assumed of the resource manager. `Serve`: weak fairness of `Start`, which
runs in one thread, and for each client of the steps of its handler, since no handler waits
for another and the threads are scheduled by the operating system; none of
`Receive` and `Unmount`, since nobody has to ask for anything or to unmount.

## Proofs

`RnodePoolProofs` proves, for every base, every default and configured pool size
and every bound on requests, that `Spec` of `RnodePool` satisfies
`TypeOK`, `CountersAgree`, `NoDuplicateAllocation`, `InodeIsSlot`,
`LockAccounted`, `HeldNodesKept` and `SpaceSpec`.

The assumptions are those of `RnodePool`: the base is a natural number, the default
size is a natural number above it, sizes and bounds are natural numbers.

The argument. None of the properties is inductive. That the next slot is free
needs the map to be the prefix below `nxt_avail`; that it exists needs the test
that `rn_alloc()` made before its loop, carried along by the locals; that the
inode number is the slot needs the count copied by `rn_provision()` to agree with the
pointer copied later by `rn_alloc()`. `IInv` is the conjunction: `ClosedInv` (no pool,
no holder), `OpenInv` (counters and map), `CallInv` (what the locals of the call say of
the pool, by program counter) and `HeldInv` (builders hold everything below the block of
the running call). One lemma per action shows that it is kept (`NextPreserves`
collects them). The properties follow from it, the action property
and the refinement from `IInv /\ IInv'` and a step.
In the refinement `ProvisionReturns` is the one step that grants, setting up the
pool opens the space, the exits stop it, and all other steps stutter.

`MkFsProofs` proves, for every reply of the resource manager, every size of the pool and
every base, that `Spec` of `MkFs` satisfies `TypeOK`, `CastIntoOwnBlock` and `SlotsGranted`, and
`MkFsTreeProofs` that it satisfies `TreeWellFormed`, `RecordsMatch`, `ListedDistinct` and `CastOnce`.
The assumptions are `BaseAllocAssumption` and `InputsAssumption` of `MkFs`, the fields of the
replies; nothing is assumed of names or of how many records there are.

The argument. `CastIntoOwnBlock` is not inductive: most builders find the next slot by adding one
to what the last `rn_cast()` returned, and the block a slot is in was set up by a call that has
been suspended while other calls took blocks and gave nodes back or not. `IInv` (`MkFsInv`) says,
for each running builder, which child of which builder it is (`FrameInv`), where its block is and
that every place from its next child on and the guard are fresh (`BlockInv`), that blocks lie in
the order of the calls (`OrderInv`), and that they are apart from the blocks of all directories
and these from each other (`DirsInv`, `ApartInv`); and that a node that was returned is the one
at the builder's next place (`RetInv`). `NextFree` is the consequence that every cast needs: the
next slot is fresh and nobody else's. `MkFsProofs` has a lemma per step. Each step of the pool is a
`Grant` of `RnodeSpace` or leaves the space alone, which is the refinement.

`TreeInv` (`MkFsTreeProofs`) rests on `IInv`: a cast that goes to a fresh slot cannot change a node
that is named. It adds what the nodes are called (`NamedOK`), which record a directory and its
attributes are of (`RecOK`, `AttrsNamed`), what a directory holds (`DirOK`), and that a listing has
no twins, which is where `rn_cast()`'s check meets the cluster's renaming.

`MkFsMountProofs` proves `MountComplete`. A NULL climbs: a builder that cannot go on gives up, and so does
its caller, until one goes on without the child, which only the builder of the jobs does, or until an
assertion ends the process. Whether a directory is full hangs on how each of its children ended and on whether an
assertion that returned is still climbing. `FillInv` says what an unnamed slot means while
nobody is giving up (`FullInv`), how far each running builder has filled its block
(`FilledInv`), that a NULL which its caller asserts has cost an assertion before (`NullOK`), where the
cluster and the jobs stand (`PlacesInv`), which nodes are named (`NamedInv`), that holes below the jobs come one at most, since the assertion behind one returns only
the first time (`OneHole`), and which of the directories `p_jobd` names (`JobdInv`). It rests on `IInv`, `TreeInv`
and `MountInv`; TLC found it to hold in all states of the run `mkfs` before it was proved.

`ShapeInv`, in the same module, says what the slots are that have been cast: a named slot of a finished
directory is the child that the directory's builder has for it, with its name, type and record, and a slot
that `rn_cast()` refused repeats an earlier child's name (`KidsOK`); a node has been cast once, an attribute
twice (`NodeOnce`); and only a job with a step goes beyond its first slot (`JobShown`, `JobGoes`). It rests
on `IInv`, `TreeInv` and `FillInv`, and TLC found it to hold in the run `mkfs` first.

`MkFsCountProofs` proves `MountAccounted`. The closed form is a sum over records, and what a recursion
sums up would take induction over data. It does without: all directories of one type that
have been finished have cost the same, so that every sum is a product, and the jobs that are twins, which cost
nothing, are counted by the cardinality of a set. `Spent` says in this closed form what a builder's
first children have taken, and `Cost` what a child takes. `CountInv` says that the pool has moved since a running builder took its
block by exactly what its finished children cost (`AccountOK`), what those children say of
the replies (`GivenOK`): that lists were arrays, that records were distinct, that no attribute failed; that of the jobs the twins,
and only they, have left their slots unnamed (`JobsOK`, by the least record where the two would differ), and that
every job lost has cost an assertion, of which one is survived (`JobLostOK`, `CaughtInv`). A builder's return
turns its own account into one child more of its caller's. TLC found it to hold in all 32,057 states of the
run `mkfs` first.

`IngestProofs` proves, for every environment, command line, MAC file and reply of the controller,
that `Spec` of `Ingest` satisfies `TypeOK`, `DependenciesFirst`, `SourceKept`, `NameResolves` and
`MountPointArg`. It assumes `InputsAssumption` of `Ingest`, the types of the inputs.

The argument. That a parameter has a source only behind its dependency depends on every call that
is suspended below the one that gives the source. `IInv` (`IngestInv`) says of each that it waits for
the row above it, that all but the innermost are at their dependencies, that the innermost has
its own behind it once it tries sources, and that the chain of dependencies that is left is
shorter than the stack that may still grow, which bounds the recursion at three (`FrameOK`). The
rows are found by hashes that setters overwrite: `HashOK` says that a hash is that of the row's
name or of an accepted value that is no row's name, unless host or users are called like one. The
command line is parsed in the middle of row 12 by a callback that writes to a row it looks up
again: `MountInv` says what the words so far have left there. The table changes in two ways
only, by finding rows (`LinksTo`) and by giving one row a source (`SetTo`); a lemma for each says
what it keeps, and the lemma of each collector is an instance. Options alone do both at once and store a value
without a source (`OptionTable`).

`IngestOriginProofs` proves `MostTrusted` and `Outcome` from the same assumption. Both hang on
the mode a row was collected in, and Debug is a row of the table itself: the rows before it (`Early`)
are collected without it, and only two of them, `ControlMachine` and `slurm_api_version`, may be called for
again behind it. `ModeInv` says that of every running call (`ModeOf`), what the table holds of
Debug at each row (`DebugInv`) and what the resource manager has told by then (`ManagerInv`), and
that each source a call has behind it had nothing or could not be asked (`Searched`).
Each collector is shown to lack the parameter, to give it, to turn to the arguments or to end the process
(`CollectDoes`), and each step to leave a row as it was (`Same`) or to give it the most trusted source
that has it (`Gains`); `MostTrusted` then stays because a source never changes to a less trusted
one. `PassedInv` says what each collected row has, so that at the end
`config_consistent_complete()` finds only what `Outcome` allows. An option that finds a row is no source:
`OptionTable` says all that it may do to the table, and `EarlyRows` that Debug, whose value every
mode hangs on, is of a type that it cannot change. `Outcome` asks that no hash be a refused
text of those that are values: the hash of a row's own name may well spell a text that
`typ_check()` would refuse, and is never checked. `IInv`, `ModeInv` and `EndInv`
also hold in every state of the run `ingest`, where TLC checked them before they were proved.

`MountInv` (`MkFsInv`, proved in `MkFsTreeProofs`) is what the handlers need of a tree and no property of the
builders says. Two rows of `rn_tab.c` would let a file be written: contexts and knobs. Outside the root's own
directories they occur in jobs only, and a job's builder never finishes them: the
attributes of a job end with a signature that cannot be collected, so the builder of a job's attributes
never returns a node (`JobOK`, `JobsInv`), and its control directory is never cast (`CtlOfRoot`).
`FsRootOK` follows `p_fsroot`, which the root's builder sets first and the cluster's builder
last. The nodes say rightly whether they are directories (`Flagged`). It rests on `IInv` and `TreeInv`.
`ClusterNamed` says that a cluster with a block has the name of the inputs.

`ServeProofs` proves, for every tree, every set of clients, every sequence of
requests and every overlap of their handlers, that `ServeSpec` satisfies `LockBalanced`, `ServeTypeOK`, `TreeImmutable`,
`ListingAgrees` and `StatfsCounts`, that it implements `ClusterView` (`ShowsInputs`), and that it implies
`Spec` of `MkFs`, so that what is proved of the builders' states holds while requests are served.
It assumes what `ServeAssumption` and the assumptions of `MkFs` say of the constants; that the slots of a
pool and the reserved ones are together fewer than `Word` is so in the program because `rn_poolinit()` takes
`rn_maxalloc` off an unsigned long.

The argument. `LockBalanced` is
not inductive: `LockInv` says where the lock is at each step of the one handler that
runs, and what its register holds; `OneMoves` is the argument once for all steps of a handler.
`TreeImmutable` needs that no check lets a write through, and so what `namer()` may find. `Seen` is the set of
the nodes it can get to, the file system's root and the named nodes below it; every step of the walk stays in it (`LookIs`,
`WalkSees`), and no file in it is writable or controllable (`FileIsRead`, from `MountInv`). `ServeInv` says of
each handler what it knows: that its node is still the one `namer()` finds, that it is a file or a directory as
the kernel asked, how many lock sections are left, and that a finished listing is that of its
node. Inductive it is only together with the immutable tree, which is why both are proved by
one lemma (`NextServeInv`). `ListingAgrees` compares two walks whose paths differ by the entry's name:
`SameWalk` shows them equal until then, by the least place where they differ, which `IsEntry` excludes;
`ListedFront` shows that what is listed is an interval of the block, and `ListedDistinct` that the look-up can
find no other entry. `StatfsCounts` joins `MountAccounted` with the frozen tree: `StatfsInv` says that what a
finished `statfs` has answered are still the numbers of the pool.

`ShowsInputs` needs to know, of every node that a path can reach, which place of the view it shows: `PlaceOf`
reads this off the node's type and record. `EntriesShown` is the heart: a finished directory lists,
in this order, the entries that the view gives its place. It follows from `ShapeInv` and
`MountAccounted`; the jobs are the one list that may be shorter than the reply, for one hole
ends a listing, and `FirstAre` shows that what stands before it is the prefix that
the view shows, up to the first repeated job. Step by step `namer()` and the view's walk then find the same
(`WalksAgree`), on every path that the kernel lets through (`AllowedIs`). `RepliesAnswer`, `ReadAnswers`
and `StoreAnswers` show that what a handler answers is an answer of the view. `AskInv` adds to `ServeInv` what a
handler still knows at its later steps: that the kernel has let the request through, that the checks it is
past were passed, and that a copy fits unless a stored context has changed some parameter. With it
`NextShows` maps every step: `Receive` asks, `Handle`, the two steps
of a read, the size of a stored context and the look for its parameter answer, `Deliver` forgets, the store
itself spoils a parameter, `RmfsInit` opens, `Unmount` and the crash in the look for the parameter close,
and all others stutter.

`ServeInv` also holds in every state of the run `serve`, where TLC
checked it before it was proved.

Only model-checked:

- liveness (`ProvisionEnds`, `Ends`, `Answered`, `MountOutcome`), which is outside the
  prover's reach; the safety behind `MountOutcome` is `MountAccounted`, which is proved.

## What is left out

- Failures of `malloc`, `strdup`, `dup_cp` and `snprintf`, and `djb_strtohash`
  collisions: a name stands for its hash.
- `rn_mkallocjob()` and `rn_resetugid()`, which no input reaches (row 13 of the table is never
  called for its type; a job's signature fails before), and `rn_raze()`, a stub.
- Modes and times of nodes, the values of extended attributes, and owners but for
  the access check.
- The branch of `rmfs_write()` for knobs and the control functions behind it
  (`rn_ctlroot.c`, `rn_ctljobid.c` but for the signature): commands become attributes, and
  the root's lie outside the tree that is served, which starts at the cluster.
- The backing store, the hand-over between two instances and
  `mount.c`: the code is compiled only under `PORTING_TO_SLURMv17`, where it stops the
  compiler on purpose, or lies behind the stub that always fails, or is never called.
- With the collectors as they are a completed ingestion leaves Debug set. `MkFs` and
  `Serve` check both modes all the same: it hangs on nothing but the two faults that
  `macconf_usable` and `options_honoured` show.
- The conversions of single parameter types: `typ_check()` is the set of texts it
  refuses, and `typ_copyout()` the size check and which text is shown. That the bytes of a short text and of what lies
  behind it spell an address that is mapped; and the lengths that `typ_host()` refuses, for a word that is
  stored in the row of a host called MountPoint.
- `calcul_unmountwait()`, `record_mountpoint()`, `collectos_pidfile()` and
  `collectmac_context()`: their rows do not permit the source that would call them.
- The lock that `calcul_rnodepool()` leaves taken on an early return: each is behind an assertion that
  ends the process.
- Names in `.Old/`, `TAGS`, `cscope.out`, `SPECS` and the Makefiles carry no behaviour.

## Plan

1. `RnodeSpace`, `RnodePool`, `RnodePoolProofs` - done.
2. `MkFs`, its TLC instance and the promises - done.
3. `Ingest`, its TLC instance and the promises - done.
4. `ClusterView`, `Serve`, its TLC instance and `ServeProofs` - done. It took the place of the
   `Namer`, `FuseOps` and `DirtyList` planned first: the walk, the checks and
   the lock only show what can go wrong together, and the dirty list stays empty
   because no check lets a write through, which `TreeImmutable` states.
5. The estimate of the pool, in `MkFs` - done.

Runs are few and each answers a question of its own: a run of a later module takes the
place of one of the runs that show a single disagreement.

Every safety property that a passing run checks is proved, the refinements of `RnodeSpace` and of
`ClusterView` among them; what stays model-checked is the liveness listed at the end of "Proofs".
