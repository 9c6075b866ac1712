# A verification of BitKeeper's locking, update and transfer machinery

TLA+ models of the parts of BitKeeper that keep several processes, crashes and
broken connections from damaging a repository. They are written from the C code
under `src/src`. TLC checks them on small instances and TLAPS proves the central
theorems for every instance.

## The system

| part | code | state | what makes it hard |
|---|---|---|---|
| lock file | `port/sccs_lockfile.c` | the lock file, one uniq file per process | NFS, owners that die, read-then-unlink |
| repository lock | `locking.c` 1-590 | `BitKeeper/readers/*`, `BitKeeper/writer/lock`, RESYNC, global locks | create-then-look races, crashes, retries |
| nested lock | `locking.c` 591-1401 | `nested_lock`, `NL*`, `RESYNC/.bk_nl`, `nl_mutex`, `_BK_NESTED_LOCK` | sessions of several processes, http timeouts, a mutex with a timeout |
| command locking | `bk.c` `cmdlog_lock` | the environment | order of the clean ups |
| update | `takepatch.c`, `resolve.c`, `restore.c`, `abort.c` | RESYNC, the s.files, the id cache, HERE, a backup | a failure or a kill between any two files |
| undo | `undo.c` | the same RESYNC and backup | as the update, and what the two leave to each other |
| key sync | `synckeys.c` | two graphs of changesets and tags | a logarithmic probe, a prober that changes after it |
| push and pull | `push.c`, `pull.c`, `bkd_push.c`, `bkd_pull.c` | clients, a server, its RESYNC and BAM pool | http requests with a lock each, lost connections |
| s.files, BAM store, nested collections, merge, user interface | the rest | file content | sequential work on data, see "Not modelled" |

A command takes the repository lock, and in a product with components the
nested lock, before it changes anything (`cmdlog_lock`). A push or a pull
compares the keys of two repositories, sends what one of them lacks and gives it
to takepatch, which makes RESYNC, a lock of its own against writers; resolve
moves its files into the repository; abort removes it. Undo takes an update out
again, by way of a RESYNC of its own.

## Modules

| module | models | uses |
|---|---|---|
| `LockFile` | one lock file | |
| `RWLock` | what the repository lock promises | |
| `RepoLock` | the repository lock | extends `LockFile`; implements `RWLock` |
| `NestedLock` | the nested lock | instantiates `RWLock` for the product's lock; implements `RWLock` |
| `Apply` | takepatch's RESYNC, pass 4 of resolve, roll back, abort | |
| `Undo` | undo beside all of `Apply` | extends `Apply` |
| `KeySync` | probekey, listkey, prunekey | |
| `Transfer` | pushes and pulls of several clients | the promises of `RWLock`, `KeySync` and `Apply`, one step each |
| `RepoLockProofs` | theorems about `LockFile` and `RepoLock` | extends `RepoLock` |
| `RepoLockHonest` | theorems about `RepoLock` when nobody is robbed | extends `RepoLockProofs` |
| `NestedLockProofs`, `KeySyncProofs`, `TransferProofs` | theorems | extend what they are about |
| `ApplyProofs` | types and loops of resolve and undo, where the old files are | extends `Undo` |
| `UndoProofs` | theorems about undo, and that the old files are kept | extends `ApplyProofs` |
| `UpdateProofs` | theorems about the update as a whole | extends `UndoProofs` |
| `MC*` | instances for TLC | `KeySync` and `Transfer` need none |

**LockFile.** `file` is the owner recorded in the lock file and `uniq` the
processes with a uniq file. `Link` and `Test` are `link(2)` and the test of the
link count; `Look`, `Readlockf`, `Findpid` and `Discard` are the steps of
`sccs_stalelock`, kept apart because other processes run between them. `robbed`
is a history variable: those whose lock file somebody else removed.

**RepoLock.** `rpc` is a second program counter, in `locking.c`; the writer lock
is `LockFile` with `waitsecs` 0. `repository_hasLocks` reads the directory in one
step and examines its entries one by one. All processes are on one host.

**NestedLock.** A session is its lock id. Creating a lock file and writing it are
two steps (`Write`, `Fill`), since `Fprintf` opens before it writes. Time is the
age of an http lock: fresh, idle, aged. `Env` names what may happen from
outside: forced unlocks, `bk lock -l`, a session that takes longer than the
mutex timeout, a full disk, an unlink that is denied. A process that goes is killed,
or exits and cleans up; one that fails the assertion of `nested_mine` is killed.
`NestedMode` is the lock that a session has, from the creation of its file to the
unlink.

**Apply.** `disk` maps paths to s.files, old or new; keys never change and paths
may. Each file is listed, removed, linked, unlinked and restored in a step of its
own, any of which may fail or be the last before a kill. The id cache is state,
because pass 4a finds the old files through it. Pending patches, TIP and gfiles
are left out.

**Undo.** `tree` is the content of undo's RESYNC. `MoveOut` is one turn of the
loop of `moveAndSave` and `Archive` one file of the `sfio -o` beside it, which
lags behind by a buffer; `Close` is the `pclose` that waits for it. `Strip`,
`Names` and `MoveBack` take the deltas out, rename and put the files back, and
`Err`, `UndoRestore`, `UndoRestored` and `Clean` are the path at `err:`. All
commands of `Apply` run in between, and each finds what the other left behind.

**KeySync.** `graph` is every delta there is, `mine` and `theirs` the two sides.
The probe is one step per key; `listkey` and `prunekey` are one step each, since
they run under a lock. Between probe and prune the prober may gain or lose
deltas: in an http pull the server probes in one request and prunes in the next.
What `sccs_color` and `sccs_tagcolor` mark by recursion is stated as reachability.

**Transfer.** One server, any number of clients. `PushPart1` to `PushPart3` and
`Resolve` are the requests of a push, `PullPart1` and `PullPart2` those of a pull.
Over `bk://` one process keeps its lock through all of them; over http each
request has its own, and part 3 goes past any RESYNC (`bk.c`, `cmdlog_lock`).
`Lost` is a client that goes away, `LockedOut` a request that does not get its
lock. Somebody at the server commits, undoes, resolves and aborts.

In each module a definition marked *Fault* is a plausible mistake in the code.
It is no part of the specification; replacing the definition after it by the
fault shows that the properties notice.

## Runs

Passing:

| run | instance | shows |
|---|---|---|
| `lockfile_calls` | 3 processes, 1 host, all values of waitsecs | only the removal of a live lock breaks exclusion; no uniq file is left; calls return; a newcomer removes the lock of a dead owner |
| `repolock_safety` | 3 processes, 1 attempt, forced unlocks | a writer excludes, unless robbed |
| `repolock_live` | 2 processes, 2 attempts, a global lock | implements `RWLock`; RESYNC blocks; nothing is left; calls return; a survivor gets the lock |
| `nested_pids` | 3 sessions, no outside events | exclusion; implements `RWLock`; files and RESYNC of holders, mutex; a lone writer gets its lock |
| `nested_rough` | 2 sessions, one http, all outside events | a write lock fences off every earlier id; calls return |
| `update` | 5 files: two swap names, one is new, one goes back to its first name; two faults; apply, abort and undo in any order | without a fault all or nothing, what was there before if the command does not get through, and nothing in the way of a link; old files recoverable until pass 4 is begun again; a resolve that completes has applied everything; undo keeps every file, finds no name taken, and ends with a whole repository or with RESYNC and backup |
| `keysync` | all graphs of 6 deltas with 2 in the tag graph and 1 merge, all pairs of repositories | what is sent is exactly what is missing, the prober's changes in between allowed for; the probe is logarithmic |
| `transfer` | 2 clients, 4 changesets, with and without BAM data | repositories stay whole; a push is of a superset; BAM data is complete; OK means arrived; RESYNC does not stay |

Three processes are the least in which two race over what a third left, and two
attempts the least in which a retry happens. Five files are the ChangeSet file,
a swap, a new file, and one whose old name is not that of its creation, which a
resolve without a ChangeSet file does not find. Two faults are a crash and a crash
of the recovery, or a failure of the recovery. Six deltas give the probe a step of 1, 2 and 4, which is
where it first jumps over something. Four changesets are the common one, one of
each client and a merge.

Violations, each of what a comment, a test or a manual page says:

| run | what happens |
|---|---|
| `lockfile_mutex` | two removers of one stale lock end with two owners |
| `nested_http` | an expired writer's id is accepted beside a new reader's |
| `apply_abort` | abort after a kill in pass 4 loses the files in the backup |
| `undo_sfio` | undo does not look at the exit status of its sfio; if that could not write the archive and undo then fails, files are lost |

More that the models show and no run asks for by name:

- A caller with waitsecs -1 tests for staleness on its first round only. If the
  owner dies later it waits for good, hence `NewcomerReclaims` speaks of callers
  that have not slept.
- `bk lock -l` takes a file that is created and not yet written for garbage and
  removes it, hence `HeldOnDisk` is checked without it.
- When `nlock_acquire` times out, `nested_wrlock` goes to `out:` and there
  releases the mutex of the session that has it, hence `OwnsMutex` is checked
  without sessions that stall past the timeout.
- `nested_lockers` with `removeStale` unlinks stale reader files; a stale writer
  is only left out of the list and its file stays. `GrantFences` shows that the
  next write lock replaces it.
- `nested_mine` asserts that it can read the file it has just seen (`locking.c:1170`).
  By `HeldOnDisk` the file of a live session stays, so the assertion fails only if
  somebody forces an unlock in between.
- The `touch()` that "marks as used" a nested reader (`locking.c:1187`) leaves the
  times of an existing file alone, so an http reader expires while it is in use.
- A resolve that is run again after a kill in pass 4 may find no ChangeSet file.
  Its id cache is then empty (`resolve.c:294`), and it takes every file to be where
  it was created. A renamed file that the first run did not get to stays at its old
  name beside the new one, hence the last clause of `CompleteWhenDone` speaks of
  behaviours without a kill, and `OldRecoverable` of all the new files rather than
  of nothing but them.
- HERE is replaced outside the backup (`resolve.c:2954`) and is not rolled back.
- An undo removes the backup of a resolve that was killed before it looks whether
  it has anything to do (`undo.c:131`), hence `OldRecoverable` ends there.
- Part 3 of an http push goes past any RESYNC (`bk.c:1264`), so it may resolve or
  abort that of another push. `AllWhole` and `BamComplete` hold all the same.
- Part 3 that finds no RESYNC says OK (`bkd_push.c:419`), hence `PushedIsThere`
  excepts a push of which somebody at the server removed something.
- A push that a reader locks out of its part 3 begins again with part 1, which its
  own RESYNC blocks, hence the exception in `ResyncSettles`.
- The assertion at `synckeys.c:504` fails if the tag that matched is undone
  between the two requests of an http pull, hence `TagMatchKnown` speaks of a
  prober that has lost nothing.

Several hosts occur in no run; the theorems about `LockFile` hold for any
assignment of hosts. `MaxElsewhere`, deltas that neither side has, is 0 in
`keysync`; the theorems have no such bound.

`CHECK_DEADLOCK FALSE` is set where all processes may be gone, where a repository
without its ChangeSet file accepts no command, and in `keysync`, whose exchange
ends.

**Fairness.** Only weak fairness of the steps of a process inside a lock
function, and in `Transfer` of what a client's program goes on to do by itself
(`Goes`): the operating system runs it. Nothing obliges a holder to unlock, a
user to run a command, a connection to last or a process to stay alive.

## Proofs

The assumptions are those of the modules: `None` is no process, bounds are
positive, for `RepoLock` one host and `"zero" \in Waits`, and for `Apply` and
`Undo` that no two files of the update have one name, before or after it, and
that `Order` lists each file once.

`LFInv` strengthens the exclusion of the lock file with: a process that is gone
is idle, a holder owns the file or was robbed, uniq files exist only inside a
call or while holding, a verdict is about an owner that was read, and on one
host nobody is condemned while all live. The last is needed because exclusion
is lost two steps after the wrong verdict.

`RLInv` adds to the core of `LFInv`: the two program counters are in step, a
reader has its file or was robbed, a scan still has ahead of it every reader it
must see, and a writer sees no reader. This is the argument that create-then-look
on both sides lets in only one. `HonestInv` adds that nobody is robbed and that
files belong to processes inside a call or holding. From it follow
`ResyncBlocks`, `LeavesNothing` and the step simulation of `RWLock`. A step of
`RepoLock` moves one process. The lemma `OneMoves` reduces the preservation of
the pairwise invariants to what the step does to that process and what it leaves
to the others; each action is then a few lines.

The nested lock needs three invariants, each under fewer assumptions about the
world than the next. `Inv`, for any sessions and events: a function that is
between its parts has the repository lock in its mode, so that while
`nested_wrlock` runs nobody else is inside a nested function; and once it has found
no lock, the stale readers are gone and nothing can be added. `GrantFences`
follows. `MutexInv`, if nobody waits for the mutex until it times out
(`"stall" \notin Env`): whoever is between `nlock_acquire` and `nlock_release` is
the one named in `nl_mutex`. `Quiet`, for ids with pids and no outside events
(`Http = {}`, `Env = {}`; kills at any step remain): a file is empty only while its
maker has the mutex, so nobody who looks takes a live session for stale, and every
id that was granted stays on disk until it is unlocked. From it follow
`NestedExclusion`, `HeldOnDisk`, `ResyncHeld`, `QuietClean` and `MutexReturned`, for
any number of sessions, and the step simulation of `RWLock` (`ImplementsNestedLock`):
the one step that takes a lock is `Write`, and what `nested_wrlock` or `nested_rdlock`
looked at before it still holds there; every other step gives back the lock of its own
session or changes no lock. `nested_http` shows that the assumption on ids is needed.

`KSInv` says that the probe is of keys of the prober, that both sides are closed
under what is behind a delta, and that the list is what the lister has that is
not behind a match. Whatever is behind a match is then in both, and `NothingMissed`
and `Exact` follow for every graph, every pair of repositories and every way the
prober grew in between.

`TrInv` adds to the types: every repository is whole, and so is the server
together with its RESYNC; whoever resolves has the write lock, and a write lock
over `bk://` was taken without a RESYNC; what a push has sent is in the server or
in RESYNC, or was removed by somebody. That a patch which is not refused is of a
superset takes a graph argument: of a set of changesets the newest
one that is outside of a closed part is a tip (`TipBeyond`, from
well-foundedness), so a server with a changeset that the client lacks has a tip
besides that of the patch, and takepatch -c would refuse it.

The stride of a probe, and with it `KSTypeOK`, is bounded by `KSTypes`: a probe
stays in the graph it began in, that of the changesets goes on only while the
stride is within the serial of the tip, and that of the tags only while there are
so many tags. (The bound is four times the number of deltas. Twice that number,
which six deltas do not exceed, is too small for seven.) `ProbeIsShort` follows from
`Short`: after k keys the stride is 2 ^ k or more. The prover knows nothing of
powers and cannot use the induction theorems of the library, which have an operator
as parameter. `Power2` is therefore a recursive function. `Induct` is induction
stated for a set, from the well-foundedness of `<`. From it follow that the
tables of powers up to k exist (`PowersExist`) and agree (`PowersAgree`), and so that
`Power2` is what its definition says (`Power2Def`).

Resolve and undo need four invariants. None of them bounds the number of files,
the renames or the number of kills.

`TypeInv` adds to `UnTypeOK` whose RESYNC it is at each place (`Turns`), how far each
loop is and how long its list can be (`Steps`), and that sfio archives for undo what
was moved, in its order (`Archiving`). The last two are needed because the types
bound the archive: it has no more files than the update only because a path is
listed once per file and a file is archived after it was moved.

`UnInv` says for each place in undo where every file is: in its place or moved
while undo moves them, moved and archived once sfio was waited for, old where it
has been moved back and in RESYNC where it has not. That no name is taken follows
from one of its parts: after the last move nothing but the ChangeSet file is in the
repository. What depends on the archive, `UndoSaved` and `UndoEnds`, holds if sfio
archives what it is told to (`~SfioFails`); `undo_sfio` shows what happens otherwise.

`Linked` and `Tried` carry `OldRecoverable`, with any number of kills and whatever
sfio does. `Linked`: what pass 4c has linked is new. `Tried`: before the first attempt
no old file was touched; in it, each file is in the backup before it is removed, and
stays there until all of the update is in place. A kill, an abort, a roll back or a
restore does not change this, which is why it is stated for every place and not for
those of pass 4 alone; an undo ends it, since it removes the backup.

`NoFault` carries what holds unless a command is killed: at each place of pass 4,
of its roll back and of undo which files are old, new or absent (`Sound`). The roll
back is right because the backup has every old file (`BackupOld`), because pass 4a
finds every old file through an id cache that is right as long as the files are old
(`OldFound`, `WrittenOld`), and because what is on the disk while files are linked is
what was linked (`Applying`), so that `unapply` leaves nothing. `AllOrNothing`,
`NoConflict` and `CompleteWhenDone` follow, under `~SfioFails`, since an undo without
an archive can leave neither the old nor the new repository. So does `RolledBack`,
which says which of the two repositories is left: at the end of a roll back the
ChangeSet file is absent or the one the command found (`Rolling`, `Undoing`), and it
tells the old repository from the new one (`OldIsNotNew`).

The type invariants of `LockFile`, `RepoLock`, `NestedLock`, `Apply` and `Undo` are
proved and no run repeats them.

Model-checked only: liveness (`CallsReturn`, `NewcomerReclaims`, `CallReturns`,
`SurvivorGetsLock`, `NestedSurvivor`, `NestedReturns`, `ResyncSettles`), which is out of
the prover's reach. Every safety property of a passing run has a theorem.

## Not modelled

- *Apply and undo*: passes 1 to 3 of resolve, the weave and patch parsing of
  takepatch, `bk resolve` run on undo's RESYNC, HERE in undo, `bk restore` as a
  command, the locked rebuild of the id cache.
- *Ensembles*: abort, undo, push and pull of a product with its components, clone
  and populate. Their roll back goes across many repositories, each of which does
  what `Apply`, `Undo` and `Transfer` show.
- *Key sync*: `-r` (a probe of part of the history), the syncroot keys of grafted
  packages, `SK_FORCEFULL`, the skip hash of a pull.
- *Transfer*: tags, the RESYNC of the client in a pull, the client's fetch of BAM
  data, BAM servers and the index of the store, triggers beyond their failure.
- *Locks*: the TCP side of `bk lock`. Pids are not reused. Processes on several
  hosts are modelled for the lock file only. In `LockFile` no host is called
  localhost (the code judges such an owner by age alone), and the NFS
  work-arounds, the wait for the attribute cache and the retry when the link count
  exceeds 2, are left out.
- *The rest*: the s.file format, ranges, merge, diff, commit beyond its result, the
  user interface, and the libraries that are part of the tree. This is by far the
  larger part of the code, so the share of all lines that the map names is small:
  it is sequential work on file content, which tests on data reach and an
  exploration of interleavings adds nothing to.
