------------------------------ MODULE RepoLock ------------------------------
(***************************************************************************)
(* The repository lock of locking.c: readers each own a file in            *)
(* BitKeeper/readers, the writer owns BitKeeper/writer/lock (a LockFile    *)
(* taken with waitsecs 0), a RESYNC directory stops writers that do not    *)
(* ignore it, and the files of /etc/BitKeeper/locks stop everyone.         *)
(*                                                                         *)
(* A reader creates its file and then looks for a writer; a writer takes   *)
(* the writer lock and then looks for readers.  All processes are on one   *)
(* host, so a lock is stale exactly when its process is gone.              *)
(***************************************************************************)
EXTENDS LockFile

CONSTANTS Tries,  \* attempts of repository_rdlock and repository_wrlock (10)
          Admin   \* what the administrator may do: subset of AdminActs

ASSUME TriesAssumption == Tries \in Nat \ {0}
ASSUME ZeroAssumption == "zero" \in Waits
ASSUME OneHostAssumption == \A p, q \in Proc : Host[p] = Host[q]

VARIABLES
    rpc,      \* where each process is in locking.c
    tries,    \* the attempts it has left
    ignore,   \* those that run with _BK_IGNORE_RESYNC_LOCK
    readers,  \* those whose file is in BitKeeper/readers
    todo,     \* the reader files repository_hasLocks has still to look at
    found,    \* those whose repository_hasLocks has counted a lock
    resync,   \* who made the RESYNC directory, None if there is none
    glob      \* which global lock files exist

rlvars == <<rpc, tries, ignore, readers, todo, found, resync, glob>>
vars == <<lfvars, rlvars>>

RLabels == {"out", "rdtry", "rdcheck", "rdback", "reading",
            "wrtry", "lockfile", "getdir", "scan", "writing", "downgrade",
            "look"}

AdminActs == {"global", "unlock -r", "unlock -w"}

Resting == {"out", "reading", "writing"}

Writing(p) == rpc[p] \in {"writing", "downgrade"}
Reading(p) == rpc[p] = "reading"

RGoto(p, label) == rpc' = [rpc EXCEPT ![p] = label]

RAt(p, label) == p \in Live /\ rpc[p] = label

RLTypeOK ==
    /\ LFTypeOK
    /\ rpc \in [Proc -> RLabels]
    /\ tries \in [Proc -> 0..Tries]
    /\ ignore \subseteq Proc
    /\ readers \subseteq Proc
    /\ todo \in [Proc -> SUBSET Proc]
    /\ found \subseteq Proc
    /\ resync \in Proc \cup {None}
    /\ glob \subseteq {"rdlock", "wrlock"}

Init ==
    /\ LFInit
    /\ rpc = [p \in Proc |-> "out"]
    /\ tries = [p \in Proc |-> 0]
    /\ ignore = {}
    /\ readers = {}
    /\ todo = [p \in Proc |-> {}]
    /\ found = {}
    /\ resync = None
    /\ glob = {}

-----------------------------------------------------------------------------

(* A lock function returns; only the holder of the write lock goes on      *)
(* under the environment it was called with.                               *)
RReturn(p, label) ==
    /\ RGoto(p, label)
    /\ tries' = [tries EXCEPT ![p] = 0]
    /\ todo' = [todo EXCEPT ![p] = {}]
    /\ found' = found \ {p}
    /\ ignore' = IF label = "writing" THEN ignore ELSE ignore \ {p}

(* Fault: the attempts are not counted.                                    *)
RetryUncounted(p, label) ==
    /\ RGoto(p, label)
    /\ found' = found \ {p}
    /\ UNCHANGED <<tries, todo, ignore>>

(* One attempt has failed: the next one, or the error.                     *)
Retry(p, label) ==
    IF tries[p] > 1
    THEN /\ RGoto(p, label)
         /\ tries' = [tries EXCEPT ![p] = @ - 1]
         /\ found' = found \ {p}
         /\ UNCHANGED <<todo, ignore>>
    ELSE RReturn(p, "out")

(* Another process's rmdir of the lock directory between our mkdir and our *)
(* creat makes an attempt fail.                                            *)
DirRemoved(p) == Live # {p}

(* repository_rdlock(), which fails at once under a global write lock.     *)
RdStart(p) ==
    /\ RAt(p, "out")
    /\ "wrlock" \notin glob
    /\ tries' = [tries EXCEPT ![p] = Tries]
    /\ RGoto(p, "rdtry")
    /\ UNCHANGED <<lfvars, ignore, readers, todo, found, resync, glob>>

(* rdlock(): create the reader file ...                                    *)
RdCreat(p) ==
    /\ RAt(p, "rdtry")
    /\ readers' = readers \cup {p}
    /\ robbed' = robbed \ {p}
    /\ RGoto(p, "rdcheck")
    /\ UNCHANGED <<file, old, uniq, pc, wait, waited, seen, dead>>
    /\ UNCHANGED <<tries, ignore, todo, found, resync, glob>>

RdCreatFails(p) ==
    /\ RAt(p, "rdtry")
    /\ DirRemoved(p)
    /\ Retry(p, "rdtry")
    /\ UNCHANGED <<lfvars, readers, resync, glob>>

(* Fault: only the global locks are looked at after the creat().           *)
RdCheckGlobalOnly(p) ==
    /\ RAt(p, "rdcheck")
    /\ IF "wrlock" \notin glob
       THEN RReturn(p, "reading")
       ELSE RGoto(p, "rdback") /\ UNCHANGED <<tries, ignore, todo, found>>
    /\ UNCHANGED <<lfvars, readers, resync, glob>>

(* ... then look for a writer: it is a read lock if there is none ...      *)
RdCheck(p) ==
    /\ RAt(p, "rdcheck")
    /\ IF file = None /\ "wrlock" \notin glob
       THEN RReturn(p, "reading")
       ELSE RGoto(p, "rdback") /\ UNCHANGED <<tries, ignore, todo, found>>
    /\ UNCHANGED <<lfvars, readers, resync, glob>>

(* Fault: the reader file stays when the attempt fails.                    *)
RdBackoffKeepsFile(p) ==
    /\ RAt(p, "rdback")
    /\ Retry(p, "rdtry")
    /\ UNCHANGED <<lfvars, readers, resync, glob>>

(* ... and backs off if there is.                                          *)
RdBackoff(p) ==
    /\ RAt(p, "rdback")
    /\ readers' = readers \ {p}
    /\ Retry(p, "rdtry")
    /\ UNCHANGED <<lfvars, resync, glob>>

RdUnlock(p) ==
    /\ RAt(p, "reading")
    /\ readers' = readers \ {p}
    /\ RReturn(p, "out")
    /\ UNCHANGED <<lfvars, resync, glob>>

(* repository_wrlock(), by a command that ignores RESYNC or does not.      *)
WrStart(p) ==
    /\ RAt(p, "out")
    /\ glob = {}
    /\ ignore' \in {ignore \ {p}, ignore \cup {p}}
    /\ tries' = [tries EXCEPT ![p] = Tries]
    /\ RGoto(p, "wrtry")
    /\ UNCHANGED <<lfvars, readers, todo, found, resync, glob>>

(* wrlock(): no global lock, and then the writer lock file.                *)
WrTry(p) ==
    /\ RAt(p, "wrtry")
    /\ glob = {}
    /\ Lockfile(p, "zero")
    /\ RGoto(p, "lockfile")
    /\ UNCHANGED <<tries, ignore, readers, todo, found, resync, glob>>

WrTryFails(p) ==
    /\ RAt(p, "wrtry")
    /\ glob # {} \/ DirRemoved(p)
    /\ Retry(p, "wrtry")
    /\ UNCHANGED <<lfvars, readers, resync, glob>>

(* A step inside sccs_lockfile or sccs_stalelock.                          *)
LockStep(p) == Step(p) /\ UNCHANGED rlvars

WrLost(p) ==
    /\ RAt(p, "lockfile")
    /\ pc[p] = "idle"
    /\ Retry(p, "wrtry")
    /\ UNCHANGED <<lfvars, readers, resync, glob>>

(* Fault: RESYNC is not looked for.                                        *)
WrResyncIgnored(p) ==
    /\ RAt(p, "lockfile")
    /\ pc[p] = "held"
    /\ RGoto(p, "getdir")
    /\ UNCHANGED <<lfvars, tries, ignore, todo, found, readers, resync, glob>>

(* The writer lock is taken: does a RESYNC directory forbid it?            *)
WrResync(p) ==
    /\ RAt(p, "lockfile")
    /\ pc[p] = "held"
    /\ IF resync # None /\ p \notin ignore
       THEN Unlockfile(p) /\ Retry(p, "wrtry")
       ELSE RGoto(p, "getdir") /\ UNCHANGED <<lfvars, tries, ignore, todo, found>>
    /\ UNCHANGED <<readers, resync, glob>>

(* Fault: the reader directory is not listed.                              *)
WrGetdirEmpty(p) ==
    /\ RAt(p, "getdir")
    /\ todo' = [todo EXCEPT ![p] = {}]
    /\ found' = found \ {p}
    /\ RGoto(p, "scan")
    /\ UNCHANGED <<lfvars, tries, ignore, readers, resync, glob>>

(* repository_hasLocks(READER_LOCK_DIR): list the directory ...            *)
WrGetdir(p) ==
    /\ RAt(p, "getdir")
    /\ todo' = [todo EXCEPT ![p] = readers]
    /\ found' = found \ {p}
    /\ RGoto(p, "scan")
    /\ UNCHANGED <<lfvars, tries, ignore, readers, resync, glob>>

(* Fault: the files of processes that are gone count as locks.             *)
WrScanCountsStale(p) ==
    /\ RAt(p, "scan")
    /\ \E q \in todo[p] : todo' = [todo EXCEPT ![p] = @ \ {q}]
    /\ found' = found \cup {p}
    /\ UNCHANGED <<lfvars, rpc, tries, ignore, readers, resync, glob>>

(* ... and look at each file: a stale one is removed, one that has gone by *)
(* now counts as a lock like any other.                                    *)
WrScan(p) ==
    /\ RAt(p, "scan")
    /\ \E q \in todo[p] :
          /\ todo' = [todo EXCEPT ![p] = @ \ {q}]
          /\ IF q \in readers /\ q \in dead
             THEN readers' = readers \ {q} /\ UNCHANGED found
             ELSE found' = found \cup {p} /\ UNCHANGED readers
    /\ UNCHANGED <<lfvars, rpc, tries, ignore, resync, glob>>

(* "Make sure no readers sneaked in".                                      *)
WrDone(p) ==
    /\ RAt(p, "scan")
    /\ todo[p] = {}
    /\ IF p \in found
       THEN Unlockfile(p) /\ Retry(p, "wrtry")
       ELSE RReturn(p, "writing") /\ UNCHANGED lfvars
    /\ UNCHANGED <<readers, resync, glob>>

(* repository_wrunlock(): sccs_unlockfile if it is still our lock.  If not,*)
(* the process goes on without one, its uniq file left in place.           *)
WrRelease(p) ==
    \/ file = p /\ Unlockfile(p)
    \/ /\ file # p
       /\ Return(p, "idle")
       /\ UNCHANGED <<file, old, uniq, dead, robbed>>

WrUnlock(p) ==
    /\ RAt(p, "writing")
    /\ WrRelease(p)
    /\ RReturn(p, "out")
    /\ UNCHANGED <<readers, resync, glob>>

(* Fault: no reader file before the writer lock goes.                      *)
DgCreatForgotten(p) ==
    /\ RAt(p, "writing")
    /\ file = p
    /\ RGoto(p, "downgrade")
    /\ UNCHANGED <<lfvars, tries, ignore, readers, todo, found, resync, glob>>

(* repository_downgrade(): a reader file, and only then the writer lock.   *)
DgCreat(p) ==
    /\ RAt(p, "writing")
    /\ file = p
    /\ readers' = readers \cup {p}
    /\ RGoto(p, "downgrade")
    /\ UNCHANGED <<lfvars, tries, ignore, todo, found, resync, glob>>

DgUnlock(p) ==
    /\ RAt(p, "downgrade")
    /\ WrRelease(p)
    /\ RReturn(p, "reading")
    /\ UNCHANGED <<readers, resync, glob>>

(* A writer makes RESYNC (takepatch) ...                                   *)
MkResync(p) ==
    /\ RAt(p, "writing")
    /\ resync = None
    /\ resync' = p
    /\ UNCHANGED <<lfvars, rpc, tries, ignore, readers, todo, found, glob>>

(* ... and its maker, or resolve or abort, removes it.                     *)
RmResync(p) ==
    /\ RAt(p, "writing")
    /\ resync # None
    /\ p \in ignore \/ resync = p
    /\ resync' = None
    /\ UNCHANGED <<lfvars, rpc, tries, ignore, readers, todo, found, glob>>

(* bk unlock -s, bk lock -l: look at the writer lock, then at the other    *)
(* files; those of processes that are gone are removed.                    *)
LookStart(p) ==
    /\ RAt(p, "out")
    /\ Look(p)
    /\ RGoto(p, "look")
    /\ UNCHANGED <<tries, ignore, readers, todo, found, resync, glob>>

LookSweep(p) ==
    /\ RAt(p, "look")
    /\ pc[p] = "idle"
    /\ uniq' = uniq \ dead
    /\ readers' = readers \ dead
    /\ RReturn(p, "out")
    /\ UNCHANGED <<file, old, pc, wait, waited, seen, dead, robbed>>
    /\ UNCHANGED <<resync, glob>>

(* bk_cleanup(): lockfile_cleanup() and repository_lockcleanup().          *)
ExitClean(p) ==
    /\ rpc[p] \in Resting
    /\ Exit(p)
    /\ readers' = readers \ {p}
    /\ RReturn(p, "out")
    /\ UNCHANGED <<resync, glob>>

(* Killed: the lock files, and the RESYNC directory, stay.                 *)
Die(p) ==
    /\ Crash(p)
    /\ RReturn(p, "out")
    /\ UNCHANGED <<readers, resync, glob>>

(* The administrator creates or removes global locks.                      *)
SetGlobal ==
    /\ "global" \in Admin
    /\ glob' \in SUBSET {"rdlock", "wrlock"}
    /\ UNCHANGED <<lfvars, rpc, tries, ignore, readers, todo, found, resync>>

(* bk unlock -r, bk unlock -w: all lock files go, stale or not.            *)
ForceRd ==
    /\ "unlock -r" \in Admin
    /\ readers' = {}
    /\ robbed' = robbed \cup (readers \cap Live)
    /\ UNCHANGED <<file, old, uniq, pc, wait, waited, seen, dead>>
    /\ UNCHANGED <<rpc, tries, ignore, todo, found, resync, glob>>

ForceWr ==
    /\ "unlock -w" \in Admin
    /\ uniq' = {}
    /\ file' = None
    /\ old' = FALSE
    /\ robbed' = robbed \cup ({file} \cap Live)
    /\ UNCHANGED <<pc, wait, waited, seen, dead>>
    /\ UNCHANGED rlvars

(* What a process does between the call and the return of a lock function. *)
Busy(p) ==
    \/ RdCreat(p) \/ RdCreatFails(p) \/ RdCheck(p) \/ RdBackoff(p)
    \/ WrTry(p) \/ WrTryFails(p) \/ LockStep(p) \/ WrLost(p) \/ WrResync(p)
    \/ WrGetdir(p) \/ WrScan(p) \/ WrDone(p) \/ DgUnlock(p) \/ LookSweep(p)

Next ==
    \/ \E p \in Proc :
          \/ Busy(p)
          \/ RdStart(p) \/ RdUnlock(p) \/ WrStart(p) \/ WrUnlock(p)
          \/ DgCreat(p) \/ MkResync(p) \/ RmResync(p) \/ LookStart(p)
          \/ ExitClean(p) \/ Die(p)
    \/ SetGlobal \/ ForceRd \/ ForceWr

Spec == Init /\ [][Next]_vars

(* The scheduler runs every process that is inside a lock function.        *)
FairSpec == Spec /\ \A p \in Proc : WF_vars(Busy(p))

(* The behaviours in which no live process has its lock file removed.      *)
NoRobbery == robbed' = {}
HonestSpec == Init /\ [][Next /\ NoRobbery]_vars

-----------------------------------------------------------------------------

(* repository_wrlock() excludes: while a process has the write lock no     *)
(* other has a lock, unless the files of one of them were removed by force *)
(* or by a race of stale-lock removers.                                    *)
WriterExcludes ==
    \A p, q \in Proc :
        p # q /\ Writing(p) /\ (Writing(q) \/ Reading(q)) => {p, q} \cap robbed # {}

(* A RESYNC directory stops every writer but its maker and the commands    *)
(* that ignore it (resolve, abort).                                        *)
ResyncBlocks ==
    \A p \in Proc : Writing(p) => resync \in {None, p} \/ p \in ignore

(* Every way out of the lock functions, errors included, leaves no file of *)
(* a live process that holds nothing.                                      *)
LeavesNothing ==
    \A p \in Live : rpc[p] = "out" => p \notin readers \cup uniq /\ file # p

(* What a process holds, as the clients of the lock see it.                *)
Mode == [p \in Proc |->
            IF Writing(p) THEN "write" ELSE IF Reading(p) THEN "read" ELSE "none"]

(* The file protocol implements a readers-writer lock with a gap-free      *)
(* downgrade.                                                              *)
RW == INSTANCE RWLock WITH mode <- Mode
ImplementsRWLock == RW!Spec

(* Every call of a lock function returns.                                  *)
CallReturns ==
    \A p \in Proc : rpc[p] \notin Resting ~> rpc[p] \in Resting

(* No crash wedges the repository: when everybody else is gone, whatever   *)
(* they left behind but RESYNC, repository_wrlock() succeeds.              *)
Unhindered(p) == Live = {p} /\ glob = {} /\ (resync = None \/ p \in ignore)
SurvivorGetsLock ==
    \A p \in Proc : RAt(p, "wrtry") /\ Unhindered(p) ~> Writing(p) \/ ~Unhindered(p)
=============================================================================
