----------------------------- MODULE NestedLock -----------------------------
(***************************************************************************)
(* The nested lock of locking.c: one lock for a product and all its        *)
(* components, held by a session (a command, or the series of bkd requests *)
(* of one http client) that carries a lock id in _BK_NESTED_LOCK.          *)
(*                                                                         *)
(* A nested writer is BitKeeper/writer/nested_lock holding its id, nested  *)
(* readers are files BitKeeper/readers/NL*, RESYNC/.bk_nl exists as long   *)
(* as anyone holds a nested lock, and BitKeeper/tmp/nl_mutex is a lock     *)
(* file taken with waitsecs 120 around every change.  The repository lock  *)
(* of the product is the readers-writer lock that RepoLock implements.     *)
(*                                                                         *)
(* A session is its lock id: it takes at most one nested lock at a time,   *)
(* and no other while the file of an earlier one is still there.           *)
(***************************************************************************)
EXTENDS Naturals

CONSTANTS Sess,   \* the sessions
          None,   \* no such file
          Http,   \* the sessions whose ids say 'h': they expire by time
          Atime,  \* reading a file updates its access time (mount option)
          Env     \* what may happen: subset of EnvEvents

ASSUME NestedNone == None \notin Sess
ASSUME NestedHttp == Http \subseteq Sess
ASSUME NestedAtime == Atime \in BOOLEAN

VARIABLES
    mode,      \* what each session holds of the product's repository lock
    mutex,     \* the session named in nl_mutex, None if there is no file
    listed,    \* those whose lockfiles[] names nl_mutex (addLock)
    writer,    \* the id in nested_lock, None if there is no file
    nreaders,  \* the ids with an NL file
    empty,     \* ids whose file is opened but not yet written (Fprintf)
    nl,        \* RESYNC/.bk_nl exists
    pc,        \* where each session is
    op,        \* the function it is in: "wr", "rd", "un", "none"
    own,       \* those whose current function took the repository lock
    kind,      \* the kind of its _BK_NESTED_LOCK: "w", "r", "none"
    age,       \* of an http id's file: "fresh", "idle" (1/2 h), "aged" (2 h)
    dead       \* the sessions that are gone

(* Forced unlocking, a listing of the locks, a session that takes more     *)
(* than 120 seconds under the mutex, writing and unlinking that fail.      *)
EnvEvents == {"unlock -r", "unlock -w", "lock -l", "stall", "full", "deny"}

disk == <<writer, nreaders, empty, nl, age>>
vars == <<mode, mutex, listed, disk, pc, op, own, kind, dead>>

RW == INSTANCE RWLock WITH Proc <- Sess

Live == Sess \ dead

At(s, label) == s \in Live /\ pc[s] = label

Goto(s, label) == pc' = [pc EXCEPT ![s] = label]

NLTypeOK ==
    /\ mode \in [Sess -> {"none", "read", "write"}]
    /\ mutex \in Sess \cup {None}
    /\ listed \subseteq Sess
    /\ writer \in Sess \cup {None}
    /\ nreaders \subseteq Sess
    /\ empty \subseteq Sess
    /\ nl \in BOOLEAN
    /\ pc \in [Sess -> {"rest", "mutex", "check", "write", "fill", "resync",
                        "remove", "sweep", "release", "unlock"}]
    /\ op \in [Sess -> {"wr", "rd", "un", "none"}]
    /\ own \subseteq {s \in Live : mode[s] # "none" /\ pc[s] # "rest"}
    /\ kind \in [Sess -> {"w", "r", "none"}]
    /\ age \in [Sess -> {"fresh", "idle", "aged"}]
    /\ dead \subseteq Sess

Init ==
    /\ RW!Init
    /\ mutex = None
    /\ listed = {}
    /\ writer = None
    /\ nreaders = {}
    /\ empty = {}
    /\ nl = FALSE
    /\ pc = [s \in Sess |-> "rest"]
    /\ op = [s \in Sess |-> "none"]
    /\ own = {}
    /\ kind = [s \in Sess |-> "none"]
    /\ age = [s \in Sess |-> "fresh"]
    /\ dead = {}

-----------------------------------------------------------------------------

(* Faults: findpid taken the wrong way round; not asked at all.            *)
IsStaleInverted(s) == s \in empty \/ s \in Live
IsStaleGarbageOnly(s) == s \in empty

(* nested_isStale: garbage, a pid that is gone, or an http id out of time. *)
IsStale(s) == s \in empty \/ IF s \in Http THEN age[s] # "fresh" ELSE s \in dead

(* What loadfile() does to the access times of the files of these ids.     *)
Reads(ids) ==
    age' = [s \in Sess |->
               IF Atime /\ s \in ids /\ age[s] = "idle" THEN "fresh" ELSE age[s]]

(* Fault: stale reader files are left in place.                            *)
RemoveStaleNothing == UNCHANGED <<nreaders, age>>

(* nested_lockers(p, 0, 1): the ids that are not stale; the stale reader   *)
(* files are removed, a stale writer file is passed over.                  *)
OnDisk == nreaders \cup ({writer} \ {None})
Lockers == {s \in OnDisk : ~IsStale(s)}
RemoveStale == nreaders' = {s \in nreaders : ~IsStale(s)} /\ Reads(OnDisk)

(* nested_mine: the id is the one on disk.  Only the writer's is read, and *)
(* touch() leaves the times of a file that exists alone.                   *)
Mine(s) ==
    IF kind[s] = "w" THEN writer = s /\ s \notin empty ELSE s \in nreaders
MineReads(s) == Reads(IF kind[s] = "w" THEN {writer} ELSE {})

(* The repository lock that nested_unlock has to ask for is refused: to a  *)
(* reader by its own write lock, and by transient files of any other.      *)
Refused(s) ==
    \/ kind[s] = "r" /\ mode[s] = "write"
    \/ mode[s] = "none" /\ Live # {s}

(* A nested function that is to hold the repository lock in mode m goes on *)
(* to the mutex, with the lock it has or with one it takes.                *)
Enter(s, f, have, take) ==
    /\ \/ mode[s] \in have /\ UNCHANGED <<mode, own>>
       \/ mode[s] \notin have /\ take /\ own' = own \cup {s}
    /\ op' = [op EXCEPT ![s] = f]
    /\ Goto(s, "mutex")
    /\ UNCHANGED <<mutex, listed, kind, dead>>

(* nested_wrlock(); a refused repository lock ends it with no effect.      *)
NestedWrlock(s) ==
    /\ At(s, "rest")
    /\ kind[s] = "none"
    /\ s \notin OnDisk
    /\ Enter(s, "wr", {"write"}, RW!Write(s))
    /\ UNCHANGED <<disk>>

(* nested_rdlock().                                                        *)
NestedRdlock(s) ==
    /\ At(s, "rest")
    /\ kind[s] = "none"
    /\ s \notin OnDisk
    /\ Enter(s, "rd", {"read"}, RW!Read(s))
    /\ UNCHANGED <<disk>>

(* nested_unlock(): for a writer a read lock of a downgrade will do.       *)
NestedUnlock(s) ==
    /\ At(s, "rest")
    /\ kind[s] # "none"
    /\ Mine(s)
    /\ IF kind[s] = "w"
       THEN Enter(s, "un", {"write", "read"}, RW!Write(s))
       ELSE Enter(s, "un", {"read"}, RW!Read(s))
    /\ MineReads(s)
    /\ UNCHANGED <<writer, nreaders, empty, nl>>

(* It fails when the id is not on disk, and the session keeps the id, or   *)
(* when the repository lock is refused, and the session forgets the id.    *)
NestedUnlockFails(s) ==
    /\ At(s, "rest")
    /\ kind[s] # "none"
    /\ Mine(s) => Refused(s)
    /\ kind' = [kind EXCEPT ![s] = IF Mine(s) THEN "none" ELSE @]
    /\ MineReads(s)
    /\ UNCHANGED <<mode, mutex, listed, writer, nreaders, empty, nl, pc, op, own, dead>>

(* Faults: the mutex is taken over; a stale one is not broken.             *)
AcquireAnyway(s) ==
    /\ At(s, "mutex")
    /\ mutex' = s
    /\ listed' = listed \cup {s}
    /\ Goto(s, IF op[s] = "un" THEN "remove" ELSE "check")
    /\ UNCHANGED <<mode, disk, op, own, kind, dead>>
AcquireIfAbsent(s) == mutex = None /\ AcquireAnyway(s)

(* nlock_acquire(): the mutex is free or stale ...                         *)
Acquire(s) ==
    /\ At(s, "mutex")
    /\ mutex \notin Live
    /\ mutex' = s
    /\ listed' = listed \cup {s}
    /\ Goto(s, IF op[s] = "un" THEN "remove" ELSE "check")
    /\ UNCHANGED <<mode, disk, op, own, kind, dead>>

(* ... or is not to be had for 120 seconds.                                *)
MutexTimeout(s) ==
    /\ At(s, "mutex")
    /\ "stall" \in Env
    /\ mutex \in Live
    /\ Goto(s, "unlock")
    /\ UNCHANGED <<mode, mutex, listed, disk, op, own, kind, dead>>

(* Fault: nested_wrlock looks for a writer only.                           *)
WrCheckWriter(s) ==
    /\ At(s, "check") /\ op[s] = "wr"
    /\ Reads({writer})
    /\ Goto(s, IF writer \in Lockers THEN "unlock" ELSE "write")
    /\ UNCHANGED <<mode, mutex, listed, writer, nreaders, empty, nl, op, own, kind, dead>>

(* nested_wrlock: is anyone in the way?                                    *)
WrCheck(s) ==
    /\ At(s, "check") /\ op[s] = "wr"
    /\ RemoveStale
    /\ Goto(s, IF Lockers = {} THEN "write" ELSE "unlock")
    /\ UNCHANGED <<mode, mutex, listed, writer, empty, nl, op, own, kind, dead>>

(* Fault: the reader does not look for a writer.                           *)
RdCheckNothing(s) ==
    /\ At(s, "check") /\ op[s] = "rd"
    /\ Goto(s, "write")
    /\ UNCHANGED <<mode, mutex, listed, disk, op, own, kind, dead>>

(* nested_rdlock: only a writer that is not stale is.                      *)
RdCheck(s) ==
    /\ At(s, "check") /\ op[s] = "rd"
    /\ Reads({writer})
    /\ Goto(s, IF writer \in Lockers THEN "release" ELSE "write")
    /\ UNCHANGED <<mode, mutex, listed, writer, nreaders, empty, nl, op, own, kind, dead>>

(* Fprintf(lockfile, nlid): open with truncation ...                       *)
Write(s) ==
    /\ At(s, "write")
    /\ IF op[s] = "wr"
       THEN writer' = s /\ UNCHANGED nreaders
       ELSE nreaders' = nreaders \cup {s} /\ UNCHANGED writer
    /\ kind' = [kind EXCEPT ![s] = IF op[s] = "wr" THEN "w" ELSE "r"]
    /\ empty' = empty \cup {s}
    /\ age' = [age EXCEPT ![s] = "fresh"]
    /\ Goto(s, "fill")
    /\ UNCHANGED <<mode, mutex, listed, nl, op, own, dead>>

(* The file cannot be opened: the function returns no id.                  *)
WriteFails(s) ==
    /\ At(s, "write")
    /\ "full" \in Env
    /\ Goto(s, IF op[s] = "wr" THEN "unlock" ELSE "release")
    /\ UNCHANGED <<mode, mutex, listed, disk, op, own, kind, dead>>

(* ... and the write when it is closed, whose failure goes unnoticed.      *)
Fill(s) ==
    /\ At(s, "fill")
    /\ \/ empty' = empty \ {s}
       \/ "full" \in Env /\ UNCHANGED empty
    /\ Goto(s, "resync")
    /\ UNCHANGED <<mode, mutex, listed, writer, nreaders, nl, age>>
    /\ UNCHANGED <<op, own, kind, dead>>

(* lockResync().                                                           *)
LockResync(s) ==
    /\ At(s, "resync")
    /\ nl' = TRUE
    /\ Goto(s, IF op[s] = "wr" THEN "unlock" ELSE "release")
    /\ UNCHANGED <<mode, mutex, listed, writer, nreaders, empty, age>>
    /\ UNCHANGED <<op, own, kind, dead>>

(* It fails: the writer's file is unlinked, a reader does not care.        *)
LockResyncFails(s) ==
    /\ At(s, "resync")
    /\ "full" \in Env
    /\ IF op[s] = "wr"
       THEN writer' = None /\ kind' = [kind EXCEPT ![s] = "none"] /\ Goto(s, "unlock")
       ELSE UNCHANGED <<writer, kind>> /\ Goto(s, "release")
    /\ UNCHANGED <<mode, mutex, listed, nreaders, empty, nl, age, op, own, dead>>

(* unlink() of the lock file, whosever a nested_lock is by now.  A failure *)
(* returns with the mutex held.                                            *)
Remove(s) ==
    /\ At(s, "remove")
    /\ \/ /\ kind[s] = "w" /\ writer # None
          /\ writer' = None
          /\ Goto(s, "sweep")
          /\ UNCHANGED nreaders
       \/ /\ kind[s] = "r" /\ s \in nreaders
          /\ nreaders' = nreaders \ {s}
          /\ Goto(s, "sweep")
          /\ UNCHANGED writer
       \/ /\ "deny" \in Env \/ IF kind[s] = "w" THEN writer = None ELSE s \notin nreaders
          /\ Goto(s, "unlock")
          /\ UNCHANGED <<writer, nreaders>>
    /\ UNCHANGED <<mode, mutex, listed, empty, nl, age, op, own, kind, dead>>

(* Faults: RESYNC goes while there are lockers; never goes.                *)
SweepAlways(s) ==
    /\ At(s, "sweep")
    /\ RemoveStale
    /\ nl' = FALSE
    /\ Goto(s, "release")
    /\ UNCHANGED <<mode, mutex, listed, writer, empty, op, own, kind, dead>>
SweepNever(s) ==
    /\ At(s, "sweep")
    /\ RemoveStale
    /\ Goto(s, "release")
    /\ UNCHANGED <<mode, mutex, listed, writer, empty, nl, op, own, kind, dead>>

(* With no lockers left RESYNC goes (unlockResync).                        *)
Sweep(s) ==
    /\ At(s, "sweep")
    /\ RemoveStale
    /\ nl' = (nl /\ Lockers # {})
    /\ Goto(s, "release")
    /\ UNCHANGED <<mode, mutex, listed, writer, empty, op, own, kind, dead>>

(* A nested function returns; nested_unlock has cleared _BK_NESTED_LOCK.   *)
Return(s) ==
    /\ Goto(s, "rest")
    /\ op' = [op EXCEPT ![s] = "none"]
    /\ kind' = [kind EXCEPT ![s] = IF op[s] = "un" THEN "none" ELSE @]

(* Fault: the release is forgotten.                                        *)
ReleaseForgotten(s) ==
    /\ At(s, "release")
    /\ IF op[s] = "wr" THEN Return(s) ELSE Goto(s, "unlock") /\ UNCHANGED <<op, kind>>
    /\ UNCHANGED <<mode, mutex, listed, disk, own, dead>>

(* nlock_release(): nl_mutex goes, whosever it is.  nested_wrlock does it  *)
(* last, even when it did not get the mutex.                               *)
Release(s) ==
    /\ At(s, "release")
    /\ mutex' = None
    /\ listed' = listed \ {s}
    /\ IF op[s] = "wr" THEN Return(s) ELSE Goto(s, "unlock") /\ UNCHANGED <<op, kind>>
    /\ UNCHANGED <<mode, disk, own, dead>>

(* Give back the repository lock that the function took.                   *)
Unlock(s) ==
    /\ At(s, "unlock")
    /\ IF s \in own THEN RW!Release(s) ELSE UNCHANGED mode
    /\ own' = own \ {s}
    /\ IF op[s] = "wr" THEN Goto(s, "release") /\ UNCHANGED <<op, kind>> ELSE Return(s)
    /\ UNCHANGED <<mutex, listed, disk, dead>>

(* A command of a session with an id checks it (cmdlog_lock).  Without its *)
(* file the id is dropped; a nested_lock that says otherwise is an error.  *)
Use(s) ==
    /\ At(s, "rest")
    /\ kind[s] # "none"
    /\ MineReads(s)
    /\ kind' = [kind EXCEPT ![s] =
                   IF Mine(s) \/ (@ = "w" /\ writer # None) THEN @ ELSE "none"]
    /\ UNCHANGED <<mode, mutex, listed, writer, nreaders, empty, nl, pc, op, own, dead>>

(* The command takes, downgrades or gives back the repository lock.        *)
RepositoryLock(s) ==
    /\ At(s, "rest")
    /\ RW!Read(s) \/ RW!Write(s) \/ RW!Downgrade(s) \/ RW!Release(s)
    /\ UNCHANGED <<mutex, listed, disk, pc, op, own, kind, dead>>

(* The process goes: it is killed, or fails the assertion of nested_mine,  *)
(* or it exits at rest and lockfile_cleanup() removes a mutex left over.   *)
Gone(s) ==
    /\ s \in Live
    /\ mutex' = mutex \/ (pc[s] = "rest" /\ s \in listed /\ mutex' = None)
    /\ listed' = listed \ {s}
    /\ mode' = [mode EXCEPT ![s] = "none"]
    /\ dead' = dead \cup {s}
    /\ Goto(s, "rest")
    /\ op' = [op EXCEPT ![s] = "none"]
    /\ own' = own \ {s}
    /\ kind' = [kind EXCEPT ![s] = "none"]
    /\ UNCHANGED <<disk>>

(* Half an hour, and an hour and a half more, go by between two requests.  *)
TimePasses(s) ==
    /\ s \in Http \cap OnDisk
    /\ pc[s] = "rest"
    /\ age[s] # "aged"
    /\ age' = [age EXCEPT ![s] = IF @ = "fresh" THEN "idle" ELSE "aged"]
    /\ UNCHANGED <<mode, mutex, listed, writer, nreaders, empty, nl, pc, op, own, kind, dead>>

(* nested_forceUnlock() of bk unlock -r and bk unlock -w.                  *)
ForceUnlock(what) ==
    /\ what \in Env
    /\ mutex \notin Live
    /\ mutex' = None
    /\ nl' = FALSE
    /\ IF what = "unlock -r"
       THEN nreaders' = {} /\ Reads(OnDisk) /\ UNCHANGED writer
       ELSE writer' = None /\ UNCHANGED <<nreaders, age>>
    /\ UNCHANGED <<mode, listed, empty, pc, op, own, kind, dead>>

(* bk lock -l: stale reader files go, and the mutex is not asked for.      *)
ListLocks ==
    /\ "lock -l" \in Env
    /\ RemoveStale
    /\ UNCHANGED <<mode, mutex, listed, writer, empty, nl, pc, op, own, kind, dead>>

(* What a session does inside a nested function.                           *)
Busy(s) ==
    \/ Acquire(s) \/ MutexTimeout(s) \/ WrCheck(s) \/ RdCheck(s)
    \/ Write(s) \/ WriteFails(s) \/ Fill(s)
    \/ LockResync(s) \/ LockResyncFails(s) \/ Remove(s) \/ Sweep(s) \/ Release(s) \/ Unlock(s)

Next ==
    \/ \E s \in Sess :
          \/ Busy(s)
          \/ NestedWrlock(s) \/ NestedRdlock(s) \/ NestedUnlock(s)
          \/ NestedUnlockFails(s) \/ Use(s) \/ RepositoryLock(s)
          \/ Gone(s) \/ TimePasses(s)
    \/ ForceUnlock("unlock -r") \/ ForceUnlock("unlock -w") \/ ListLocks

Spec == Init /\ [][Next]_vars

(* The scheduler runs every session that is inside a nested function.      *)
FairSpec == Spec /\ \A s \in Sess : WF_vars(Busy(s))

-----------------------------------------------------------------------------

(* nested_wrlock or nested_rdlock has returned an id to s, s has not given *)
(* it back, and nested_mine accepts it.                                    *)
Holds(s, k) == At(s, "rest") /\ kind[s] = k /\ Mine(s)

(* While an id with write access is accepted no other id is.               *)
NestedExclusion ==
    \A s, t \in Sess : s # t /\ Holds(s, "w") => ~Holds(t, "w") /\ ~Holds(t, "r")

(* The nested lock that each session has, from the creation of its file to *)
(* the unlink.                                                             *)
Granted(s) ==
    /\ s \in Live /\ kind[s] # "none"
    /\ op[s] = "un" => pc[s] \in {"mutex", "remove"}
NestedMode == [s \in Sess |->
                  IF ~Granted(s) THEN "none" ELSE IF kind[s] = "w" THEN "write" ELSE "read"]

(* The lock files and the mutex implement a readers-writer lock of the     *)
(* whole product: each step of nested_wrlock, nested_rdlock, nested_unlock *)
(* or a kill takes or gives back one session's lock, or none, and a lock   *)
(* is taken only when no other is in its way at that step.                 *)
NestedRW == INSTANCE RWLock WITH Proc <- Sess, mode <- NestedMode
ImplementsNestedLock == NestedRW!Spec

(* A write lock is granted only when every earlier id, expired or not, is  *)
(* gone from the disk: nested_mine refuses them from then on.              *)
GrantFences ==
    \A s \in Live :
        op[s] = "wr" /\ kind[s] = "w" /\ pc[s] # "release" => OnDisk \subseteq {s}

(* A session that was given an id has its file: nobody takes the lock of a *)
(* live session for stale, and no step of another removes it.              *)
HeldOnDisk == \A s \in Sess : At(s, "rest") /\ kind[s] # "none" => Mine(s)

(* RESYNC/.bk_nl is there as long as anyone holds a nested lock, however   *)
(* the unlocking of others is timed.                                       *)
ResyncHeld == \A s \in Sess : Holds(s, "w") \/ Holds(s, "r") => nl

(* Unless somebody was killed, no RESYNC/.bk_nl outlives the last lock.    *)
QuietClean ==
    dead = {} /\ OnDisk = {} /\ (\A s \in Sess : pc[s] = "rest") => ~nl

(* What a session does between nlock_acquire and nlock_release it does     *)
(* alone: it has the mutex.                                                *)
InRegion(s) ==
    pc[s] \in {"check", "write", "fill", "resync", "remove", "sweep"}
OwnsMutex == \A s \in Live : InRegion(s) => mutex = s

(* No nested function returns with the mutex held.                         *)
MutexReturned == \A s \in Sess : At(s, "rest") => mutex # s

(* Every call of a nested function returns.                                *)
NestedReturns == \A s \in Sess : pc[s] # "rest" ~> pc[s] = "rest"

(* No crash wedges the product: a session that is alone in nested_wrlock   *)
(* gets its lock, whatever files the others left.                          *)
LoneWriter(s) == Live = {s} /\ op[s] = "wr"
NestedSurvivor ==
    \A s \in Sess : LoneWriter(s) /\ pc[s] = "mutex" ~> Holds(s, "w") \/ s \in dead

=============================================================================
