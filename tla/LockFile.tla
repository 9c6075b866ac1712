------------------------------ MODULE LockFile ------------------------------
(***************************************************************************)
(* The lock file protocol of port/sccs_lockfile.c, for one lock file.      *)
(*                                                                         *)
(* A process creates a file of its own ("uniq", named pid@host.lock),      *)
(* links it to the lock file's name and owns the lock if the link made the *)
(* two names one inode.  A lock whose owner is gone is stale, and whoever  *)
(* meets it removes it: the owner's name is read from the file, the owner  *)
(* is looked up, and the file is unlinked, in three separate steps.        *)
(*                                                                         *)
(* A process is its pid.  A pid is never used again, so `dead' only grows. *)
(***************************************************************************)
EXTENDS Naturals

CONSTANTS Proc,      \* the processes (pid and host) that use the lock
          None,      \* the lock file does not exist
          Host,      \* Host[p] is the host p runs on
          WaitSecs,  \* sleeps a caller with a finite waitsecs makes
          Waits      \* the waitsecs the callers pass: "zero", "some", "forever"

ASSUME NoneAssumption == None \notin Proc
ASSUME WaitAssumption == WaitSecs \in Nat \ {0}
ASSUME WaitsAssumption == Waits \subseteq {"zero", "some", "forever"}

VARIABLES
    file,    \* the owner recorded in the lock file, None if there is no file
    old,     \* the lock file is more than a day old
    uniq,    \* the processes whose uniq file exists
    pc,      \* where each process is in sccs_lockfile() or sccs_stalelock()
    wait,    \* its waitsecs; "look" for a bare sccs_stalelock(file, 1)
    waited,  \* how often it has slept in this call
    seen,    \* what its sccs_readlockf() returned
    dead,    \* the processes that have exited or been killed
    robbed   \* history: those whose last lock file another process removed

lfvars == <<file, old, uniq, pc, wait, waited, seen, dead, robbed>>

Labels == {"idle", "link", "test", "read", "findpid", "discard", "held"}

Live == Proc \ dead

Holds(p) == pc[p] = "held"

At(p, label) == p \in Live /\ pc[p] = label

Goto(p, label) == pc' = [pc EXCEPT ![p] = label]

(* What sccs_readlockf returns: the owner and whether it is a day ago.     *)
Readings == [pid : Proc \cup {None}, old : BOOLEAN]
Nothing == [pid |-> None, old |-> FALSE]

(* The locals of a call are gone when it returns or its process dies.      *)
Return(p, label) ==
    /\ Goto(p, label)
    /\ wait' = [wait EXCEPT ![p] = "zero"]
    /\ waited' = [waited EXCEPT ![p] = 0]
    /\ seen' = [seen EXCEPT ![p] = Nothing]

LFTypeOK ==
    /\ file \in Proc \cup {None}
    /\ old \in BOOLEAN
    /\ uniq \subseteq Proc
    /\ pc \in [Proc -> Labels]
    /\ wait \in [Proc -> {"zero", "some", "forever", "look"}]
    /\ waited \in [Proc -> 0..WaitSecs]
    /\ seen \in [Proc -> Readings]
    /\ dead \subseteq Proc
    /\ robbed \subseteq Proc

LFInit ==
    /\ file = None
    /\ old = FALSE
    /\ uniq = {}
    /\ pc = [p \in Proc |-> "idle"]
    /\ wait = [p \in Proc |-> "zero"]
    /\ waited = [p \in Proc |-> 0]
    /\ seen = [p \in Proc |-> Nothing]
    /\ dead = {}
    /\ robbed = {}

-----------------------------------------------------------------------------

(* unlink(file) by p, whoever the file belongs to by now.                  *)
Unlink(p) ==
    /\ file' = None
    /\ old' = FALSE
    /\ robbed' = robbed \cup ({file} \cap (Live \ {p}))

(* The entry of sccs_lockfile: a fresh uniq file naming its creator.       *)
Lockfile(p, w) ==
    /\ At(p, "idle")
    /\ uniq' = uniq \cup {p}
    /\ wait' = [wait EXCEPT ![p] = w]
    /\ Goto(p, "link")
    /\ UNCHANGED <<file, old, waited, seen, dead, robbed>>

(* Fault: rename(2) in place of link(2), which takes an existing lock over.*)
LinkByRename(p) ==
    /\ At(p, "link")
    /\ file' = p /\ old' = FALSE /\ robbed' = robbed \ {p}
    /\ Goto(p, "test")
    /\ UNCHANGED <<uniq, wait, waited, seen, dead>>

(* link(uniq, file), which fails quietly if the lock file exists or the    *)
(* uniq file is gone.                                                      *)
Link(p) ==
    /\ At(p, "link")
    /\ IF file = None /\ p \in uniq
       THEN file' = p /\ old' = FALSE /\ robbed' = robbed \ {p}
       ELSE UNCHANGED <<file, old, robbed>>
    /\ Goto(p, "test")
    /\ UNCHANGED <<uniq, wait, waited, seen, dead>>

(* The two names are one inode with two links: p has the lock.             *)
Won(p) == p \in uniq /\ file = p

(* Fault: the error path forgets the uniq file.                            *)
GiveUpKeepsUniq(p) == Return(p, "idle") /\ UNCHANGED uniq

(* err: give up, removing the uniq file.                                   *)
GiveUp(p) == uniq' = uniq \ {p} /\ Return(p, "idle")

(* One sleep of the wait loop; waited is only compared with 0 and waitsecs.*)
Sleep(p) ==
    /\ waited' = [waited EXCEPT ![p] = IF @ < WaitSecs THEN @ + 1 ELSE @]
    /\ Goto(p, "link")
    /\ seen' = [seen EXCEPT ![p] = Nothing]
    /\ UNCHANGED <<uniq, wait>>

(* Fault: off by one, the end of the wait is never reached.                *)
TimedOutLate(p) == wait[p] = "some" /\ waited[p] > WaitSecs

TimedOut(p) == wait[p] = "some" /\ waited[p] = WaitSecs

(* After the link: won, or lost with the uniq file removed by someone, or  *)
(* lost to another owner.  Staleness is looked into on the first round and *)
(* when a finite wait is over.                                             *)
Test(p) ==
    /\ At(p, "test")
    /\ \/ Won(p) /\ Return(p, "held") /\ UNCHANGED uniq
       \/ ~Won(p) /\ p \notin uniq /\ GiveUp(p)
       \/ /\ ~Won(p) /\ p \in uniq
          /\ IF waited[p] = 0 \/ TimedOut(p)
             THEN Goto(p, "read") /\ UNCHANGED <<uniq, wait, waited, seen>>
             ELSE Sleep(p)
    /\ UNCHANGED <<file, old, dead, robbed>>

(* A bare sccs_stalelock(file, 1): repository_hasLocks, repository_lockers.*)
Look(p) ==
    /\ At(p, "idle")
    /\ wait' = [wait EXCEPT ![p] = "look"]
    /\ Goto(p, "read")
    /\ UNCHANGED <<file, old, uniq, waited, seen, dead, robbed>>

(* sccs_stalelock says no: what its caller does then.                      *)
NotStale(p) ==
    CASE wait[p] = "look" -> Return(p, "idle") /\ UNCHANGED uniq
      [] wait[p] = "zero" \/ TimedOut(p) -> GiveUp(p)
      [] OTHER -> Sleep(p)

(* sccs_readlockf: the owner and the date, or nothing if the file is gone. *)
Readlockf(p) ==
    /\ At(p, "read")
    /\ IF file = None
       THEN NotStale(p)
       ELSE /\ seen' = [seen EXCEPT ![p] = [pid |-> file, old |-> old]]
            /\ Goto(p, "findpid")
            /\ UNCHANGED <<uniq, wait, waited>>
    /\ UNCHANGED <<file, old, dead, robbed>>

(* Faults: the answer of findpid taken the wrong way round; not asked.     *)
StaleInverted(p) ==
    IF Host[seen[p].pid] = Host[p] THEN seen[p].pid \notin dead ELSE seen[p].old
StaleByAgeOnly(p) == seen[p].old

(* On p's own host the owner is looked up; elsewhere only age counts.      *)
Stale(p) ==
    IF Host[seen[p].pid] = Host[p] THEN seen[p].pid \in dead ELSE seen[p].old

Findpid(p) ==
    /\ At(p, "findpid")
    /\ IF Stale(p)
       THEN Goto(p, "discard") /\ UNCHANGED <<uniq, wait, waited, seen>>
       ELSE NotStale(p)
    /\ UNCHANGED <<file, old, dead, robbed>>

(* Unlink the uniq file of the owner that was read, then the lock file.    *)
Discard(p) ==
    /\ At(p, "discard")
    /\ uniq' = uniq \ {seen[p].pid}
    /\ Unlink(p)
    /\ IF wait[p] = "look"
       THEN Return(p, "idle")
       ELSE /\ Goto(p, "link")
            /\ seen' = [seen EXCEPT ![p] = Nothing]
            /\ UNCHANGED <<wait, waited>>
    /\ UNCHANGED dead

(* sccs_unlockfile: both names go, without a look at whose they are.       *)
Unlockfile(p) ==
    /\ At(p, "held")
    /\ uniq' = uniq \ {p}
    /\ Unlink(p)
    /\ Return(p, "idle")
    /\ UNCHANGED dead

(* A process that exits removes what it still holds (lockfile_cleanup).    *)
Exit(p) ==
    /\ At(p, "idle") \/ At(p, "held")
    /\ IF pc[p] = "held"
       THEN uniq' = uniq \ {p} /\ Unlink(p)
       ELSE UNCHANGED <<file, old, uniq, robbed>>
    /\ dead' = dead \cup {p}
    /\ Return(p, "idle")

(* A process that is killed, or its machine going down, leaves its files.  *)
Crash(p) ==
    /\ p \in Live
    /\ dead' = dead \cup {p}
    /\ Return(p, "idle")
    /\ UNCHANGED <<file, old, uniq, robbed>>

(* A day goes by.                                                          *)
Age ==
    /\ file # None
    /\ old' = TRUE
    /\ UNCHANGED <<file, uniq, pc, wait, waited, seen, dead, robbed>>

(* What a process does once it is inside sccs_lockfile or sccs_stalelock.  *)
Step(p) ==
    \/ Link(p) \/ Test(p) \/ Readlockf(p) \/ Findpid(p) \/ Discard(p)

LFNext ==
    \/ \E p \in Proc :
          \/ \E w \in Waits : Lockfile(p, w)
          \/ Step(p) \/ Look(p) \/ Unlockfile(p) \/ Exit(p) \/ Crash(p)
    \/ Age

LFSpec == LFInit /\ [][LFNext]_lfvars

(* A running process is scheduled; nothing obliges a holder to unlock.     *)
LFFairSpec == LFSpec /\ \A p \in Proc : WF_lfvars(Step(p))

-----------------------------------------------------------------------------

(* Two live processes hold the lock only if one of them had its lock file  *)
(* removed under it: link(2) and the test of the link count never let two  *)
(* in by themselves.                                                       *)
MutexUnlessRobbed ==
    \A p, q \in Proc : Holds(p) /\ Holds(q) /\ p # q => {p, q} \cap robbed # {}

(* On one host, as long as no process has gone, no sccs_stalelock verdict  *)
(* goes against a live owner and the lock excludes.                        *)
MutexWhileAllLive ==
    dead = {} /\ (\A p, q \in Proc : Host[p] = Host[q])
        => \A p, q \in Proc : Holds(p) /\ Holds(q) => p = q

(* A live process that is not locking has no uniq file: repository_hasLocks*)
(* counts uniq files, a left-over would keep the repository locked.        *)
NoUniqLeft == \A p \in Live : pc[p] = "idle" => p \notin uniq

(* "if our link count == 2, we won": the lock is exclusive.                *)
Mutex == \A p, q \in Proc : Holds(p) /\ Holds(q) => p = q

(* Every call with waitsecs other than -1 comes back, with or without the  *)
(* lock, whatever the others do.                                           *)
CallsReturn ==
    \A p \in Proc :
        wait[p] # "forever" /\ At(p, "link") ~> pc[p] \in {"idle", "held"} \/ p \in dead

(* A caller that finds the lock of a process gone from its host takes that *)
(* lock away, whatever its waitsecs.                                       *)
LeftBehind(p) == file \in dead /\ Host[file] = Host[p]
NewcomerReclaims ==
    \A p \in Proc :
        At(p, "link") /\ waited[p] = 0 /\ LeftBehind(p)
            ~> ~LeftBehind(p) \/ p \in dead

=============================================================================
