---------------------------- MODULE RepoLockHonest --------------------------
(***************************************************************************)
(* Proofs about the behaviours of RepoLock in which no live process has    *)
(* its lock file removed: RESYNC, what is left behind, and the refinement  *)
(* of RWLock.                                                              *)
(***************************************************************************)
EXTENDS RepoLockProofs

(* The lock file of a live process is its own link, being taken or held.   *)
FileInUse == \A p \in Live : file = p => p \in uniq /\ pc[p] \in {"test", "held"}

(* On one host only the lock of a process that is gone is discarded.       *)
DiscardsDead == \A p \in Proc : pc[p] = "discard" => seen[p].pid \in dead

LFHonest == UniqInUse /\ SeenOwner /\ FileInUse /\ DiscardsDead

(* A step inside sccs_lockfile that leaves the lock file alone.            *)
LEMMA HonestMoves ==
    ASSUME LFHonest, NEW p \in Proc,
           \A q \in Proc \ {p} :
               pc'[q] = pc[q] /\ wait'[q] = wait[q] /\ seen'[q] = seen[q],
           dead' = dead, file' = file, uniq' \in {uniq, uniq \ {p}},
           file # p \/ (p \in uniq' /\ pc'[p] = "held"),
           pc'[p] = "idle" \/ wait'[p] = "look" => p \notin uniq',
           pc'[p] \in {"link", "test"} => wait'[p] # "look",
           pc'[p] \in {"findpid", "discard"} => seen'[p].pid \in Proc,
           pc'[p] = "discard" => seen'[p].pid \in dead
    PROVE  LFHonest'
<1>1. UniqInUse'
  BY Zenon DEF LFHonest, UniqInUse, Live
<1>2. SeenOwner' /\ DiscardsDead'
  BY Zenon DEF LFHonest, SeenOwner, DiscardsDead
<1>3. FileInUse'
  BY Zenon DEF LFHonest, FileInUse, Live
<1> QED
  BY <1>1, <1>2, <1>3, Zenon DEF LFHonest

(* While nobody is robbed, every lock file and uniq file of a live process *)
(* is accounted for.                                                       *)
LEMMA LFHonestStep ==
    LFCore /\ LFHonest /\ robbed = {} /\ [LFNext]_lfvars /\ robbed' = {} => LFHonest'
<1> SUFFICES ASSUME LFCore, LFHonest, robbed = {}, [LFNext]_lfvars, robbed' = {}
             PROVE  LFHonest'
  BY Zenon
<1>c. LFCore'
  BY LFCoreStep, Zenon
<1>h. OneHost
  BY OneHostAssumption, Zenon DEF OneHost
<1> USE <1>c, NoneAssumption
    DEF LFCore, LFTypeOK, Readings, DeadIdle, HolderOwns, LFHonest, UniqInUse,
        SeenOwner, FileInUse, DiscardsDead, At, Live
<1>0. ASSUME UNCHANGED lfvars PROVE LFHonest'
  BY <1>0, Zenon DEF lfvars
<1>1. ASSUME NEW p \in Proc, NEW w \in Waits, Lockfile(p, w) PROVE LFHonest'
  BY <1>1, WaitsAssumption DEF Lockfile, Goto
<1>2. ASSUME NEW p \in Proc, Link(p) PROVE LFHonest'
  BY <1>2 DEF Link, Goto
<1>3. ASSUME NEW p \in Proc, Test(p) PROVE LFHonest'
  <2>1. /\ pc[p] = "test" /\ p \notin dead /\ dead' = dead /\ file' = file
        /\ wait[p] # "look"
        /\ \A q \in Proc \ {p} : pc'[q] = pc[q] /\ wait'[q] = wait[q] /\ seen'[q] = seen[q]
    BY <1>3 DEF Test, Goto, GiveUp, Return, Sleep
  <2>2. \/ pc'[p] = "held" /\ wait'[p] = "zero" /\ uniq' = uniq /\ p \in uniq
        \/ pc'[p] = "idle" /\ uniq' = uniq \ {p} /\ p \notin uniq
        \/ pc'[p] \in {"read", "link"} /\ wait'[p] = wait[p] /\ uniq' = uniq /\ file # p
    BY <1>3 DEF Test, Goto, GiveUp, Return, Sleep, Won
  <2>3. file # p \/ (p \in uniq' /\ pc'[p] = "held")
    BY <2>1, <2>2
  <2> HIDE DEF LFHonest
  <2> QED
    BY <2>1, <2>2, <2>3, HonestMoves, Zenon
<1>4. ASSUME NEW p \in Proc, Readlockf(p) PROVE LFHonest'
  <2>1. /\ pc[p] = "read" /\ p \notin dead /\ dead' = dead /\ file' = file /\ file # p
        /\ wait[p] = "look" => p \notin uniq
        /\ \A q \in Proc \ {p} : pc'[q] = pc[q] /\ wait'[q] = wait[q] /\ seen'[q] = seen[q]
    BY <1>4 DEF Readlockf, NotStale, Goto, GiveUp, Return, Sleep
  <2>2. CASE file = None
    <3>1. \/ pc'[p] = "idle" /\ uniq' \in {uniq, uniq \ {p}} /\ p \notin uniq'
          \/ pc'[p] = "link" /\ wait'[p] = wait[p] /\ wait[p] # "look" /\ uniq' = uniq
      BY <1>4, <2>1, <2>2 DEF Readlockf, NotStale, Goto, GiveUp, Return, Sleep
    <3> HIDE DEF LFHonest
    <3> QED
      BY <2>1, <3>1, HonestMoves, Zenon
  <2>3. CASE file # None
    <3>1. /\ pc'[p] = "findpid" /\ seen'[p].pid \in Proc
          /\ uniq' = uniq /\ wait'[p] = wait[p]
      BY <1>4, <2>3 DEF Readlockf, Goto
    <3> HIDE DEF LFHonest
    <3> QED
      BY <2>1, <3>1, HonestMoves, Zenon
  <2> QED
    BY <2>2, <2>3, Zenon
<1>5. ASSUME NEW p \in Proc, Findpid(p) PROVE LFHonest'
  <2>1. /\ pc[p] = "findpid" /\ p \notin dead /\ dead' = dead /\ file' = file /\ file # p
        /\ wait[p] = "look" => p \notin uniq
        /\ \A q \in Proc \ {p} : pc'[q] = pc[q] /\ wait'[q] = wait[q] /\ seen'[q] = seen[q]
    BY <1>5 DEF Findpid, NotStale, Goto, GiveUp, Return, Sleep
  <2>2. CASE Stale(p)
    <3>1. /\ pc'[p] = "discard" /\ seen'[p] = seen[p] /\ seen[p].pid \in Proc
          /\ uniq' = uniq /\ wait'[p] = wait[p]
      BY <1>5, <2>2 DEF Findpid, Goto
    <3>2. seen[p].pid \in dead
      BY <1>h, <2>2, <3>1 DEF Stale, OneHost
    <3> HIDE DEF LFHonest
    <3> QED
      BY <2>1, <3>1, <3>2, HonestMoves, Zenon
  <2>3. CASE ~Stale(p)
    <3>1. \/ pc'[p] = "idle" /\ uniq' \in {uniq, uniq \ {p}} /\ p \notin uniq'
          \/ pc'[p] = "link" /\ wait'[p] = wait[p] /\ wait[p] # "look" /\ uniq' = uniq
      BY <1>5, <2>1, <2>3 DEF Findpid, NotStale, Goto, GiveUp, Return, Sleep
    <3> HIDE DEF LFHonest
    <3> QED
      BY <2>1, <3>1, HonestMoves, Zenon
  <2> QED
    BY <2>2, <2>3, Zenon
<1>6. ASSUME NEW p \in Proc, Discard(p) PROVE LFHonest'
  <2>1. /\ pc[p] = "discard" /\ p \notin dead /\ dead' = dead
        /\ uniq' = uniq \ {seen[p].pid} /\ seen[p].pid \in dead
        /\ file' = None
        /\ seen' = [seen EXCEPT ![p] = Nothing]
        /\ \/ /\ wait[p] = "look" /\ pc' = [pc EXCEPT ![p] = "idle"]
              /\ wait' = [wait EXCEPT ![p] = "zero"]
           \/ /\ wait[p] # "look" /\ pc' = [pc EXCEPT ![p] = "link"]
              /\ wait' = wait
    BY <1>6, Zenon DEF Discard, Unlink, Goto, Return
  <2>2. UniqInUse'
    BY <2>1
  <2>3. SeenOwner' /\ DiscardsDead'
    BY <2>1
  <2>4. FileInUse'
    BY <2>1
  <2> QED
    BY <2>2, <2>3, <2>4, Zenon
<1>7. ASSUME NEW p \in Proc, Look(p) PROVE LFHonest'
  BY <1>7 DEF Look, Goto
<1>8. ASSUME NEW p \in Proc, Unlockfile(p) PROVE LFHonest'
  BY <1>8 DEF Unlockfile, Unlink, Goto, Return, Nothing
<1>9. ASSUME NEW p \in Proc, Exit(p) PROVE LFHonest'
  BY <1>9 DEF Exit, Unlink, Goto, Return, Nothing
<1>10. ASSUME NEW p \in Proc, Crash(p) PROVE LFHonest'
  BY <1>10 DEF Crash, Goto, Return, Nothing
<1>11. ASSUME Age PROVE LFHonest'
  BY <1>11, Zenon DEF Age
<1> QED
  BY <1>0, <1>1, <1>2, <1>3, <1>4, <1>5, <1>6, <1>7, <1>8, <1>9, <1>10, <1>11, Zenon
  DEF LFNext, Step
(* Giving back a write lock that is still ours.                            *)
LEMMA HonestRelease ==
    ASSUME LFCore, LFHonest, robbed = {}, robbed' = {},
           NEW p \in Proc, At(p, "held"), WrRelease(p)
    PROVE  LFHonest'
<1>1. Unlockfile(p)
  BY Zenon DEF LFCore, HolderOwns, At, WrRelease
<1> QED
  BY <1>1, LFHonestStep, Zenon DEF LFNext

(* A live process that is not reading, or about to, has no reader file.    *)
ReaderInUse ==
    \A p \in Live : rpc[p] \notin {"rdcheck", "rdback", "reading", "downgrade"}
                        => p \notin readers

(* Past the RESYNC test of wrlock() there is no RESYNC of someone else's   *)
(* that the process may not ignore.                                        *)
PastResync ==
    \A p \in Proc : rpc[p] \in {"getdir", "scan", "writing", "downgrade"}
                        => resync \in {None, p} \/ p \in ignore

HonestInv == RLInv /\ robbed = {} /\ LFHonest /\ ReaderInUse /\ PastResync

(* The initial states satisfy it.                                          *)
LEMMA HonestInit == Init => HonestInv
<1> SUFFICES ASSUME Init PROVE HonestInv
  BY Zenon
<1>1. RLInv
  BY RLInvInit, Zenon
<1>2. LFHonest
  BY LFInvInit, NoneAssumption, Zenon
  DEF Init, LFInit, LFInv, LFHonest, FileInUse, DiscardsDead, Live
<1>3. ReaderInUse /\ PastResync /\ robbed = {}
  BY Zenon DEF Init, LFInit, ReaderInUse, PastResync
<1> QED
  BY <1>1, <1>2, <1>3, Zenon DEF HonestInv

(* Every step that robs nobody accounts for the writer's files ...         *)
LEMMA HonestFiles == HonestInv /\ [Next /\ NoRobbery]_vars => LFHonest'
<1> SUFFICES ASSUME HonestInv, [Next /\ NoRobbery]_vars PROVE LFHonest'
  BY Zenon
<1>c. /\ LFCore /\ RLTypeOK /\ InStep /\ LFHonest
      /\ robbed = {} /\ robbed' = {}
  BY Zenon DEF HonestInv, RLInv, RLCore, NoRobbery, vars, lfvars
<1>1. CASE [LFNext]_lfvars
  BY <1>1, <1>c, LFHonestStep, Zenon
<1>2. ASSUME NEW p \in Proc, RdCreat(p) PROVE LFHonest'
  BY <1>2, <1>c, Zenon
  DEF RdCreat, LFHonest, UniqInUse, SeenOwner, FileInUse, DiscardsDead, Live
<1>3. ASSUME NEW p \in Proc, WrUnlock(p) \/ DgUnlock(p) PROVE LFHonest'
  <2>1. At(p, "held") /\ WrRelease(p)
    BY <1>3, <1>c, Zenon DEF WrUnlock, DgUnlock, RAt, At, InStep
  <2> QED
    BY <2>1, <1>c, HonestRelease, Zenon
<1>4. ASSUME NEW p \in Proc, LookSweep(p) PROVE LFHonest'
  BY <1>4, <1>c, Zenon
  DEF LookSweep, LFHonest, UniqInUse, SeenOwner, FileInUse, DiscardsDead, Live
<1>5. ASSUME ForceRd PROVE LFHonest'
  BY <1>5, <1>c, Zenon
  DEF ForceRd, LFHonest, UniqInUse, SeenOwner, FileInUse, DiscardsDead, Live
<1>6. ASSUME ForceWr PROVE LFHonest'
  BY <1>6, <1>c, NoneAssumption, Zenon
  DEF ForceWr, LFHonest, UniqInUse, SeenOwner, FileInUse, DiscardsDead, Live
<1>7. ASSUME SetGlobal \/ UNCHANGED vars PROVE [LFNext]_lfvars
  BY <1>7, Zenon DEF SetGlobal, vars
<1> QED
  BY <1>1, <1>2, <1>3, <1>4, <1>5, <1>6, <1>7, LockPart, Zenon DEF Next, Busy

(* A step after which p has neither a reader file nor the writer lock.     *)
LEMMA RestMoves ==
    ASSUME ReaderInUse, PastResync, NEW p \in Proc,
           \A q \in Proc \ {p} : rpc'[q] = rpc[q],
           ignore' \in {ignore, ignore \ {p}}, resync' = resync,
           readers' \subseteq readers, dead \subseteq dead',
           p \notin readers' \/ p \in dead',
           rpc'[p] \notin {"getdir", "scan", "writing", "downgrade"}
    PROVE  ReaderInUse' /\ PastResync'
<1>1. ReaderInUse'
  BY Zenon DEF ReaderInUse, Live
<1>2. PastResync'
  BY Zenon DEF PastResync
<1> QED
  BY <1>1, <1>2, Zenon

(* ... and for the reader files, and keeps RESYNC in the way of writers.   *)
LEMMA HonestRest ==
    HonestInv /\ [Next /\ NoRobbery]_vars => ReaderInUse' /\ PastResync'
<1> SUFFICES ASSUME HonestInv, [Next /\ NoRobbery]_vars
             PROVE  ReaderInUse' /\ PastResync'
  BY Zenon
<1>c. /\ LFCore /\ RLTypeOK /\ RLTypeOK' /\ RLCore /\ robbed = {}
      /\ ReaderInUse /\ PastResync
  BY RLTypeStep, Zenon DEF HonestInv, RLInv, RLCore
<1>r. ASSUME NEW p \in Proc, NEW l, RReturn(p, l)
      PROVE  /\ rpc' = [rpc EXCEPT ![p] = l]
             /\ ignore' = ignore \/ (l # "writing" /\ ignore' = ignore \ {p})
  BY <1>r, Zenon DEF RReturn, RGoto
<1>y. ASSUME NEW p \in Proc, NEW l, Retry(p, l)
      PROVE  /\ rpc' \in {[rpc EXCEPT ![p] = l], [rpc EXCEPT ![p] = "out"]}
             /\ ignore' \in {ignore, ignore \ {p}}
  BY <1>y, <1>r, Zenon DEF Retry, RGoto
<1> USE <1>c DEF RLTypeOK, ReaderInUse, PastResync, RAt, Live, RGoto
<1>1. ASSUME NEW p \in Proc, RdStart(p) \/ WrStart(p) \/ RdCreat(p)
      PROVE  ReaderInUse' /\ PastResync'
  BY <1>1 DEF RdStart, WrStart, RdCreat, lfvars
<1>2. ASSUME NEW p \in Proc, RdCreatFails(p) \/ WrTryFails(p) \/ WrLost(p)
      PROVE  ReaderInUse' /\ PastResync'
  <2>1. /\ p \notin dead /\ rpc[p] \in {"rdtry", "wrtry", "lockfile"}
        /\ readers' = readers /\ resync' = resync /\ dead' = dead
    BY <1>2, Zenon DEF RdCreatFails, WrTryFails, WrLost, lfvars
  <2>2. /\ rpc'[p] \in {"rdtry", "wrtry", "out"}
        /\ \A q \in Proc \ {p} : rpc'[q] = rpc[q]
        /\ ignore' \in {ignore, ignore \ {p}}
    BY <1>2, <1>y DEF RdCreatFails, WrTryFails, WrLost
  <2>3. p \notin readers
    BY <2>1, Zenon
  <2> HIDE DEF ReaderInUse, PastResync
  <2> QED
    BY <2>1, <2>2, <2>3, RestMoves, Zenon
<1>3. ASSUME NEW p \in Proc, RdBackoff(p) PROVE ReaderInUse' /\ PastResync'
  BY <1>3, <1>y DEF RdBackoff, lfvars
<1>4. ASSUME NEW p \in Proc, RdCheck(p) PROVE ReaderInUse' /\ PastResync'
  BY <1>4, <1>r DEF RdCheck, lfvars
<1>5. ASSUME NEW p \in Proc, RdUnlock(p) PROVE ReaderInUse' /\ PastResync'
  BY <1>5, <1>r DEF RdUnlock, lfvars
<1>6. ASSUME NEW p \in Proc, WrTry(p) PROVE ReaderInUse' /\ PastResync'
  BY <1>6, Zenon DEF WrTry, Lockfile
<1>7. ASSUME NEW p \in Proc, LockStep(p) PROVE ReaderInUse' /\ PastResync'
  <2>1. dead' = dead
    BY <1>7, Zenon DEF LockStep, Step, Link, Test, Readlockf, Findpid, Discard
  <2> QED
    BY <1>7, <2>1, Zenon DEF LockStep, rlvars
<1>8. ASSUME NEW p \in Proc, WrResync(p) PROVE ReaderInUse' /\ PastResync'
  <2>1. /\ dead' = dead /\ readers' = readers /\ resync' = resync
        /\ p \notin dead /\ rpc[p] = "lockfile"
    BY <1>8, Zenon DEF WrResync, Unlockfile, lfvars
  <2>2. CASE resync # None /\ p \notin ignore
    <3>1. /\ rpc'[p] \in {"wrtry", "out"}
          /\ \A q \in Proc \ {p} : rpc'[q] = rpc[q]
          /\ ignore' \in {ignore, ignore \ {p}}
      BY <1>8, <2>2, <1>y DEF WrResync
    <3>2. p \notin readers
      BY <2>1, Zenon
    <3> HIDE DEF ReaderInUse, PastResync
    <3> QED
      BY <2>1, <3>1, <3>2, RestMoves, Zenon
  <2>3. CASE ~(resync # None /\ p \notin ignore)
    BY <1>8, <2>1, <2>3 DEF WrResync
  <2> QED
    BY <2>2, <2>3, Zenon
<1>9. ASSUME NEW p \in Proc, WrGetdir(p) \/ WrScan(p) PROVE ReaderInUse' /\ PastResync'
  BY <1>9 DEF WrGetdir, WrScan, lfvars
<1>10. ASSUME NEW p \in Proc, WrDone(p) PROVE ReaderInUse' /\ PastResync'
  <2>1. dead' = dead /\ readers' = readers /\ resync' = resync /\ rpc[p] = "scan"
    BY <1>10, Zenon DEF WrDone, Unlockfile, lfvars
  <2>2. CASE p \in found
    BY <1>10, <2>1, <2>2, <1>y DEF WrDone
  <2>3. CASE p \notin found
    BY <1>10, <2>1, <2>3, <1>r DEF WrDone
  <2> QED
    BY <2>2, <2>3, Zenon
<1>11. ASSUME NEW p \in Proc, WrUnlock(p) \/ DgUnlock(p)
       PROVE  ReaderInUse' /\ PastResync'
  <2>1. dead' = dead
    BY <1>11, Zenon DEF WrUnlock, DgUnlock, WrRelease, Unlockfile
  <2> QED
    BY <1>11, <2>1, <1>r DEF WrUnlock, DgUnlock
<1>12. ASSUME NEW p \in Proc, DgCreat(p) PROVE ReaderInUse' /\ PastResync'
  BY <1>12, Zenon DEF DgCreat, lfvars
<1>13. ASSUME NEW p \in Proc, MkResync(p) PROVE ReaderInUse' /\ PastResync'
  <2>1. \A q \in Proc : rpc[q] \in {"getdir", "scan", "writing", "downgrade"} => q = p
    BY <1>13, Zenon DEF MkResync, LFCore, HolderOwns, RLCore, InStep
  <2> QED
    BY <1>13, <2>1, Zenon DEF MkResync, lfvars
<1>14. ASSUME NEW p \in Proc, RmResync(p) PROVE ReaderInUse' /\ PastResync'
  BY <1>14, Zenon DEF RmResync, lfvars
<1>15. ASSUME NEW p \in Proc, LookStart(p) PROVE ReaderInUse' /\ PastResync'
  BY <1>15, Zenon DEF LookStart, Look
<1>16. ASSUME NEW p \in Proc, LookSweep(p) \/ ExitClean(p)
       PROVE  ReaderInUse' /\ PastResync'
  <2>1. /\ rpc'[p] = "out" /\ resync' = resync
        /\ \A q \in Proc \ {p} : rpc'[q] = rpc[q]
        /\ ignore' \in {ignore, ignore \ {p}}
    <3>1. RReturn(p, "out") /\ resync' = resync
      BY <1>16, Zenon DEF LookSweep, ExitClean
    <3> QED
      BY <3>1, <1>r
  <2>2. CASE LookSweep(p)
    <3>1. /\ p \notin dead /\ rpc[p] = "look" /\ dead' = dead
          /\ readers' \subseteq readers
      BY <2>2, Zenon DEF LookSweep
    <3>2. p \notin readers'
      BY <3>1, Zenon
    <3> HIDE DEF ReaderInUse, PastResync
    <3> QED
      BY <2>1, <3>1, <3>2, RestMoves, Zenon
  <2>3. CASE ExitClean(p)
    <3>1. dead' = dead \cup {p} /\ readers' \subseteq readers
      BY <2>3, Zenon DEF ExitClean, Exit
    <3> HIDE DEF ReaderInUse, PastResync
    <3> QED
      BY <2>1, <3>1, RestMoves, Zenon
  <2> QED
    BY <1>16, <2>2, <2>3, Zenon
<1>18. ASSUME NEW p \in Proc, Die(p) PROVE ReaderInUse' /\ PastResync'
  BY <1>18, <1>r DEF Die, Crash
<1>19. ASSUME SetGlobal \/ ForceRd \/ ForceWr \/ UNCHANGED vars
       PROVE  ReaderInUse' /\ PastResync'
  BY <1>19, Zenon DEF SetGlobal, ForceRd, ForceWr, vars, rlvars, lfvars
<1> QED
  BY <1>1, <1>2, <1>3, <1>4, <1>5, <1>6, <1>7, <1>8, <1>9, <1>10, <1>11, <1>12,
     <1>13, <1>14, <1>15, <1>16, <1>18, <1>19, Zenon
  DEF Next, Busy

(* The invariant of the behaviours without robbery.                        *)
THEOREM HonestInvariant == HonestSpec => []HonestInv
<1>1. HonestInv /\ [Next /\ NoRobbery]_vars => HonestInv'
  <2> SUFFICES ASSUME HonestInv, [Next /\ NoRobbery]_vars PROVE HonestInv'
    BY Zenon
  <2>1. RLInv'
    BY LFCoreKept, RLTypeStep, RLCoreStep, Zenon DEF RLInv, HonestInv
  <2>2. robbed' = {}
    BY Zenon DEF HonestInv, NoRobbery, vars, lfvars
  <2> QED
    BY <2>1, <2>2, HonestFiles, HonestRest, Zenon DEF HonestInv
<1> QED
  BY <1>1, HonestInit, PTL DEF HonestSpec

(* A RESYNC directory stops every writer but its maker and the commands    *)
(* that ignore it.                                                         *)
THEOREM RLResyncBlocks == HonestSpec => []ResyncBlocks
<1>1. HonestInv => ResyncBlocks
  BY Zenon DEF HonestInv, PastResync, ResyncBlocks, Writing
<1> QED
  BY <1>1, HonestInvariant, PTL

(* No way out of the lock functions leaves a file of a live process.       *)
THEOREM RLLeavesNothing == HonestSpec => []LeavesNothing
<1>1. HonestInv => LeavesNothing
  BY Zenon DEF HonestInv, RLInv, RLCore, InStep, LFCore, LFTypeOK, LFHonest, UniqInUse,
         FileInUse, ReaderInUse, LeavesNothing, Live
<1> QED
  BY <1>1, HonestInvariant, PTL
(* What a step that moves one process does to the modes.                   *)
LEMMA ModeStep ==
    ASSUME RLTypeOK, NEW p \in Proc, NEW l \in RLabels, rpc' = [rpc EXCEPT ![p] = l]
    PROVE  Mode' = [Mode EXCEPT ![p] = IF l \in {"writing", "downgrade"} THEN "write"
                                       ELSE IF l = "reading" THEN "read" ELSE "none"]
  BY Zenon DEF RLTypeOK, Mode, Writing, Reading

(* Every step that robs nobody is a step of the readers-writer lock.       *)
LEMMA ModesFollow == HonestInv /\ [Next /\ NoRobbery]_vars => [RW!Next]_Mode
<1> SUFFICES ASSUME HonestInv, [Next /\ NoRobbery]_vars PROVE [RW!Next]_Mode
  BY Zenon
<1>c. LFCore /\ RLTypeOK /\ RLCore /\ robbed = {}
  BY Zenon DEF HonestInv, RLInv
<1>m. \A q \in Proc :
         /\ (Mode[q] = "write") <=> Writing(q)
         /\ (Mode[q] = "read") <=> Reading(q)
         /\ (Mode[q] = "none") <=> (~Writing(q) /\ ~Reading(q))
  BY Zenon DEF Mode, Writing, Reading
<1>s. ASSUME UNCHANGED rpc PROVE Mode' = Mode
  BY <1>s, Zenon DEF Mode, Writing, Reading
<1>l. /\ {"out", "rdtry", "rdcheck", "rdback", "reading"} \subseteq RLabels
      /\ {"wrtry", "lockfile", "getdir", "scan", "writing", "downgrade", "look"}
            \subseteq RLabels
  BY Zenon DEF RLabels
<1>q. ASSUME NEW p \in Proc, NEW l \in RLabels \ {"writing", "downgrade", "reading"},
             rpc' = [rpc EXCEPT ![p] = l], ~Writing(p), ~Reading(p)
      PROVE  Mode' = Mode
  <2>1. Mode' = [Mode EXCEPT ![p] = "none"]
    BY <1>q, <1>c, ModeStep, Zenon
  <2> QED
    BY <2>1, <1>q, <1>m, Zenon DEF Mode
<1>o. ASSUME NEW p \in Proc, rpc' = [rpc EXCEPT ![p] = "out"]
      PROVE  [RW!Next]_Mode
  <2>1. Mode' = [Mode EXCEPT ![p] = "none"]
    BY <1>o, <1>c, <1>l, ModeStep, Zenon
  <2>2. CASE Mode[p] = "none"
    BY <2>1, <2>2, Zenon DEF Mode
  <2>3. CASE Mode[p] # "none"
    BY <2>1, <2>3, Zenon DEF RW!Next, RW!Release, RW!Set
  <2> QED
    BY <2>2, <2>3, Zenon
<1>y. ASSUME NEW p \in Proc, NEW l \in {"rdtry", "wrtry"}, Retry(p, l), ~Writing(p),
             ~Reading(p)
      PROVE  Mode' = Mode
  <2>1. rpc' = [rpc EXCEPT ![p] = l] \/ rpc' = [rpc EXCEPT ![p] = "out"]
    BY <1>y, Zenon DEF Retry, RReturn, RGoto
  <2> QED
    BY <2>1, <1>q, <1>y, <1>l, Zenon
<1>1. ASSUME NEW p \in Proc,
             \/ RdStart(p) \/ RdCreat(p) \/ WrStart(p) \/ WrTry(p)
             \/ WrGetdir(p) \/ LookStart(p)
      PROVE  Mode' = Mode
  <2>1. \E l \in RLabels \ {"writing", "downgrade", "reading"} :
           rpc' = [rpc EXCEPT ![p] = l]
    BY <1>1, <1>l, Zenon DEF RdStart, RdCreat, WrStart, WrTry, WrGetdir, LookStart, RGoto
  <2>2. ~Writing(p) /\ ~Reading(p)
    BY <1>1, Zenon DEF RdStart, RdCreat, WrStart, WrTry, WrGetdir, LookStart, RAt,
                Writing, Reading
  <2> QED
    BY <2>1, <2>2, <1>q, Zenon
<1>2. ASSUME NEW p \in Proc,
             RdCreatFails(p) \/ RdBackoff(p) \/ WrTryFails(p) \/ WrLost(p)
      PROVE  Mode' = Mode
  BY <1>2, <1>y, Zenon DEF RdCreatFails, RdBackoff, WrTryFails, WrLost, RAt, Writing, Reading
<1>3. ASSUME NEW p \in Proc, RdCheck(p) PROVE [RW!Next]_Mode
  <2>1. ~Writing(p) /\ ~Reading(p)
    BY <1>3, Zenon DEF RdCheck, RAt, Writing, Reading
  <2>2. CASE file = None /\ "wrlock" \notin glob
    <3>1. Mode' = [Mode EXCEPT ![p] = "read"]
      BY <1>3, <2>2, <1>c, <1>l, ModeStep, Zenon DEF RdCheck, RReturn, RGoto
    <3>2. \A q \in Proc : ~Writing(q)
      BY <2>2, <1>c, NoneAssumption, Zenon
      DEF LFCore, HolderOwns, RLCore, InStep, Writing
    <3> QED
      BY <3>1, <3>2, <2>1, <1>m, Zenon DEF RW!Next, RW!Read, RW!NoWriter, RW!Set
  <2>3. CASE ~(file = None /\ "wrlock" \notin glob)
    BY <1>3, <2>1, <2>3, <1>q, <1>l, Zenon DEF RdCheck, RGoto
  <2> QED
    BY <2>2, <2>3, Zenon
<1>4. ASSUME NEW p \in Proc, RdUnlock(p) \/ WrUnlock(p) \/ LookSweep(p) \/ ExitClean(p) \/ Die(p)
      PROVE  [RW!Next]_Mode
  BY <1>4, <1>o, Zenon DEF RdUnlock, WrUnlock, LookSweep, ExitClean, Die, RReturn, RGoto
<1>5. ASSUME NEW p \in Proc, WrResync(p) PROVE Mode' = Mode
  <2>1. ~Writing(p) /\ ~Reading(p)
    BY <1>5, Zenon DEF WrResync, RAt, Writing, Reading
  <2> QED
    BY <1>5, <2>1, <1>y, <1>q, <1>l, Zenon DEF WrResync, RGoto
<1>6. ASSUME NEW p \in Proc, WrDone(p) PROVE [RW!Next]_Mode
  <2>1. ~Writing(p) /\ ~Reading(p) /\ rpc[p] = "scan" /\ todo[p] = {}
    BY <1>6, Zenon DEF WrDone, RAt, Writing, Reading
  <2>2. CASE p \in found
    BY <1>6, <2>1, <2>2, <1>y, Zenon DEF WrDone
  <2>3. CASE p \notin found
    <3>1. Mode' = [Mode EXCEPT ![p] = "write"]
      BY <1>6, <2>3, <1>c, <1>l, ModeStep, Zenon DEF WrDone, RReturn, RGoto
    <3>2. \A q \in Proc \ {p} : ~Reading(q)
      BY <2>1, <2>3, <1>c, Zenon DEF RLCore, ScanSeesReaders
    <3>3. \A q \in Proc \ {p} : ~Writing(q)
      BY <2>1, <1>c, Zenon DEF LFCore, HolderOwns, RLCore, InStep, Writing
    <3> QED
      BY <3>1, <3>2, <3>3, <2>1, <1>m, Zenon DEF RW!Next, RW!Write, RW!Alone, RW!Set
  <2> QED
    BY <2>2, <2>3, Zenon
<1>7. ASSUME NEW p \in Proc, DgCreat(p) PROVE Mode' = Mode
  <2>1. Mode' = [Mode EXCEPT ![p] = "write"] /\ Mode[p] = "write"
    BY <1>7, <1>c, <1>l, <1>m, ModeStep, Zenon DEF DgCreat, RGoto, RAt, Writing
  <2> QED
    BY <2>1, Zenon DEF Mode
<1>8. ASSUME NEW p \in Proc, DgUnlock(p) PROVE [RW!Next]_Mode
  <2>1. Mode' = [Mode EXCEPT ![p] = "read"] /\ Mode[p] = "write"
    BY <1>8, <1>c, <1>l, <1>m, ModeStep, Zenon DEF DgUnlock, RReturn, RGoto, RAt, Writing
  <2> QED
    BY <2>1, Zenon DEF RW!Next, RW!Downgrade, RW!Set
<1>9. ASSUME NEW p \in Proc, LockStep(p) \/ WrScan(p) \/ MkResync(p) \/ RmResync(p)
      PROVE  Mode' = Mode
  BY <1>9, <1>s, Zenon DEF LockStep, rlvars, WrScan, MkResync, RmResync
<1>10. ASSUME SetGlobal \/ ForceRd \/ ForceWr \/ UNCHANGED vars PROVE Mode' = Mode
  BY <1>10, <1>s, Zenon DEF SetGlobal, ForceRd, ForceWr, rlvars, vars
<1> QED
  BY <1>1, <1>2, <1>3, <1>4, <1>5, <1>6, <1>7, <1>8, <1>9, <1>10, Zenon DEF Next, Busy

(* The lock file protocol of locking.c implements a readers-writer lock    *)
(* with a gap-free downgrade, as long as no live process has a lock file   *)
(* removed by someone else.                                                *)
THEOREM RLImplementsRWLock == HonestSpec => ImplementsRWLock
<1>1. Init => RW!Init
  BY Zenon DEF Init, RW!Init, Mode, Writing, Reading
<1> QED
  BY <1>1, ModesFollow, HonestInvariant, PTL
  DEF HonestSpec, ImplementsRWLock, RW!Spec
=============================================================================
