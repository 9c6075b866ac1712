--------------------------- MODULE RepoLockProofs ---------------------------
(***************************************************************************)
(* Proofs about LockFile, for any set of processes on any hosts, and about *)
(* RepoLock, for any number of processes and attempts and any              *)
(* administrator.                                                          *)
(***************************************************************************)
EXTENDS RepoLock, TLAPS

-----------------------------------------------------------------------------
(* The lock file.                                                          *)

(* A process that is gone runs nothing.                                    *)
DeadIdle == \A p \in dead : pc[p] = "idle"

(* A holder owns the lock file unless it was removed under the holder.     *)
HolderOwns == \A p \in Proc : pc[p] = "held" => file = p \/ p \in robbed

(* Only inside sccs_lockfile or while holding is there a uniq file.        *)
UniqInUse ==
    \A p \in Proc : /\ p \in Live /\ (pc[p] = "idle" \/ wait[p] = "look")
                          => p \notin uniq
                    /\ pc[p] \in {"link", "test"} => wait[p] # "look"

(* A verdict is about the owner that was read.                             *)
SeenOwner ==
    \A p \in Proc : pc[p] \in {"findpid", "discard"} => seen[p].pid \in Proc

OneHost == \A p, q \in Proc : Host[p] = Host[q]

(* On one host nobody is robbed before somebody is gone.                   *)
AllLiveSafe ==
    dead = {} /\ OneHost
        => robbed = {} /\ \A p \in Proc : pc[p] # "discard"

(* What the repository lock relies on.                                     *)
LFCore == LFTypeOK /\ DeadIdle /\ HolderOwns

LFInv == LFCore /\ UniqInUse /\ SeenOwner /\ AllLiveSafe

(* The empty result of sccs_readlockf has the type of its results.         *)
LEMMA NothingType == Nothing \in Readings
  BY Zenon DEF Nothing, Readings

(* The initial states satisfy the inductive invariant: no lock file, every *)
(* process idle.                                                           *)
LEMMA LFInvInit == LFInit => LFInv
<1> SUFFICES ASSUME LFInit PROVE LFInv
  BY Zenon
<1> USE DEF LFInit
<1>1. LFTypeOK
  <2>1. Nothing \in Readings /\ 0 \in 0..WaitSecs
    BY NothingType, WaitAssumption
  <2> QED
    BY <2>1, Zenon DEF LFTypeOK, Labels
<1>2. DeadIdle /\ HolderOwns /\ UniqInUse /\ SeenOwner /\ AllLiveSafe
  BY Zenon DEF DeadIdle, HolderOwns, UniqInUse, SeenOwner, AllLiveSafe
<1> QED
  BY <1>1, <1>2, Zenon DEF LFInv, LFCore

(* Every step of sccs_lockfile and sccs_stalelock keeps the types.         *)
LEMMA LFTypeStep == LFTypeOK /\ [LFNext]_lfvars => LFTypeOK'
<1> SUFFICES ASSUME LFTypeOK, [LFNext]_lfvars PROVE LFTypeOK'
  BY Zenon
<1> USE WaitAssumption, WaitsAssumption DEF LFTypeOK, Labels
<1>n. Nothing \in Readings /\ 0 \in 0..WaitSecs
  BY NothingType
<1>0. CASE UNCHANGED lfvars
  BY <1>0, Zenon DEF lfvars
<1>1. ASSUME NEW p \in Proc, NEW w \in Waits, Lockfile(p, w) PROVE LFTypeOK'
  BY <1>1, Zenon DEF Lockfile, Goto
<1>2. ASSUME NEW p \in Proc, Link(p) PROVE LFTypeOK'
  BY <1>2, Zenon DEF Link, Goto
<1>3. ASSUME NEW p \in Proc, Test(p) PROVE LFTypeOK'
  BY <1>3, <1>n DEF Test, Goto, GiveUp, Return, Sleep
<1>4. ASSUME NEW p \in Proc, Readlockf(p) PROVE LFTypeOK'
  <2>1. [pid |-> file, old |-> old] \in Readings
    BY Zenon DEF Readings
  <2> QED
    BY <1>4, <1>n, <2>1 DEF Readlockf, NotStale, Goto, GiveUp, Return, Sleep
<1>5. ASSUME NEW p \in Proc, Findpid(p) PROVE LFTypeOK'
  BY <1>5, <1>n DEF Findpid, NotStale, Goto, GiveUp, Return, Sleep
<1>6. ASSUME NEW p \in Proc, Discard(p) PROVE LFTypeOK'
  <2>1. /\ seen' = [seen EXCEPT ![p] = Nothing]
        /\ pc' = [pc EXCEPT ![p] = "idle"] \/ pc' = [pc EXCEPT ![p] = "link"]
        /\ wait' = [wait EXCEPT ![p] = "zero"] \/ wait' = wait
        /\ waited' = [waited EXCEPT ![p] = 0] \/ waited' = waited
    BY <1>6, Zenon DEF Discard, Goto, Return
  <2>2. file' = None /\ old' = FALSE /\ uniq' \subseteq Proc
        /\ robbed' \subseteq Proc /\ dead' = dead
    BY <1>6, Zenon DEF Discard, Unlink, Live
  <2>3. seen' \in [Proc -> Readings]
    BY <2>1, <1>n, Zenon
  <2>4. waited' \in [Proc -> 0..WaitSecs]
    BY <2>1, <1>n, Zenon
  <2>5. pc' \in [Proc -> Labels]
        /\ wait' \in [Proc -> {"zero", "some", "forever", "look"}]
    BY <2>1, Zenon
  <2> QED
    BY <2>2, <2>3, <2>4, <2>5, Zenon
<1>7. ASSUME NEW p \in Proc, Look(p) PROVE LFTypeOK'
  BY <1>7, Zenon DEF Look, Goto
<1>8. ASSUME NEW p \in Proc, Unlockfile(p) PROVE LFTypeOK'
  BY <1>8, <1>n, Zenon DEF Unlockfile, Unlink, Goto, Return, Live
<1>9. ASSUME NEW p \in Proc, Exit(p) PROVE LFTypeOK'
  BY <1>9, <1>n, Zenon DEF Exit, Unlink, Goto, Return, Live
<1>10. ASSUME NEW p \in Proc, Crash(p) PROVE LFTypeOK'
  BY <1>10, <1>n, Zenon DEF Crash, Goto, Return, Live
<1>11. CASE Age
  BY <1>11, Zenon DEF Age
<1> QED
  BY <1>0, <1>1, <1>2, <1>3, <1>4, <1>5, <1>6, <1>7, <1>8, <1>9, <1>10, <1>11, Zenon
  DEF LFNext, Step

(* No step makes two live owners: a holder owns the lock file or has been  *)
(* robbed of it.                                                           *)
LEMMA LFCoreStep == LFCore /\ [LFNext]_lfvars => LFCore'
<1> SUFFICES ASSUME LFCore, [LFNext]_lfvars PROVE LFCore'
  BY Zenon
<1>t. LFTypeOK /\ LFTypeOK'
  BY LFTypeStep, Zenon DEF LFCore
<1> DEFINE Rest == DeadIdle /\ HolderOwns
<1>r. Rest
  BY Zenon DEF LFCore
<1> USE <1>t, <1>r, NoneAssumption DEF LFTypeOK, DeadIdle, HolderOwns, At, Live
<1>0. ASSUME UNCHANGED lfvars PROVE Rest'
  BY <1>0, Zenon DEF lfvars
<1>1. ASSUME NEW p \in Proc, NEW w \in Waits, Lockfile(p, w) PROVE Rest'
  BY <1>1, WaitsAssumption, Zenon DEF Lockfile, Goto
<1>2. ASSUME NEW p \in Proc, Link(p) PROVE Rest'
  BY <1>2, Zenon DEF Link, Goto
<1>3. ASSUME NEW p \in Proc, Test(p) PROVE Rest'
  BY <1>3 DEF Test, Goto, GiveUp, Return, Sleep, Won
<1>4. ASSUME NEW p \in Proc, Readlockf(p) PROVE Rest'
  BY <1>4 DEF Readlockf, NotStale, Goto, GiveUp, Return, Sleep
<1>5. ASSUME NEW p \in Proc, Findpid(p) PROVE Rest'
  BY <1>5 DEF Findpid, NotStale, Goto, GiveUp, Return, Sleep
<1>6. ASSUME NEW p \in Proc, Discard(p) PROVE Rest'
  BY <1>6 DEF Discard, Unlink, Goto, Return
<1>7. ASSUME NEW p \in Proc, Look(p) PROVE Rest'
  BY <1>7, Zenon DEF Look, Goto
<1>8. ASSUME NEW p \in Proc, Unlockfile(p) PROVE Rest'
  BY <1>8, Zenon DEF Unlockfile, Unlink, Goto, Return
<1>9. ASSUME NEW p \in Proc, Exit(p) PROVE Rest'
  BY <1>9 DEF Exit, Unlink, Goto, Return
<1>10. ASSUME NEW p \in Proc, Crash(p) PROVE Rest'
  BY <1>10, Zenon DEF Crash, Goto, Return
<1>11. ASSUME Age PROVE Rest'
  BY <1>11, Zenon DEF Age
<1>12. Rest'
  BY <1>0, <1>1, <1>2, <1>3, <1>4, <1>5, <1>6, <1>7, <1>8, <1>9, <1>10, <1>11, Zenon
  DEF LFNext, Step
<1> QED
  BY <1>t, <1>12, Zenon DEF LFCore

(* Every step keeps the rest of the inductive invariant.                   *)
LEMMA LFInvStep == LFInv /\ [LFNext]_lfvars => LFInv'
<1> SUFFICES ASSUME LFInv, [LFNext]_lfvars PROVE LFInv'
  BY Zenon
<1>c. LFCore /\ LFCore'
  BY LFCoreStep, Zenon DEF LFInv
<1> DEFINE Rest == UniqInUse /\ SeenOwner /\ AllLiveSafe
<1>r. Rest
  BY Zenon DEF LFInv
<1> USE <1>c, <1>r, NoneAssumption
    DEF LFCore, LFTypeOK, Readings, DeadIdle, HolderOwns, UniqInUse, SeenOwner,
        AllLiveSafe, At, Live
<1>0. ASSUME UNCHANGED lfvars PROVE Rest'
  BY <1>0, Zenon DEF lfvars
<1>1. ASSUME NEW p \in Proc, NEW w \in Waits, Lockfile(p, w) PROVE Rest'
  BY <1>1, WaitsAssumption DEF Lockfile, Goto
<1>2. ASSUME NEW p \in Proc, Link(p) PROVE Rest'
  BY <1>2 DEF Link, Goto
<1>3. ASSUME NEW p \in Proc, Test(p) PROVE Rest'
  BY <1>3 DEF Test, Goto, GiveUp, Return, Sleep, Nothing, Won
<1>4. ASSUME NEW p \in Proc, Readlockf(p) PROVE Rest'
  BY <1>4 DEF Readlockf, NotStale, Goto, GiveUp, Return, Sleep, Nothing
<1>5. ASSUME NEW p \in Proc, Findpid(p) PROVE Rest'
  BY <1>5 DEF Findpid, NotStale, Goto, GiveUp, Return, Sleep, Nothing, Stale, OneHost
<1>6. ASSUME NEW p \in Proc, Discard(p) PROVE Rest'
  BY <1>6 DEF Discard, Unlink, Goto, Return, Nothing
<1>7. ASSUME NEW p \in Proc, Look(p) PROVE Rest'
  BY <1>7 DEF Look, Goto
<1>8. ASSUME NEW p \in Proc, Unlockfile(p) PROVE Rest'
  BY <1>8 DEF Unlockfile, Unlink, Goto, Return, Nothing
<1>9. ASSUME NEW p \in Proc, Exit(p) PROVE Rest'
  BY <1>9 DEF Exit, Unlink, Goto, Return, Nothing
<1>10. ASSUME NEW p \in Proc, Crash(p) PROVE Rest'
  BY <1>10 DEF Crash, Goto, Return, Nothing
<1>11. ASSUME Age PROVE Rest'
  BY <1>11, Zenon DEF Age
<1>12. Rest'
  BY <1>0, <1>1, <1>2, <1>3, <1>4, <1>5, <1>6, <1>7, <1>8, <1>9, <1>10, <1>11, Zenon
  DEF LFNext, Step
<1> QED
  BY <1>c, <1>12, Zenon DEF LFInv

(* The invariant of LockFile holds in every reachable state.               *)
THEOREM LFInvariant == LFSpec => []LFInv
  BY LFInvInit, LFInvStep, PTL DEF LFSpec

(* Types: sccs_lockfile keeps its state well formed.                       *)
THEOREM LFTypeCorrect == LFSpec => []LFTypeOK
<1>1. LFInv => LFTypeOK
  BY Zenon DEF LFInv, LFCore
<1> QED
  BY <1>1, LFInvariant, PTL

(* Two live processes hold one lock file only after somebody else removed  *)
(* the lock file of one of them (sccs_stalelock's read, look-up and unlink *)
(* are not one step, sccs_unlockfile does not look whose file it removes). *)
THEOREM LFMutexUnlessRobbed == LFSpec => []MutexUnlessRobbed
<1>1. LFInv => MutexUnlessRobbed
  BY Zenon DEF LFInv, LFCore, HolderOwns, MutexUnlessRobbed, Holds
<1> QED
  BY <1>1, LFInvariant, PTL

(* On one host the lock excludes until the first process is gone.          *)
THEOREM LFMutexWhileAllLive == LFSpec => []MutexWhileAllLive
<1>1. LFInv => MutexWhileAllLive
  BY Zenon DEF LFInv, LFCore, HolderOwns, AllLiveSafe, OneHost, MutexWhileAllLive, Holds
<1> QED
  BY <1>1, LFInvariant, PTL

(* A live process that is not locking has left no uniq file behind.        *)
THEOREM LFNoUniqLeft == LFSpec => []NoUniqLeft
<1>1. LFInv => NoUniqLeft
  BY Zenon DEF LFInv, LFCore, LFTypeOK, UniqInUse, NoUniqLeft, Live
<1> QED
  BY <1>1, LFInvariant, PTL

-----------------------------------------------------------------------------
(* The repository lock.                                                    *)

(* A process that is gone is in no lock function.                          *)
DeadOut == \A p \in dead : rpc[p] = "out"

(* How far locking.c is tells how far sccs_lockfile is.                    *)
InStep ==
    \A p \in Proc :
        /\ rpc[p] \in {"getdir", "scan", "writing", "downgrade"} => pc[p] = "held"
        /\ rpc[p] \notin {"getdir", "scan", "writing", "downgrade", "lockfile", "look"}
              => pc[p] = "idle"
        /\ rpc[p] = "look" => pc[p] = "idle" \/ (/\ wait[p] = "look"
                                                 /\ pc[p] \in {"read", "findpid", "discard"})

(* Whoever got past the creat() in rdlock or downgrade has a reader file.  *)
ReaderHasFile ==
    \A q \in Proc : rpc[q] \in {"rdcheck", "rdback", "reading", "downgrade"}
                        => q \in readers \/ q \in robbed

(* A scan has every reader still before it, or has already met a lock.     *)
ScanSeesReaders ==
    \A p, q \in Proc : rpc[p] = "scan" /\ Reading(q) /\ p # q
        => q \in todo[p] \/ p \in found \/ {p, q} \cap robbed # {}

WriterNoReaders ==
    \A p, q \in Proc : Writing(p) /\ Reading(q) /\ p # q => {p, q} \cap robbed # {}

RLCore == DeadOut /\ InStep /\ ReaderHasFile /\ ScanSeesReaders /\ WriterNoReaders

RLInv == RLTypeOK /\ LFCore /\ RLCore

(* The initial states satisfy the invariant: no files, nobody locking.     *)
LEMMA RLInvInit == Init => RLInv
<1> SUFFICES ASSUME Init PROVE RLInv
  BY Zenon
<1>1. LFCore
  BY LFInvInit, Zenon DEF Init, LFInv
<1>2. RLTypeOK
  <2>1. 0 \in 0..Tries
    BY TriesAssumption
  <2> QED
    BY <1>1, <2>1, Zenon DEF Init, RLTypeOK, RLabels, LFCore
<1>3. RLCore
  BY Zenon DEF Init, LFInit, RLCore, DeadOut, InStep, ReaderHasFile, ScanSeesReaders,
         WriterNoReaders, Reading, Writing
<1> QED
  BY <1>1, <1>2, <1>3, Zenon DEF RLInv

(* The steps that do to the lock file what some step of LockFile does.     *)
LEMMA LockPart ==
    ASSUME NEW p \in Proc,
           \/ RdStart(p) \/ RdCreatFails(p) \/ RdCheck(p) \/ RdBackoff(p)
           \/ RdUnlock(p) \/ WrStart(p) \/ WrTry(p) \/ WrTryFails(p)
           \/ LockStep(p) \/ WrLost(p) \/ WrResync(p) \/ WrGetdir(p)
           \/ WrScan(p) \/ WrDone(p) \/ DgCreat(p) \/ MkResync(p)
           \/ RmResync(p) \/ LookStart(p) \/ ExitClean(p) \/ Die(p)
    PROVE  [LFNext]_lfvars
  BY ZeroAssumption, Zenon
  DEF RdStart, RdCreatFails, RdCheck, RdBackoff, RdUnlock, WrStart, WrTry,
      WrTryFails, LockStep, WrLost, WrResync, WrGetdir, WrScan, WrDone, DgCreat,
      MkResync, RmResync, LookStart, ExitClean, Die, LFNext

(* Giving the write lock back, ours or not.                                *)
LEMMA ReleaseKeepsCore ==
    ASSUME LFCore, NEW p \in Proc, At(p, "held"), WrRelease(p) PROVE LFCore'
<1>1. CASE file = p /\ Unlockfile(p)
  BY <1>1, LFCoreStep, Zenon DEF LFNext
<1>2. CASE /\ Return(p, "idle")
           /\ UNCHANGED <<file, old, uniq, dead, robbed>>
  <2>1. Nothing \in Readings /\ 0 \in 0..WaitSecs
    BY NothingType, WaitAssumption
  <2> QED
    BY <1>2, <2>1, Zenon DEF LFCore, LFTypeOK, DeadIdle, HolderOwns, Return, Goto, Labels
<1> QED
  BY <1>1, <1>2, Zenon DEF WrRelease

(* Every step of the repository lock keeps what LockFile guarantees.       *)
LEMMA LFCoreKept == RLInv /\ [Next]_vars => LFCore'
<1> SUFFICES ASSUME RLInv, [Next]_vars PROVE LFCore'
  BY Zenon
<1>c. LFCore /\ RLTypeOK /\ InStep
  BY Zenon DEF RLInv, RLCore
<1>1. CASE [LFNext]_lfvars
  BY <1>1, <1>c, LFCoreStep, Zenon
<1>2. ASSUME NEW p \in Proc, RdCreat(p) PROVE LFCore'
  BY <1>2, <1>c, Zenon DEF RdCreat, RAt, InStep, LFCore, LFTypeOK, DeadIdle, HolderOwns
<1>3. ASSUME NEW p \in Proc, WrUnlock(p) \/ DgUnlock(p) PROVE LFCore'
  <2>1. At(p, "held") /\ WrRelease(p)
    BY <1>3, <1>c, Zenon DEF WrUnlock, DgUnlock, RAt, At, InStep
  <2> QED
    BY <2>1, <1>c, ReleaseKeepsCore, Zenon
<1>4. ASSUME NEW p \in Proc, LookSweep(p) PROVE LFCore'
  BY <1>4, <1>c, Zenon DEF LookSweep, LFCore, LFTypeOK, DeadIdle, HolderOwns
<1>5. ASSUME ForceRd \/ ForceWr PROVE LFCore'
  BY <1>5, <1>c, Zenon
  DEF ForceRd, ForceWr, RLTypeOK, LFCore, LFTypeOK, DeadIdle, HolderOwns, Live
<1>6. ASSUME SetGlobal \/ UNCHANGED vars PROVE [LFNext]_lfvars
  BY <1>6, Zenon DEF SetGlobal, vars
<1> QED
  BY <1>1, <1>2, <1>3, <1>4, <1>5, <1>6, LockPart, Zenon DEF Next, Busy

(* Every step keeps the types.                                             *)
LEMMA RLTypeStep == RLInv /\ [Next]_vars => RLTypeOK'
<1> SUFFICES ASSUME RLInv, [Next]_vars PROVE RLTypeOK'
  BY Zenon
<1>c. LFTypeOK'
  BY LFCoreKept, Zenon DEF LFCore
<1>z. /\ 0 \in 0..Tries /\ Tries \in 0..Tries
      /\ \A n \in 0..Tries : n > 1 => n - 1 \in 0..Tries
  BY TriesAssumption
<1>t. RLTypeOK
  BY Zenon DEF RLInv
<1>r. ASSUME NEW p \in Proc, NEW l \in RLabels, RReturn(p, l)
      PROVE  /\ rpc' \in [Proc -> RLabels]
             /\ tries' \in [Proc -> 0..Tries]
             /\ todo' \in [Proc -> SUBSET Proc]
             /\ ignore' \subseteq Proc
             /\ found' \subseteq Proc
  BY <1>r, <1>z, <1>t, Zenon DEF RReturn, RGoto, RLTypeOK
<1>y. ASSUME NEW p \in Proc, NEW l \in RLabels, Retry(p, l)
      PROVE  /\ rpc' \in [Proc -> RLabels]
             /\ tries' \in [Proc -> 0..Tries]
             /\ todo' \in [Proc -> SUBSET Proc]
             /\ ignore' \subseteq Proc
             /\ found' \subseteq Proc
  <2>1. CASE tries[p] > 1
    BY <1>y, <2>1, <1>z, <1>t DEF Retry, RGoto, RLTypeOK
  <2>2. CASE ~(tries[p] > 1)
    BY <1>y, <2>2, <1>r, Zenon DEF Retry, RLabels
  <2> QED
    BY <2>1, <2>2, Zenon
<1>l. /\ {"out", "rdtry", "rdcheck", "rdback", "reading"} \subseteq RLabels
      /\ {"wrtry", "lockfile", "getdir", "scan", "writing", "downgrade", "look"}
            \subseteq RLabels
  BY Zenon DEF RLabels
<1> USE <1>c, <1>t, <1>l DEF RLTypeOK, RGoto
<1>1. ASSUME NEW p \in Proc, RdStart(p) \/ WrStart(p) PROVE RLTypeOK'
  <2>1. CASE RdStart(p)
    BY <2>1, <1>z, Zenon DEF RdStart
  <2>2. CASE WrStart(p)
    <3>1. ignore' \subseteq Proc
      BY <2>2, Zenon DEF WrStart
    <3> QED
      BY <2>2, <3>1, <1>z, Zenon DEF WrStart
  <2> QED
    BY <1>1, <2>1, <2>2, Zenon
<1>2. ASSUME NEW p \in Proc, RdCreat(p) \/ WrTry(p) \/ LockStep(p) PROVE RLTypeOK'
  BY <1>2, Zenon DEF RdCreat, WrTry, LockStep, rlvars
<1>3. ASSUME NEW p \in Proc, RdCreatFails(p) \/ RdBackoff(p) \/ WrTryFails(p) \/ WrLost(p)
      PROVE RLTypeOK'
  BY <1>3, <1>y, Zenon DEF RdCreatFails, RdBackoff, WrTryFails, WrLost
<1>4. ASSUME NEW p \in Proc, RdCheck(p) PROVE RLTypeOK'
  BY <1>4, <1>r, Zenon DEF RdCheck
<1>5. ASSUME NEW p \in Proc, WrResync(p) PROVE RLTypeOK'
  BY <1>5, <1>y, Zenon DEF WrResync
<1>6. ASSUME NEW p \in Proc, WrDone(p) PROVE RLTypeOK'
  BY <1>6, <1>y, <1>r, Zenon DEF WrDone
<1>7. ASSUME NEW p \in Proc, WrGetdir(p) \/ WrScan(p) PROVE RLTypeOK'
  <2>1. CASE WrGetdir(p)
    BY <2>1, Zenon DEF WrGetdir
  <2>2. CASE WrScan(p)
    <3>1. todo' \in [Proc -> SUBSET Proc] /\ readers' \subseteq Proc /\ found' \subseteq Proc
      BY <2>2 DEF WrScan
    <3> QED
      BY <2>2, <3>1, Zenon DEF WrScan
  <2> QED
    BY <1>7, <2>1, <2>2, Zenon
<1>8. ASSUME NEW p \in Proc, RdUnlock(p) \/ WrUnlock(p) \/ DgUnlock(p) PROVE RLTypeOK'
  BY <1>8, <1>r, Zenon DEF RdUnlock, WrUnlock, DgUnlock
<1>9. ASSUME NEW p \in Proc, DgCreat(p) \/ MkResync(p) \/ RmResync(p) \/ LookStart(p)
      PROVE RLTypeOK'
  BY <1>9, Zenon DEF DgCreat, MkResync, RmResync, LookStart
<1>10. ASSUME NEW p \in Proc, LookSweep(p) \/ ExitClean(p) \/ Die(p) PROVE RLTypeOK'
  BY <1>10, <1>r, Zenon DEF LookSweep, ExitClean, Die
<1>11. ASSUME SetGlobal \/ ForceRd \/ ForceWr \/ UNCHANGED vars PROVE RLTypeOK'
  BY <1>11, Zenon DEF SetGlobal, ForceRd, ForceWr, vars, rlvars
<1> QED
  BY <1>1, <1>2, <1>3, <1>4, <1>5, <1>6, <1>7, <1>8, <1>9, <1>10, <1>11, Zenon
  DEF Next, Busy

(* What a step of p leaves to the others, in locking.c, in sccs_lockfile   *)
(* and in BitKeeper/readers.                                               *)
RlOthers(p) ==
    \A q \in Proc \ {p} : /\ rpc'[q] = rpc[q] /\ todo'[q] = todo[q]
                          /\ q \in found => q \in found'
LfOthers(p) ==
    /\ \A q \in Proc \ {p} : /\ pc'[q] = pc[q] /\ wait'[q] = wait[q]
                             /\ q \in robbed => q \in robbed'
    /\ dead' \subseteq dead \cup {p}
RdOthers(p) == \A q \in readers \ {p} : q \in readers' \/ q \in dead

(* Where a step of p may leave p itself ...                                *)
Own(p) ==
    /\ p \in dead' => rpc'[p] = "out"
    /\ rpc'[p] \in {"getdir", "scan", "writing", "downgrade"} => pc'[p] = "held"
    /\ rpc'[p] \notin {"getdir", "scan", "writing", "downgrade", "lockfile", "look"}
          => pc'[p] = "idle"
    /\ rpc'[p] = "look" => pc'[p] = "idle" \/ (/\ wait'[p] = "look"
                                               /\ pc'[p] \in {"read", "findpid", "discard"})
    /\ rpc'[p] \in {"rdcheck", "rdback", "reading", "downgrade"}
          => p \in readers' \/ p \in robbed'

(* ... and p beside each other process.                                    *)
Pairs(p) ==
    \A q \in Proc \ {p} :
        /\ rpc'[p] = "scan" /\ rpc[q] = "reading"
              => q \in todo'[p] \/ p \in found' \/ {p, q} \cap robbed' # {}
        /\ rpc'[p] = "reading" /\ rpc[q] = "scan"
              => p \in todo[q] \/ q \in found' \/ {p, q} \cap robbed' # {}
        /\ rpc'[p] \in {"writing", "downgrade"} /\ rpc[q] = "reading"
              => {p, q} \cap robbed' # {}
        /\ rpc'[p] = "reading" /\ rpc[q] \in {"writing", "downgrade"}
              => {p, q} \cap robbed' # {}

(* A step of one process is safe if what it does to that process is.       *)
LEMMA OneMoves ==
    ASSUME RLCore, dead \subseteq Proc, NEW p \in Proc,
           RlOthers(p), LfOthers(p), RdOthers(p), Own(p), Pairs(p)
    PROVE  RLCore'
<1>1. DeadOut'
  BY Zenon DEF RLCore, DeadOut, RlOthers, LfOthers, Own
<1>2. InStep'
  BY DEF RLCore, InStep, RlOthers, LfOthers, Own
<1>3. ReaderHasFile'
  <2> SUFFICES ASSUME NEW q \in Proc,
                      rpc'[q] \in {"rdcheck", "rdback", "reading", "downgrade"}
               PROVE  q \in readers' \/ q \in robbed'
    BY Zenon DEF ReaderHasFile
  <2>1. CASE q = p
    BY <2>1, Zenon DEF Own
  <2>2. CASE q # p
    <3>1. rpc[q] = rpc'[q] /\ (q \in robbed => q \in robbed')
      BY <2>2, Zenon DEF RlOthers, LfOthers
    <3>2. q \in readers \/ q \in robbed
      BY <3>1, Zenon DEF RLCore, ReaderHasFile
    <3>3. q \notin dead
      BY <3>1, Zenon DEF RLCore, DeadOut
    <3> QED
      BY <2>2, <3>1, <3>2, <3>3, Zenon DEF RdOthers
  <2> QED
    BY <2>1, <2>2, Zenon
<1>4. ScanSeesReaders'
  <2> SUFFICES ASSUME NEW q \in Proc, NEW r \in Proc,
                      rpc'[q] = "scan", rpc'[r] = "reading", q # r
               PROVE  r \in todo'[q] \/ q \in found' \/ {q, r} \cap robbed' # {}
    BY Zenon DEF ScanSeesReaders, Reading
  <2>1. CASE q = p
    BY <2>1, Zenon DEF Pairs, RlOthers
  <2>2. CASE r = p
    BY <2>2, Zenon DEF Pairs, RlOthers
  <2>3. CASE q # p /\ r # p
    BY <2>3 DEF RLCore, ScanSeesReaders, Reading, RlOthers, LfOthers
  <2> QED
    BY <2>1, <2>2, <2>3, Zenon
<1>5. WriterNoReaders'
  <2> SUFFICES ASSUME NEW q \in Proc, NEW r \in Proc,
                      rpc'[q] \in {"writing", "downgrade"}, rpc'[r] = "reading", q # r
               PROVE  {q, r} \cap robbed' # {}
    BY Zenon DEF WriterNoReaders, Reading, Writing
  <2>1. CASE q = p
    BY <2>1, Zenon DEF Pairs, RlOthers
  <2>2. CASE r = p
    BY <2>2, Zenon DEF Pairs, RlOthers
  <2>3. CASE q # p /\ r # p
    BY <2>3 DEF RLCore, WriterNoReaders, Reading, Writing, RlOthers, LfOthers
  <2> QED
    BY <2>1, <2>2, <2>3, Zenon
<1> QED
  BY <1>1, <1>2, <1>3, <1>4, <1>5, Zenon DEF RLCore

(* What a return, an attempt and a jump in locking.c change.               *)
LEMMA ReturnMoves ==
    ASSUME RLTypeOK, NEW p \in Proc, NEW l, RReturn(p, l)
    PROVE  RlOthers(p) /\ rpc'[p] = l
  BY Zenon DEF RLTypeOK, RReturn, RGoto, RlOthers

LEMMA GotoMoves ==
    ASSUME RLTypeOK, NEW p \in Proc, NEW l, RGoto(p, l), UNCHANGED <<todo, found>>
    PROVE  RlOthers(p) /\ rpc'[p] = l
  BY Zenon DEF RLTypeOK, RGoto, RlOthers

LEMMA RetryMoves ==
    ASSUME RLTypeOK, NEW p \in Proc, NEW l, Retry(p, l)
    PROVE  RlOthers(p) /\ rpc'[p] \in {l, "out"}
<1>1. CASE tries[p] > 1
  BY <1>1, Zenon DEF RLTypeOK, Retry, RGoto, RlOthers
<1>2. CASE ~(tries[p] > 1)
  BY <1>2, ReturnMoves, Zenon DEF Retry
<1> QED
  BY <1>1, <1>2, Zenon

(* What a return from sccs_lockfile, the release of the lock and the steps *)
(* inside it change.                                                       *)
LEMMA LfSame ==
    ASSUME NEW p \in Proc, UNCHANGED lfvars
    PROVE  LfOthers(p) /\ pc' = pc /\ wait' = wait /\ robbed' = robbed /\ dead' = dead
  BY Zenon DEF lfvars, LfOthers

LEMMA LfReleased ==
    ASSUME LFTypeOK, NEW p \in Proc, WrRelease(p) \/ Unlockfile(p)
    PROVE  LfOthers(p) /\ pc'[p] = "idle" /\ robbed \subseteq robbed' /\ dead' = dead
  BY Zenon DEF LFTypeOK, WrRelease, Unlockfile, Unlink, Return, Goto, LfOthers

LEMMA LfStepped ==
    ASSUME LFTypeOK, NEW p \in Proc, Step(p)
    PROVE  /\ LfOthers(p) /\ dead' = dead /\ p \notin dead
           /\ pc[p] \in {"link", "test", "read", "findpid", "discard"}
           /\ wait[p] = "look" /\ pc[p] \in {"read", "findpid", "discard"}
                 => pc'[p] = "idle" \/ (/\ wait'[p] = "look"
                                        /\ pc'[p] \in {"read", "findpid", "discard"})
<1> USE DEF LFTypeOK, LfOthers, At, Live, Goto
<1>1. CASE Link(p)
  BY <1>1, Zenon DEF Link
<1>2. CASE Test(p)
  BY <1>2, Zenon DEF Test, GiveUp, Sleep, Return
<1>3. CASE Readlockf(p)
  BY <1>3, Zenon DEF Readlockf, NotStale, GiveUp, Sleep, Return
<1>4. CASE Findpid(p)
  BY <1>4, Zenon DEF Findpid, NotStale, GiveUp, Sleep, Return
<1>5. CASE Discard(p)
  BY <1>5, Zenon DEF Discard, Unlink, Return
<1> QED
  BY <1>1, <1>2, <1>3, <1>4, <1>5, Zenon DEF Step

(* Every step keeps readers and writers apart.                             *)
LEMMA RLCoreStep == RLInv /\ [Next]_vars => RLCore'
<1> SUFFICES ASSUME RLInv, [Next]_vars PROVE RLCore'
  BY Zenon
<1>c. RLTypeOK /\ LFTypeOK /\ RLCore /\ dead \subseteq Proc
  BY Zenon DEF RLInv, LFCore, LFTypeOK
<1>i. ASSUME NEW p \in Proc
      PROVE  /\ rpc[p] \in {"getdir", "scan", "writing", "downgrade"} => pc[p] = "held"
             /\ rpc[p] \notin {"getdir", "scan", "writing", "downgrade", "lockfile", "look"}
                   => pc[p] = "idle"
             /\ rpc[p] \in {"rdcheck", "rdback", "reading", "downgrade"}
                   => p \in readers \/ p \in robbed
  BY <1>c, Zenon DEF RLCore, InStep, ReaderHasFile
<1>h. \A p, q \in Proc : p # q /\ pc[p] = "held" /\ pc[q] = "held" => {p, q} \cap robbed # {}
  BY Zenon DEF RLInv, LFCore, HolderOwns
<1> USE DEF RAt, Live
(* An attempt or a call ends, or the next one starts, and sccs_lockfile is *)
(* as it was.                                                              *)
<1>1. ASSUME NEW p \in Proc, RdStart(p) \/ WrStart(p) PROVE RLCore'
  <2>1. rpc[p] = "out" /\ p \notin dead /\ rpc'[p] \in {"rdtry", "wrtry"} /\ RlOthers(p)
    BY <1>1, <1>c, GotoMoves, Zenon DEF RdStart, WrStart
  <2>2. LfOthers(p) /\ pc' = pc /\ dead' = dead /\ RdOthers(p)
    BY <1>1, LfSame, Zenon DEF RdStart, WrStart, RdOthers
  <2>3. Own(p) /\ Pairs(p)
    BY <1>i, <2>1, <2>2, Zenon DEF Own, Pairs
  <2> QED
    BY <1>c, <2>1, <2>2, <2>3, OneMoves, Zenon
<1>2. ASSUME NEW p \in Proc, RdCreat(p) PROVE RLCore'
  <2>1. rpc[p] = "rdtry" /\ p \notin dead /\ rpc'[p] = "rdcheck" /\ RlOthers(p)
    BY <1>2, <1>c, GotoMoves, Zenon DEF RdCreat
  <2>2. LfOthers(p) /\ pc' = pc /\ dead' = dead /\ RdOthers(p) /\ p \in readers'
    BY <1>2, Zenon DEF RdCreat, LfOthers, RdOthers
  <2>3. Own(p) /\ Pairs(p)
    BY <1>i, <2>1, <2>2, Zenon DEF Own, Pairs
  <2> QED
    BY <1>c, <2>1, <2>2, <2>3, OneMoves, Zenon
<1>3. ASSUME NEW p \in Proc, RdCreatFails(p) \/ WrTryFails(p) \/ WrLost(p) PROVE RLCore'
  <2>1. p \notin dead /\ rpc'[p] \in {"rdtry", "wrtry", "out"} /\ RlOthers(p)
    BY <1>3, <1>c, RetryMoves, Zenon DEF RdCreatFails, WrTryFails, WrLost
  <2>2. pc[p] = "idle"
    BY <1>3, <1>i, Zenon DEF RdCreatFails, WrTryFails, WrLost
  <2>3. LfOthers(p) /\ pc' = pc /\ dead' = dead /\ RdOthers(p)
    BY <1>3, LfSame, Zenon DEF RdCreatFails, WrTryFails, WrLost, RdOthers
  <2>4. Own(p) /\ Pairs(p)
    BY <2>1, <2>2, <2>3, Zenon DEF Own, Pairs
  <2> QED
    BY <1>c, <2>1, <2>3, <2>4, OneMoves, Zenon
<1>4. ASSUME NEW p \in Proc, RdCheck(p) PROVE RLCore'
  <2>1. rpc[p] = "rdcheck" /\ p \notin dead /\ readers' = readers
    BY <1>4, Zenon DEF RdCheck
  <2>2. LfOthers(p) /\ pc' = pc /\ dead' = dead /\ robbed' = robbed /\ RdOthers(p)
    BY <1>4, LfSame, Zenon DEF RdCheck, RdOthers
  <2>3. CASE file = None /\ "wrlock" \notin glob
    <3>1. rpc'[p] = "reading" /\ RlOthers(p)
      BY <1>4, <1>c, <2>3, ReturnMoves, Zenon DEF RdCheck
    <3>2. \A q \in Proc : pc[q] = "held" => q \in robbed
      BY <2>3, NoneAssumption, Zenon DEF RLInv, LFCore, HolderOwns
    <3>3. Own(p)
      BY <1>i, <2>1, <2>2, <3>1, Zenon DEF Own
    <3>4. Pairs(p)
      BY <1>i, <2>2, <3>1, <3>2, Zenon DEF Pairs
    <3> QED
      BY <1>c, <2>2, <3>1, <3>3, <3>4, OneMoves, Zenon
  <2>4. CASE ~(file = None /\ "wrlock" \notin glob)
    <3>1. rpc'[p] = "rdback" /\ RlOthers(p)
      BY <1>4, <1>c, <2>4, GotoMoves, Zenon DEF RdCheck
    <3>2. Own(p) /\ Pairs(p)
      BY <1>i, <2>1, <2>2, <3>1, Zenon DEF Own, Pairs
    <3> QED
      BY <1>c, <2>2, <3>1, <3>2, OneMoves, Zenon
  <2> QED
    BY <2>3, <2>4, Zenon
<1>5. ASSUME NEW p \in Proc, RdBackoff(p) \/ RdUnlock(p) PROVE RLCore'
  <2>1. rpc[p] \in {"rdback", "reading"} /\ p \notin dead
    BY <1>5, Zenon DEF RdBackoff, RdUnlock
  <2>2. rpc'[p] \in {"rdtry", "out"} /\ RlOthers(p)
    BY <1>5, <1>c, RetryMoves, ReturnMoves, Zenon DEF RdBackoff, RdUnlock
  <2>3. LfOthers(p) /\ pc' = pc /\ dead' = dead /\ RdOthers(p)
    BY <1>5, LfSame, Zenon DEF RdBackoff, RdUnlock, RdOthers
  <2>4. Own(p) /\ Pairs(p)
    BY <1>i, <2>1, <2>2, <2>3, Zenon DEF Own, Pairs
  <2> QED
    BY <1>c, <2>2, <2>3, <2>4, OneMoves, Zenon
(* The writer lock file is taken and looked at.                            *)
<1>6. ASSUME NEW p \in Proc, WrTry(p) \/ LookStart(p) PROVE RLCore'
  <2>1. /\ p \notin dead /\ rpc'[p] \in {"lockfile", "look"} /\ RlOthers(p)
        /\ readers' = readers
    BY <1>6, <1>c, GotoMoves, Zenon DEF WrTry, LookStart
  <2>2. /\ LfOthers(p) /\ dead' = dead
        /\ rpc'[p] = "look" => wait'[p] = "look" /\ pc'[p] = "read"
    BY <1>6, <1>c, Zenon
       DEF WrTry, LookStart, Lockfile, Look, Goto, LfOthers, LFTypeOK, RGoto, RLTypeOK
  <2>3. RdOthers(p) /\ Own(p) /\ Pairs(p)
    BY <2>1, <2>2, Zenon DEF Own, Pairs, RdOthers
  <2> QED
    BY <1>c, <2>1, <2>2, <2>3, OneMoves, Zenon
<1>7. ASSUME NEW p \in Proc, LockStep(p) PROVE RLCore'
  <2>1. /\ LfOthers(p) /\ dead' = dead /\ p \notin dead
        /\ pc[p] \in {"link", "test", "read", "findpid", "discard"}
        /\ wait[p] = "look" /\ pc[p] \in {"read", "findpid", "discard"}
              => pc'[p] = "idle" \/ (/\ wait'[p] = "look"
                                     /\ pc'[p] \in {"read", "findpid", "discard"})
    BY <1>7, <1>c, LfStepped, Zenon DEF LockStep
  <2>2. rpc' = rpc /\ RlOthers(p) /\ RdOthers(p)
    BY <1>7, Zenon DEF LockStep, rlvars, RlOthers, RdOthers
  <2>3. rpc[p] \in {"lockfile", "look"}
    BY <1>i, <2>1, Zenon
  <2>4. rpc[p] = "look" => wait[p] = "look" /\ pc[p] \in {"read", "findpid", "discard"}
    BY <1>c, <2>1, Zenon DEF RLCore, InStep
  <2>5. Own(p) /\ Pairs(p)
    BY <2>1, <2>2, <2>3, <2>4, Zenon DEF Own, Pairs
  <2> QED
    BY <1>c, <2>1, <2>2, <2>5, OneMoves, Zenon
(* An attempt that holds the lock file and has to give it back.            *)
<1>8. ASSUME NEW p \in Proc, p \notin dead, Unlockfile(p), Retry(p, "wrtry"),
             readers' = readers
      PROVE  RLCore'
  <2>1. rpc'[p] \in {"wrtry", "out"} /\ RlOthers(p) /\ RdOthers(p)
    BY <1>8, <1>c, RetryMoves, Zenon DEF RdOthers
  <2>2. LfOthers(p) /\ pc'[p] = "idle" /\ dead' = dead
    BY <1>8, <1>c, LfReleased, Zenon
  <2>3. Own(p) /\ Pairs(p)
    BY <1>8, <2>1, <2>2, Zenon DEF Own, Pairs
  <2> QED
    BY <1>c, <2>1, <2>2, <2>3, OneMoves, Zenon
<1>9. ASSUME NEW p \in Proc, WrResync(p) PROVE RLCore'
  <2>1. CASE resync # None /\ p \notin ignore
    BY <1>8, <1>9, <2>1, Zenon DEF WrResync
  <2>2. CASE ~(resync # None /\ p \notin ignore)
    <3>1. /\ p \notin dead /\ pc[p] = "held" /\ rpc'[p] = "getdir" /\ RlOthers(p)
          /\ RdOthers(p)
      BY <1>9, <1>c, <2>2, GotoMoves, Zenon DEF WrResync, RdOthers
    <3>2. LfOthers(p) /\ pc' = pc /\ dead' = dead
      BY <1>9, <2>2, LfSame, Zenon DEF WrResync
    <3>3. Own(p) /\ Pairs(p)
      BY <3>1, <3>2, Zenon DEF Own, Pairs
    <3> QED
      BY <1>c, <3>1, <3>2, <3>3, OneMoves, Zenon
  <2> QED
    BY <2>1, <2>2, Zenon
<1>10. ASSUME NEW p \in Proc, WrGetdir(p) PROVE RLCore'
  <2>1. /\ rpc[p] = "getdir" /\ p \notin dead /\ rpc'[p] = "scan"
        /\ todo'[p] = readers /\ RlOthers(p) /\ RdOthers(p)
    BY <1>10, <1>c, Zenon DEF WrGetdir, RGoto, RLTypeOK, RlOthers, RdOthers
  <2>2. LfOthers(p) /\ pc' = pc /\ dead' = dead /\ robbed' = robbed
    BY <1>10, LfSame, Zenon DEF WrGetdir
  <2>3. Own(p)
    BY <1>i, <2>1, <2>2, Zenon DEF Own
  <2>4. Pairs(p)
    BY <1>i, <2>1, <2>2, Zenon DEF Pairs
  <2> QED
    BY <1>c, <2>1, <2>2, <2>3, <2>4, OneMoves, Zenon
<1>11. ASSUME NEW p \in Proc, WrScan(p) PROVE RLCore'
  <2>1. rpc[p] = "scan" /\ p \notin dead /\ rpc' = rpc
    BY <1>11, Zenon DEF WrScan
  <2>2. LfOthers(p) /\ pc' = pc /\ dead' = dead /\ robbed' = robbed
    BY <1>11, LfSame, Zenon DEF WrScan
  <2>3. RlOthers(p) /\ RdOthers(p)
    BY <1>11, <1>c DEF WrScan, RLTypeOK, RlOthers, RdOthers
  <2>4. \A q \in todo[p] : q \in todo'[p] \/ q \in dead \/ p \in found'
    BY <1>11, <1>c DEF WrScan, RLTypeOK
  <2>5. p \in found => p \in found'
    BY <1>11, Zenon DEF WrScan
  <2>6. \A q \in dead : rpc[q] # "reading"
    BY <1>c, Zenon DEF RLCore, DeadOut
  <2>7. Own(p)
    BY <1>i, <2>1, <2>2, Zenon DEF Own
  <2>8. Pairs(p)
    <3>1. \A q \in Proc \ {p} : rpc[q] = "reading"
              => q \in todo[p] \/ p \in found \/ {p, q} \cap robbed # {}
      BY <1>c, <2>1, Zenon DEF RLCore, ScanSeesReaders, Reading
    <3> QED
      BY <2>1, <2>2, <2>4, <2>5, <2>6, <3>1, Zenon DEF Pairs
  <2> QED
    BY <1>c, <2>2, <2>3, <2>7, <2>8, OneMoves, Zenon
<1>12. ASSUME NEW p \in Proc, WrDone(p) PROVE RLCore'
  <2>1. CASE p \in found
    BY <1>8, <1>12, <2>1, Zenon DEF WrDone
  <2>2. CASE p \notin found
    <3>1. rpc[p] = "scan" /\ p \notin dead /\ todo[p] = {}
      BY <1>12, Zenon DEF WrDone
    <3>2. rpc'[p] = "writing" /\ RlOthers(p) /\ RdOthers(p)
      BY <1>12, <1>c, <2>2, ReturnMoves, Zenon DEF WrDone, RdOthers
    <3>3. LfOthers(p) /\ pc' = pc /\ dead' = dead /\ robbed' = robbed
      BY <1>12, <2>2, LfSame, Zenon DEF WrDone
    <3>4. Own(p)
      BY <1>i, <3>1, <3>2, <3>3, Zenon DEF Own
    <3>5. \A q \in Proc \ {p} : rpc[q] = "reading" => {p, q} \cap robbed # {}
      BY <1>c, <2>2, <3>1, Zenon DEF RLCore, ScanSeesReaders, Reading
    <3>6. Pairs(p)
      BY <3>2, <3>3, <3>5, Zenon DEF Pairs
    <3> QED
      BY <1>c, <3>2, <3>3, <3>4, <3>6, OneMoves, Zenon
  <2> QED
    BY <2>1, <2>2, Zenon
(* The write lock is given back, or turned into a read lock.               *)
<1>13. ASSUME NEW p \in Proc, WrUnlock(p) PROVE RLCore'
  <2>1. p \notin dead /\ rpc'[p] = "out" /\ RlOthers(p) /\ RdOthers(p)
    BY <1>13, <1>c, ReturnMoves, Zenon DEF WrUnlock, RdOthers
  <2>2. LfOthers(p) /\ pc'[p] = "idle" /\ dead' = dead
    BY <1>13, <1>c, LfReleased, Zenon DEF WrUnlock
  <2>3. Own(p) /\ Pairs(p)
    BY <2>1, <2>2, Zenon DEF Own, Pairs
  <2> QED
    BY <1>c, <2>1, <2>2, <2>3, OneMoves, Zenon
<1>14. ASSUME NEW p \in Proc, DgCreat(p) PROVE RLCore'
  <2>1. rpc[p] = "writing" /\ p \notin dead /\ rpc'[p] = "downgrade" /\ RlOthers(p)
    BY <1>14, <1>c, GotoMoves, Zenon DEF DgCreat
  <2>2. LfOthers(p) /\ pc' = pc /\ dead' = dead /\ robbed' = robbed
    BY <1>14, LfSame, Zenon DEF DgCreat
  <2>3. p \in readers' /\ RdOthers(p)
    BY <1>14, Zenon DEF DgCreat, RdOthers
  <2>4. Own(p)
    BY <1>i, <2>1, <2>2, <2>3, Zenon DEF Own
  <2>5. \A q \in Proc \ {p} : rpc[q] = "reading" => {p, q} \cap robbed # {}
    BY <1>c, <2>1, Zenon DEF RLCore, WriterNoReaders, Reading, Writing
  <2>6. Pairs(p)
    BY <2>1, <2>2, <2>5, Zenon DEF Pairs
  <2> QED
    BY <1>c, <2>1, <2>2, <2>3, <2>4, <2>6, OneMoves, Zenon
<1>15. ASSUME NEW p \in Proc, DgUnlock(p) PROVE RLCore'
  <2>1. /\ rpc[p] = "downgrade" /\ p \notin dead /\ rpc'[p] = "reading" /\ RlOthers(p)
        /\ readers' = readers
    BY <1>15, <1>c, ReturnMoves, Zenon DEF DgUnlock
  <2>2. LfOthers(p) /\ pc'[p] = "idle" /\ dead' = dead /\ robbed \subseteq robbed'
    BY <1>15, <1>c, LfReleased, Zenon DEF DgUnlock
  <2>3. RdOthers(p) /\ Own(p)
    BY <1>i, <2>1, <2>2, Zenon DEF Own, RdOthers
  <2>4. \A q \in Proc \ {p} : pc[q] = "held" => {p, q} \cap robbed' # {}
    BY <1>i, <1>h, <2>1, <2>2, Zenon
  <2>5. Pairs(p)
    BY <1>i, <2>1, <2>4, Zenon DEF Pairs
  <2> QED
    BY <1>c, <2>1, <2>2, <2>3, <2>5, OneMoves, Zenon
<1>16. ASSUME NEW p \in Proc, LookSweep(p) PROVE RLCore'
  <2>1. p \notin dead /\ pc[p] = "idle" /\ rpc'[p] = "out" /\ RlOthers(p)
    BY <1>16, <1>c, ReturnMoves, Zenon DEF LookSweep
  <2>2. LfOthers(p) /\ pc' = pc /\ dead' = dead /\ RdOthers(p)
    BY <1>16, Zenon DEF LookSweep, LfOthers, RdOthers
  <2>3. Own(p) /\ Pairs(p)
    BY <2>1, <2>2, Zenon DEF Own, Pairs
  <2> QED
    BY <1>c, <2>1, <2>2, <2>3, OneMoves, Zenon
<1>17. ASSUME NEW p \in Proc, ExitClean(p) \/ Die(p) PROVE RLCore'
  <2>1. rpc'[p] = "out" /\ RlOthers(p) /\ RdOthers(p)
    BY <1>17, <1>c, ReturnMoves, Zenon DEF ExitClean, Die, RdOthers
  <2>2. LfOthers(p) /\ pc'[p] = "idle"
    BY <1>17, <1>c, Zenon
    DEF ExitClean, Die, Exit, Crash, Unlink, Return, Goto, LfOthers, LFTypeOK
  <2>3. Own(p) /\ Pairs(p)
    BY <2>1, <2>2, Zenon DEF Own, Pairs
  <2> QED
    BY <1>c, <2>1, <2>2, <2>3, OneMoves, Zenon
(* The steps that move nobody, the administrator's among them.             *)
<1>18. ASSUME /\ UNCHANGED <<rpc, todo, found, pc, wait, dead>>
              /\ robbed \subseteq robbed'
              /\ \A q \in readers : q \in readers' \/ q \in robbed' \/ q \in dead
       PROVE  RLCore'
  <2>1. DeadOut' /\ InStep'
    BY <1>18, <1>c, Zenon DEF RLCore, DeadOut, InStep
  <2>2. ReaderHasFile'
    BY <1>18, <1>c, Zenon DEF RLCore, DeadOut, ReaderHasFile
  <2>3. ScanSeesReaders'
    BY <1>18, <1>c, Zenon DEF RLCore, ScanSeesReaders, Reading
  <2>4. WriterNoReaders'
    BY <1>18, <1>c, Zenon DEF RLCore, WriterNoReaders, Reading, Writing
  <2> QED
    BY <2>1, <2>2, <2>3, <2>4, Zenon DEF RLCore
<1>19. ASSUME NEW p \in Proc, MkResync(p) \/ RmResync(p) PROVE RLCore'
  BY <1>18, <1>19, Zenon DEF MkResync, RmResync, lfvars
<1>20. ASSUME SetGlobal \/ ForceRd \/ ForceWr \/ UNCHANGED vars PROVE RLCore'
  <2>1. CASE SetGlobal \/ UNCHANGED vars
    BY <1>18, <2>1, Zenon DEF SetGlobal, vars, lfvars, rlvars
  <2>2. CASE ForceRd
    BY <1>18, <1>c, <2>2, Zenon DEF ForceRd, RLTypeOK
  <2>3. CASE ForceWr
    BY <1>18, <2>3, Zenon DEF ForceWr, rlvars
  <2> QED
    BY <1>20, <2>1, <2>2, <2>3, Zenon
<1> QED
  BY <1>1, <1>2, <1>3, <1>4, <1>5, <1>6, <1>7, <1>9, <1>10, <1>11, <1>12,
     <1>13, <1>14, <1>15, <1>16, <1>17, <1>19, <1>20, Zenon
  DEF Next, Busy

(* The invariant of RepoLock holds in every reachable state.               *)
THEOREM RLInvariant == Spec => []RLInv
<1>1. RLInv /\ [Next]_vars => RLInv'
  BY LFCoreKept, RLTypeStep, RLCoreStep, Zenon DEF RLInv
<1> QED
  BY <1>1, RLInvInit, PTL DEF Spec

(* Types: the repository lock keeps its state well formed.                 *)
THEOREM RLTypeCorrect == Spec => []RLTypeOK
<1>1. RLInv => RLTypeOK
  BY Zenon DEF RLInv
<1> QED
  BY <1>1, RLInvariant, PTL

(* repository_wrlock() excludes readers and writers, for any number of     *)
(* processes, crashes and attempts, unless someone was robbed of a file.   *)
THEOREM RLWriterExcludes == Spec => []WriterExcludes
<1>1. RLInv => WriterExcludes
  BY Zenon DEF RLInv, RLCore, LFCore, HolderOwns, InStep, WriterNoReaders,
         WriterExcludes, Writing, Reading
<1> QED
  BY <1>1, RLInvariant, PTL

=============================================================================
