-------------------------- MODULE NestedLockProofs --------------------------
(***************************************************************************)
(* What the nested lock keeps for any number of sessions: that a write     *)
(* lock fences off every earlier id, whatever happens; that the mutex is   *)
(* one, if nobody times out on it; and that the lock excludes, if sessions *)
(* are known by their pids and nothing happens from outside.               *)
(***************************************************************************)
EXTENDS NestedLock, TLAPS

(* Where a function is, what it has of the repository lock and which id.   *)
Function(s) ==
    /\ pc[s] = "rest" <=> op[s] = "none"
    /\ pc[s] \in {"check", "write", "fill", "resync"} => op[s] \in {"wr", "rd"}
    /\ pc[s] \in {"remove", "sweep"} => op[s] = "un"
    /\ op[s] = "wr" /\ pc[s] # "release" => mode[s] = "write"
    /\ op[s] = "wr" /\ pc[s] = "release" => s \notin own
    /\ op[s] \in {"rd", "un"} => mode[s] # "none"
    /\ op[s] \in {"wr", "rd"} /\ pc[s] \in {"mutex", "check", "write"} => kind[s] = "none"
    /\ op[s] = "wr" /\ pc[s] \in {"fill", "resync"} => kind[s] = "w"
    /\ op[s] = "rd" /\ pc[s] \in {"fill", "resync"} => kind[s] = "r"
    /\ op[s] = "wr" => kind[s] # "r"
    /\ op[s] = "rd" => kind[s] # "w"
    /\ op[s] = "un" => kind[s] # "none"
    /\ s \in dead => pc[s] = "rest" /\ kind[s] = "none" /\ mode[s] = "none"

LockInv ==
    /\ \A s, t \in Sess : s # t /\ mode[s] = "write" => mode[t] = "none"
    /\ \A s \in Sess : Function(s)

(* nested_wrlock has found no lock, and nobody else can have taken one.    *)
Fence(s) ==
    op[s] = "wr" =>
       /\ pc[s] = "write" => nreaders = {}
       /\ kind[s] = "w" /\ pc[s] # "release" => OnDisk \subseteq {s}

FenceInv == \A s \in Sess : Fence(s)

Inv == NLTypeOK /\ LockInv /\ FenceInv

(* Without a timeout: who has the mutex.                                   *)
InMutex(s) == InRegion(s) \/ pc[s] = "release" \/ (pc[s] = "unlock" /\ op[s] = "wr")
MutexInv ==
    /\ \A s \in Live : InMutex(s) => mutex = s
    /\ \A s \in listed : s \in Live /\ mutex = s

(* With pids and without events from outside.                              *)
Quiet ==
    /\ \A s \in Live : s \in empty => pc[s] = "fill"
    /\ \A s \in Sess : Granted(s) => IF kind[s] = "w" THEN writer = s ELSE s \in nreaders
    /\ \A s \in Sess : pc[s] = "write" => writer \notin Live
    /\ \A s, t \in Sess : s # t /\ Granted(s) /\ kind[s] = "w" => ~Granted(t)
    /\ \A s \in Sess : Granted(s) /\ pc[s] \notin {"fill", "resync"} => nl
    /\ \A s \in Live : mutex = s => InMutex(s)
    /\ dead = {} /\ nl => OnDisk # {} \/ \E s \in Sess : pc[s] = "sweep"

-----------------------------------------------------------------------------

(* nested_forceUnlock comes only when no live session has the mutex, and   *)
(* only removes.                                                           *)
LEMMA Forced ==
    ASSUME NEW what, ForceUnlock(what)
    PROVE  /\ what \in Env
           /\ mutex \notin Live /\ mutex' = None
           /\ nl' = FALSE
           /\ nreaders' = {} \/ nreaders' = nreaders
           /\ writer' = None \/ writer' = writer
           /\ Reads(OnDisk) \/ age' = age
           /\ UNCHANGED <<mode, listed, empty, pc, op, own, kind, dead>>
<1>1. /\ what \in Env /\ mutex \notin Live /\ mutex' = None /\ nl' = FALSE
      /\ UNCHANGED <<mode, listed, empty, pc, op, own, kind, dead>>
  BY Zenon DEF ForceUnlock
<1>2. \/ nreaders' = {} /\ Reads(OnDisk) /\ UNCHANGED writer
      \/ writer' = None /\ UNCHANGED <<nreaders, age>>
  BY Zenon DEF ForceUnlock
<1> QED
  BY <1>1, <1>2, Zenon

(* Every step keeps the invariant, one action at a time.                   *)
LEMMA InvStep ==
    Inv /\ [Next]_vars => Inv'
<1> SUFFICES ASSUME Inv, [Next]_vars PROVE Inv'
  BY Zenon
<1> USE NestedNone
    DEF Inv, NLTypeOK, LockInv, Function, FenceInv, Fence, Live, At, disk,
        OnDisk, Lockers
<1>0. CASE UNCHANGED vars
  BY <1>0 DEF vars, disk
<1>1. ASSUME NEW s \in Sess, NestedWrlock(s) PROVE Inv'
  BY <1>1 DEF NestedWrlock, Enter, Goto, RW!Write, RW!Alone, RW!Set
<1>2. ASSUME NEW s \in Sess, NestedRdlock(s) PROVE Inv'
  BY <1>2 DEF NestedRdlock, Enter, Goto, RW!Read, RW!NoWriter, RW!Set
<1>3. ASSUME NEW s \in Sess, NestedUnlock(s) PROVE Inv'
  BY <1>3 DEF NestedUnlock, Enter, Goto, MineReads, Reads,
      RW!Read, RW!NoWriter, RW!Write, RW!Alone, RW!Set
<1>4. ASSUME NEW s \in Sess, NestedUnlockFails(s) PROVE Inv'
  BY <1>4 DEF NestedUnlockFails, MineReads, Reads
<1>5. ASSUME NEW s \in Sess, Acquire(s) PROVE Inv'
  BY <1>5 DEF Acquire, Goto
<1>6. ASSUME NEW s \in Sess, MutexTimeout(s) PROVE Inv'
  BY <1>6 DEF MutexTimeout, Goto
<1>7. ASSUME NEW s \in Sess, WrCheck(s) PROVE Inv'
  BY <1>7 DEF WrCheck, RemoveStale, Reads, Goto
<1>8. ASSUME NEW s \in Sess, RdCheck(s) PROVE Inv'
  BY <1>8 DEF RdCheck, Reads, Goto
<1>9. ASSUME NEW s \in Sess, Write(s) PROVE Inv'
  BY <1>9 DEF Write, Goto
<1>10. ASSUME NEW s \in Sess, WriteFails(s) PROVE Inv'
  BY <1>10 DEF WriteFails, Goto
<1>11. ASSUME NEW s \in Sess, Fill(s) PROVE Inv'
  BY <1>11 DEF Fill, Goto
<1>12. ASSUME NEW s \in Sess, LockResync(s) PROVE Inv'
  BY <1>12 DEF LockResync, Goto
<1>13. ASSUME NEW s \in Sess, LockResyncFails(s) PROVE Inv'
  BY <1>13 DEF LockResyncFails, Goto
<1>14. ASSUME NEW s \in Sess, Remove(s) PROVE Inv'
  BY <1>14 DEF Remove, Goto
<1>15. ASSUME NEW s \in Sess, Sweep(s) PROVE Inv'
  BY <1>15 DEF Sweep, RemoveStale, Reads, Goto
<1>16. ASSUME NEW s \in Sess, Release(s) PROVE Inv'
  <2>1. NLTypeOK'
    BY <1>16 DEF Release, Return, Goto
  <2>2. LockInv'
    BY <1>16 DEF Release, Return, Goto
  <2>3. FenceInv'
    BY <1>16 DEF Release, Return, Goto
  <2> QED
    BY <2>1, <2>2, <2>3, Zenon
<1>17. ASSUME NEW s \in Sess, Unlock(s) PROVE Inv'
  <2>1. NLTypeOK'
    BY <1>17 DEF Unlock, Return, Goto, RW!Release, RW!Set
  <2>2. LockInv'
    BY <1>17 DEF Unlock, Return, Goto, RW!Release, RW!Set
  <2>3. FenceInv'
    BY <1>17 DEF Unlock, Return, Goto, RW!Release, RW!Set
  <2> QED
    BY <2>1, <2>2, <2>3, Zenon
<1>18. ASSUME NEW s \in Sess, Use(s) PROVE Inv'
  BY <1>18 DEF Use, MineReads, Reads
<1>19. ASSUME NEW s \in Sess, RepositoryLock(s) PROVE Inv'
  BY <1>19 DEF RepositoryLock, RW!Read, RW!NoWriter, RW!Write, RW!Alone,
      RW!Downgrade, RW!Release, RW!Set
<1>20. ASSUME NEW s \in Sess, Gone(s) PROVE Inv'
  <2>1. NLTypeOK'
    BY <1>20 DEF Gone, Goto
  <2>0. /\ s \in Live /\ mode'[s] = "none" /\ pc'[s] = "rest" /\ op'[s] = "none" /\ kind'[s] = "none"
        /\ \A q \in Sess : q # s => /\ mode'[q] = mode[q] /\ pc'[q] = pc[q]
                                   /\ op'[q] = op[q] /\ kind'[q] = kind[q]
        /\ own' = own \ {s} /\ dead' = dead \cup {s}
        /\ nreaders' = nreaders /\ writer' = writer
    BY <1>20 DEF Gone, Goto
  <2>2. LockInv'
    BY <2>0
  <2>3. FenceInv'
    BY <2>0
  <2> QED
    BY <2>1, <2>2, <2>3, Zenon
<1>21. ASSUME NEW s \in Sess, TimePasses(s) PROVE Inv'
  BY <1>21 DEF TimePasses
<1>22. ASSUME NEW what, ForceUnlock(what) PROVE Inv'
  <2>0. /\ mutex' = None /\ nl' = FALSE
        /\ nreaders' = {} \/ nreaders' = nreaders
        /\ writer' = None \/ writer' = writer
        /\ UNCHANGED <<mode, listed, empty, pc, op, own, kind, dead>>
    BY <1>22, Forced, Zenon
  <2>4. age' \in [Sess -> {"fresh", "idle", "aged"}]
    <3>1. Reads(OnDisk) \/ age' = age
      BY <1>22, Forced, Zenon
    <3> QED
      BY <3>1 DEF Reads
  <2>5. writer' \in Sess \cup {None} /\ nreaders' \subseteq Sess
    BY <2>0
  <2>6. own' \subseteq {q \in Live' : mode'[q] # "none" /\ pc'[q] # "rest"}
    BY <2>0
  <2>1. NLTypeOK'
    BY <2>0, <2>4, <2>5, <2>6, Zenon
  <2>2. LockInv'
    BY <2>0
  <2>3. FenceInv'
    BY <2>0, Zenon
  <2> QED
    BY <2>1, <2>2, <2>3, Zenon
<1>23. CASE ListLocks
  <2>0. /\ nreaders' \subseteq nreaders
        /\ UNCHANGED <<mode, mutex, listed, writer, empty, nl, pc, op, own, kind, dead>>
    BY <1>23, Zenon DEF ListLocks, RemoveStale
  <2>1. age' \in [Sess -> {"fresh", "idle", "aged"}]
    BY <1>23, Zenon DEF ListLocks, RemoveStale, Reads
  <2>2. own' \subseteq {q \in Live' : mode'[q] # "none" /\ pc'[q] # "rest"}
    BY <2>0
  <2>3. NLTypeOK'
    BY <2>0, <2>1, <2>2, Zenon
  <2>4. LockInv'
    BY <2>0
  <2>5. FenceInv'
    BY <2>0
  <2> QED
    BY <2>3, <2>4, <2>5, Zenon
<1> QED
  BY <1>0, <1>1, <1>2, <1>3, <1>4, <1>5, <1>6, <1>7, <1>8, <1>9, <1>10, <1>11, <1>12,
     <1>13, <1>14, <1>15, <1>16, <1>17, <1>18, <1>19, <1>20, <1>21, <1>22, <1>23, Zenon
  DEF Next, Busy

(* Without timeouts the mutex passes only from a live session that is done *)
(* with it, or from one that is gone.                                      *)
LEMMA MutexStep ==
    Inv /\ MutexInv /\ "stall" \notin Env /\ [Next]_vars => MutexInv'
<1> SUFFICES ASSUME Inv, MutexInv, "stall" \notin Env, [Next]_vars PROVE MutexInv'
  BY Zenon
<1> USE NestedNone
    DEF Inv, NLTypeOK, LockInv, Function, MutexInv, InMutex, InRegion, Live,
        At, disk
<1>0. CASE UNCHANGED vars
  BY <1>0, Zenon DEF vars, disk
<1>1. ASSUME NEW s \in Sess, NestedWrlock(s) PROVE MutexInv'
  BY <1>1 DEF NestedWrlock, Enter, Goto
<1>2. ASSUME NEW s \in Sess, NestedRdlock(s) PROVE MutexInv'
  BY <1>2 DEF NestedRdlock, Enter, Goto
<1>3. ASSUME NEW s \in Sess, NestedUnlock(s) PROVE MutexInv'
  BY <1>3 DEF NestedUnlock, Enter, Goto
<1>4. ASSUME NEW s \in Sess, NestedUnlockFails(s) PROVE MutexInv'
  BY <1>4, Zenon DEF NestedUnlockFails
<1>5. ASSUME NEW s \in Sess, Acquire(s) PROVE MutexInv'
  BY <1>5 DEF Acquire, Goto
<1>6. ASSUME NEW s \in Sess, MutexTimeout(s) PROVE MutexInv'
  BY <1>6, Zenon DEF MutexTimeout, Goto
<1>7. ASSUME NEW s \in Sess, WrCheck(s) PROVE MutexInv'
  BY <1>7 DEF WrCheck, Goto
<1>8. ASSUME NEW s \in Sess, RdCheck(s) PROVE MutexInv'
  BY <1>8 DEF RdCheck, Goto
<1>9. ASSUME NEW s \in Sess, Write(s) PROVE MutexInv'
  BY <1>9 DEF Write, Goto
<1>10. ASSUME NEW s \in Sess, WriteFails(s) PROVE MutexInv'
  BY <1>10 DEF WriteFails, Goto
<1>11. ASSUME NEW s \in Sess, Fill(s) PROVE MutexInv'
  BY <1>11 DEF Fill, Goto
<1>12. ASSUME NEW s \in Sess, LockResync(s) PROVE MutexInv'
  BY <1>12 DEF LockResync, Goto
<1>13. ASSUME NEW s \in Sess, LockResyncFails(s) PROVE MutexInv'
  BY <1>13 DEF LockResyncFails, Goto
<1>14. ASSUME NEW s \in Sess, Remove(s) PROVE MutexInv'
  BY <1>14 DEF Remove, Goto
<1>15. ASSUME NEW s \in Sess, Sweep(s) PROVE MutexInv'
  BY <1>15 DEF Sweep, Goto
<1>16. ASSUME NEW s \in Sess, Release(s) PROVE MutexInv'
  BY <1>16 DEF Release, Return, Goto
<1>17. ASSUME NEW s \in Sess, Unlock(s) PROVE MutexInv'
  BY <1>17 DEF Unlock, Return, Goto
<1>18. ASSUME NEW s \in Sess, Use(s) PROVE MutexInv'
  BY <1>18, Zenon DEF Use
<1>19. ASSUME NEW s \in Sess, RepositoryLock(s) PROVE MutexInv'
  BY <1>19, Zenon DEF RepositoryLock
<1>20. ASSUME NEW s \in Sess, Gone(s) PROVE MutexInv'
  BY <1>20 DEF Gone, Goto
<1>21. ASSUME NEW s \in Sess, TimePasses(s) PROVE MutexInv'
  BY <1>21, Zenon DEF TimePasses
<1>22. ASSUME NEW what, ForceUnlock(what) PROVE MutexInv'
  <2>1. mutex \notin Live /\ UNCHANGED <<listed, pc, op, dead>>
    BY <1>22, Forced, Zenon
  <2> QED
    BY <2>1
<1>23. CASE ListLocks
  <2>1. UNCHANGED <<mutex, listed, pc, op, dead>>
    BY <1>23, Zenon DEF ListLocks
  <2> QED
    BY <2>1, Zenon
<1> QED
  BY <1>0, <1>1, <1>2, <1>3, <1>4, <1>5, <1>6, <1>7, <1>8, <1>9, <1>10, <1>11, <1>12,
     <1>13, <1>14, <1>15, <1>16, <1>17, <1>18, <1>19, <1>20, <1>21, <1>22, <1>23, Zenon
  DEF Next, Busy

(* With pids a live session is stale to nobody, since its file is empty    *)
(* only while it has the mutex; so its id stays until it unlocks.          *)
LEMMA QuietStep ==
    Inv /\ MutexInv /\ Quiet /\ Http = {} /\ Env = {} /\ [Next]_vars => Quiet'
<1> SUFFICES ASSUME Inv, MutexInv, Quiet, Http = {}, Env = {}, [Next]_vars
             PROVE  Quiet'
  BY Zenon
<1> USE NestedNone
    DEF Inv, NLTypeOK, LockInv, Function, FenceInv, Fence, MutexInv,
        InMutex, InRegion, Quiet, Granted, Mine, Live, At, disk, OnDisk,
        Lockers, IsStale
<1>0. CASE UNCHANGED vars
  BY <1>0 DEF vars, disk
<1>1. ASSUME NEW s \in Sess, NestedWrlock(s) PROVE Quiet'
  BY <1>1 DEF NestedWrlock, Enter, Goto, RW!Write, RW!Alone, RW!Set
<1>2. ASSUME NEW s \in Sess, NestedRdlock(s) PROVE Quiet'
  BY <1>2 DEF NestedRdlock, Enter, Goto, RW!Read, RW!NoWriter, RW!Set
<1>3. ASSUME NEW s \in Sess, NestedUnlock(s) PROVE Quiet'
  BY <1>3 DEF NestedUnlock, Enter, Goto,
      RW!Read, RW!NoWriter, RW!Write, RW!Alone, RW!Set
<1>4. ASSUME NEW s \in Sess, NestedUnlockFails(s) PROVE Quiet'
  BY <1>4 DEF NestedUnlockFails
<1>5. ASSUME NEW s \in Sess, Acquire(s) PROVE Quiet'
  BY <1>5 DEF Acquire, Goto
<1>6. ASSUME NEW s \in Sess, MutexTimeout(s) PROVE Quiet'
  BY <1>6, Zenon DEF MutexTimeout, Goto
<1>7. ASSUME NEW s \in Sess, WrCheck(s) PROVE Quiet'
  BY <1>7 DEF WrCheck, RemoveStale, Goto
<1>8. ASSUME NEW s \in Sess, RdCheck(s) PROVE Quiet'
  BY <1>8 DEF RdCheck, Goto
<1>9. ASSUME NEW s \in Sess, Write(s) PROVE Quiet'
  BY <1>9 DEF Write, Goto
<1>10. ASSUME NEW s \in Sess, WriteFails(s) PROVE Quiet'
  BY <1>10, Zenon DEF WriteFails, Goto
<1>11. ASSUME NEW s \in Sess, Fill(s) PROVE Quiet'
  BY <1>11 DEF Fill, Goto
<1>12. ASSUME NEW s \in Sess, LockResync(s) PROVE Quiet'
  BY <1>12 DEF LockResync, Goto
<1>13. ASSUME NEW s \in Sess, LockResyncFails(s) PROVE Quiet'
  BY <1>13, Zenon DEF LockResyncFails, Goto
<1>14. ASSUME NEW s \in Sess, Remove(s) PROVE Quiet'
  BY <1>14 DEF Remove, Goto
<1>15. ASSUME NEW s \in Sess, Sweep(s) PROVE Quiet'
  <2>0. /\ pc[s] = "sweep" /\ op[s] = "un" /\ s \in Live /\ mutex = s
        /\ pc' = [pc EXCEPT ![s] = "release"]
        /\ nreaders' = {q \in nreaders : ~IsStale(q)}
        /\ nl' = (nl /\ Lockers # {})
        /\ UNCHANGED <<mode, mutex, listed, writer, empty, op, own, kind, dead>>
    BY <1>15, Zenon DEF Sweep, RemoveStale, Goto
  <2>1. \A q \in Live : ~IsStale(q)
    BY <2>0, Zenon
  <2>2. \A q \in Sess : Granted(q)' <=> Granted(q)
    BY <2>0
  <2>3. \A q \in Sess : Granted(q)' => q \in Lockers /\ (q \in nreaders => q \in nreaders')
    BY <2>0, <2>1, <2>2
  <2>4. \A q \in Sess : Granted(q)' => nl'
    BY <2>0, <2>2, <2>3
  <2>5. dead' = {} /\ nl' => OnDisk' # {}
    <3> SUFFICES ASSUME nl' PROVE OnDisk' # {}
      BY Zenon
    <3>1. PICK q \in Lockers : TRUE
      <4>1. Lockers # {}
        BY <2>0, Zenon
      <4> HIDE DEF Lockers
      <4> QED
        BY <4>1, Zenon
    <3>2. q \in nreaders' \/ (q = writer' /\ q # None)
      BY <2>0, <3>1, Zenon
    <3> QED
      BY <3>2, Zenon
  <2> QED
    BY <2>0, <2>2, <2>3, <2>4, <2>5
<1>16. ASSUME NEW s \in Sess, Release(s) PROVE Quiet'
  BY <1>16 DEF Release, Return, Goto
<1>17. ASSUME NEW s \in Sess, Unlock(s) PROVE Quiet'
  <2>0. /\ pc[s] = "unlock" /\ s \in Live
        /\ \A q \in Sess : q # s => pc'[q] = pc[q] /\ op'[q] = op[q] /\ kind'[q] = kind[q]
        /\ \/ op[s] = "wr" /\ pc'[s] = "release" /\ op'[s] = op[s] /\ kind'[s] = kind[s]
           \/ /\ op[s] # "wr" /\ pc'[s] = "rest" /\ op'[s] = "none"
              /\ kind'[s] = IF op[s] = "un" THEN "none" ELSE kind[s]
        /\ UNCHANGED <<mutex, writer, nreaders, empty, nl, dead>>
    BY <1>17 DEF Unlock, Return, Goto
  <2>1. \A q \in Sess : Granted(q)' <=> Granted(q) /\ kind'[q] = kind[q]
    BY <2>0
  <2> QED
    BY <2>0, <2>1
<1>18. ASSUME NEW s \in Sess, Use(s) PROVE Quiet'
  BY <1>18 DEF Use
<1>19. ASSUME NEW s \in Sess, RepositoryLock(s) PROVE Quiet'
  BY <1>19 DEF RepositoryLock, RW!Read, RW!NoWriter, RW!Write, RW!Alone,
      RW!Downgrade, RW!Release, RW!Set
<1>20. ASSUME NEW s \in Sess, Gone(s) PROVE Quiet'
  BY <1>20 DEF Gone, Goto
<1>21. ASSUME NEW s \in Sess, TimePasses(s) PROVE Quiet'
  BY <1>21, Zenon DEF TimePasses
<1>22. ASSUME NEW what, ForceUnlock(what) PROVE Quiet'
  BY <1>22, Forced, Zenon
<1>23. CASE ListLocks
  BY <1>23, Zenon DEF ListLocks
<1> QED
  BY <1>0, <1>1, <1>2, <1>3, <1>4, <1>5, <1>6, <1>7, <1>8, <1>9, <1>10, <1>11, <1>12,
     <1>13, <1>14, <1>15, <1>16, <1>17, <1>18, <1>19, <1>20, <1>21, <1>22, <1>23, Zenon
  DEF Next, Busy

(* The invariant of every product: any sessions, any events.               *)
THEOREM NLInvariant == Spec => []Inv
<1>1. Init => Inv
  <2>1. Init => NLTypeOK
    BY NestedNone, Zenon DEF Init, RW!Init, NLTypeOK, Live
  <2>2. Init => LockInv
    BY DEF Init, RW!Init, LockInv, Function
  <2>3. Init => FenceInv
    BY Zenon DEF Init, FenceInv, Fence
  <2> QED
    BY <2>1, <2>2, <2>3, Zenon DEF Inv
<1> QED
  BY <1>1, InvStep, PTL DEF Spec

(* Types: every variable keeps its range, and a function that took the     *)
(* repository lock still has it.                                           *)
THEOREM NLTypeCorrect == Spec => []NLTypeOK
<1>1. Inv => NLTypeOK
  BY Zenon DEF Inv
<1> QED
  BY <1>1, NLInvariant, PTL

(* A write lock is granted only when every earlier id is gone from the     *)
(* disk: for any sessions, with ids that expire, forced unlocking,         *)
(* listings, stalls under the mutex and failing writes.                    *)
THEOREM NLFences == Spec => []GrantFences
<1>1. Inv => GrantFences
  BY Zenon DEF Inv, FenceInv, Fence, GrantFences, Live
<1> QED
  BY <1>1, NLInvariant, PTL

(* Who has the mutex, if nobody waits for it for more than 120 seconds.    *)
THEOREM NLMutexInvariant == "stall" \notin Env => (Spec => []MutexInv)
<1> SUFFICES ASSUME "stall" \notin Env PROVE Spec => []MutexInv
  BY Zenon
<1>1. Init => MutexInv
  BY Zenon DEF Init, MutexInv, InMutex, InRegion, Live
<1>2. Inv /\ MutexInv /\ [Next]_vars => MutexInv'
  BY MutexStep, Zenon
<1> QED
  BY <1>1, <1>2, NLInvariant, PTL DEF Spec

(* What a session does between nlock_acquire and nlock_release it does     *)
(* alone, if nobody stalls: kills, forced unlocking and failing writes do  *)
(* not take the mutex away.                                                *)
THEOREM NLOwnsMutex == "stall" \notin Env => (Spec => []OwnsMutex)
<1> SUFFICES ASSUME "stall" \notin Env PROVE Spec => []OwnsMutex
  BY Zenon
<1>1. MutexInv => OwnsMutex
  BY Zenon DEF MutexInv, InMutex, OwnsMutex
<1> QED
  BY <1>1, NLMutexInvariant, PTL

(* The invariant of a product used by processes only, that are killed but  *)
(* not robbed.                                                             *)
THEOREM NLQuiet == Http = {} /\ Env = {} => (Spec => [](Inv /\ MutexInv /\ Quiet))
<1> SUFFICES ASSUME Http = {}, Env = {} PROVE Spec => [](Inv /\ MutexInv /\ Quiet)
  BY Zenon
<1>1. "stall" \notin Env
  BY Zenon
<1>2. Init => Quiet
  BY NestedNone DEF Init, Quiet, Granted, InMutex, InRegion, Live
<1>3. Inv /\ MutexInv /\ Quiet /\ [Next]_vars => Quiet'
  BY QuietStep, Zenon
<1>4. Spec => []MutexInv
  BY <1>1, NLMutexInvariant, Zenon
<1> QED
  BY <1>2, <1>3, <1>4, NLInvariant, PTL DEF Spec

(* While an id with write access is accepted no other id is.               *)
THEOREM NLExclusion == Http = {} /\ Env = {} => (Spec => []NestedExclusion)
<1> SUFFICES ASSUME Http = {}, Env = {} PROVE Spec => []NestedExclusion
  BY Zenon
<1>1. Inv /\ MutexInv /\ Quiet => NestedExclusion
  BY DEF Inv, LockInv, Function, Quiet, Granted, NestedExclusion, Holds, At
<1> QED
  BY <1>1, NLQuiet, PTL

(* A live session that was given an id has its file.                       *)
THEOREM NLHeldOnDisk == Http = {} /\ Env = {} => (Spec => []HeldOnDisk)
<1> SUFFICES ASSUME Http = {}, Env = {} PROVE Spec => []HeldOnDisk
  BY Zenon
<1>1. Inv /\ MutexInv /\ Quiet => HeldOnDisk
  BY DEF Inv, NLTypeOK, LockInv, Function, Quiet, Granted, HeldOnDisk, Mine, At
<1> QED
  BY <1>1, NLQuiet, PTL

(* RESYNC/.bk_nl is there as long as anyone holds a nested lock.           *)
THEOREM NLResyncHeld == Http = {} /\ Env = {} => (Spec => []ResyncHeld)
<1> SUFFICES ASSUME Http = {}, Env = {} PROVE Spec => []ResyncHeld
  BY Zenon
<1>1. Inv /\ MutexInv /\ Quiet => ResyncHeld
  BY Zenon DEF Inv, LockInv, Function, Quiet, Granted, ResyncHeld, Holds, At
<1> QED
  BY <1>1, NLQuiet, PTL

(* Unless somebody was killed, no RESYNC/.bk_nl outlives the last lock.    *)
THEOREM NLQuietClean == Http = {} /\ Env = {} => (Spec => []QuietClean)
<1> SUFFICES ASSUME Http = {}, Env = {} PROVE Spec => []QuietClean
  BY Zenon
<1>1. Inv /\ MutexInv /\ Quiet => QuietClean
  BY Zenon DEF Quiet, QuietClean
<1> QED
  BY <1>1, NLQuiet, PTL

(* No nested function returns with the mutex held.                         *)
THEOREM NLMutexReturned == Http = {} /\ Env = {} => (Spec => []MutexReturned)
<1> SUFFICES ASSUME Http = {}, Env = {} PROVE Spec => []MutexReturned
  BY Zenon
<1>1. Inv /\ MutexInv /\ Quiet => MutexReturned
  BY Zenon DEF Quiet, InMutex, InRegion, MutexReturned, At
<1> QED
  BY <1>1, NLQuiet, PTL

-----------------------------------------------------------------------------

(* A step of s leaves the locks of the others alone.                       *)
OthersKeep(s) ==
    \A q \in Sess \ {s} :
        /\ pc'[q] = pc[q] /\ op'[q] = op[q] /\ kind'[q] = kind[q]
        /\ q \in dead' <=> q \in dead

(* Then at most the lock of s changes.                                     *)
LEMMA OthersModes ==
    ASSUME NEW s \in Sess, OthersKeep(s)
    PROVE  NestedMode' = [NestedMode EXCEPT ![s] = NestedMode'[s]]
<1>1. \A q \in Sess : q # s => (Granted(q)' <=> Granted(q)) /\ kind'[q] = kind[q]
  BY DEF OthersKeep, Granted, Live
<1>2. \A q \in Sess : q # s => NestedMode'[q] = NestedMode[q]
  BY <1>1, Zenon DEF NestedMode
<1>3. /\ NestedMode = [q \in Sess |-> NestedMode[q]]
      /\ NestedMode' = [q \in Sess |-> NestedMode'[q]]
  BY DEF NestedMode
<1> HIDE DEF NestedMode
<1> QED
  BY <1>2, <1>3

(* A session whose step gives it no lock keeps the one it has or gives it  *)
(* back, which is a step of the readers-writer lock.                       *)
LEMMA GivesBack ==
    ASSUME NEW s \in Sess, OthersKeep(s),
           kind'[s] = "none" \/ (kind'[s] = kind[s] /\ (Granted(s)' => Granted(s)))
    PROVE  [NestedRW!Next]_NestedMode
<1>1. NestedMode'[s] \in {NestedMode[s], "none"}
  <2>1. CASE ~Granted(s)'
    BY <2>1, Zenon DEF NestedMode
  <2>2. CASE Granted(s)'
    <3>1. kind'[s] # "none"
      BY <2>2, Zenon DEF Granted
    <3>2. Granted(s) /\ kind'[s] = kind[s]
      BY <2>2, <3>1, Zenon
    <3> QED
      BY <2>2, <3>2, Zenon DEF NestedMode
  <2> QED
    BY <2>1, <2>2, Zenon
<1>2. NestedMode = [q \in Sess |-> NestedMode[q]]
  BY Zenon DEF NestedMode
<1>3. CASE NestedMode'[s] = NestedMode[s]
  <2>1. NestedMode' = NestedMode
    BY <1>2, <1>3, OthersModes
  <2> QED
    BY <2>1, Zenon
<1>4. CASE NestedMode'[s] # NestedMode[s]
  <2>1. NestedRW!Release(s)
    BY <1>1, <1>4, OthersModes, Zenon DEF NestedRW!Release, NestedRW!Set
  <2> QED
    BY <2>1, Zenon DEF NestedRW!Next
<1> QED
  BY <1>3, <1>4, Zenon

(* Fprintf of the lock file is the one step that takes a lock: nobody else *)
(* is in its way then.                                                     *)
LEMMA WriteTakes ==
    ASSUME Inv, MutexInv, Quiet, Http = {}, Env = {}, NEW s \in Sess, Write(s)
    PROVE  [NestedRW!Next]_NestedMode
<1>1. /\ pc[s] = "write" /\ s \in Live /\ op[s] \in {"wr", "rd"} /\ kind[s] = "none"
      /\ op' = op /\ dead' = dead /\ OthersKeep(s)
      /\ kind'[s] = IF op[s] = "wr" THEN "w" ELSE "r"
  BY DEF Inv, NLTypeOK, LockInv, Function, Write, At, Goto, OthersKeep
<1>2. NestedMode[s] = "none"
  BY <1>1, Zenon DEF NestedMode, Granted
<1>3. NestedMode'[s] = IF op[s] = "wr" THEN "write" ELSE "read"
  <2>1. Granted(s)'
    BY <1>1, Zenon DEF Granted, Live
  <2> QED
    BY <1>1, <2>1, Zenon DEF NestedMode
<1>4. writer \notin Live
  BY <1>1, Zenon DEF Quiet
<1>5. \A q \in Sess : Granted(q) => kind[q] # "w"
  BY <1>4, Zenon DEF Quiet, Granted
<1>6. CASE op[s] = "wr"
  <2>1. nreaders = {}
    BY <1>1, <1>6, Zenon DEF Inv, FenceInv, Fence
  <2>2. \A q \in Sess : ~Granted(q)
    BY <1>5, <2>1, Zenon DEF Quiet
  <2>3. NestedRW!Write(s)
    BY <1>1, <1>2, <1>3, <1>6, <2>2, OthersModes, Zenon
    DEF NestedRW!Write, NestedRW!Alone, NestedRW!Set, NestedMode
  <2> QED
    BY <2>3, Zenon DEF NestedRW!Next
<1>7. CASE op[s] = "rd"
  <2>1. NestedRW!NoWriter
    BY <1>5, Zenon DEF NestedRW!NoWriter, NestedMode
  <2>2. NestedRW!Read(s)
    BY <1>1, <1>2, <1>3, <1>7, <2>1, OthersModes, Zenon DEF NestedRW!Read, NestedRW!Set
  <2> QED
    BY <2>2, Zenon DEF NestedRW!Next
<1> QED
  BY <1>1, <1>6, <1>7, Zenon

(* Every step, one action or a group of them at a time.                    *)
LEMMA NestedFollows ==
    Inv /\ MutexInv /\ Quiet /\ Http = {} /\ Env = {} /\ [Next]_vars
       => [NestedRW!Next]_NestedMode
<1> SUFFICES ASSUME Inv, MutexInv, Quiet, Http = {}, Env = {}, [Next]_vars
             PROVE  [NestedRW!Next]_NestedMode
  BY Zenon
<1>t. /\ DOMAIN pc = Sess /\ DOMAIN op = Sess /\ DOMAIN kind = Sess
      /\ \A s \in Sess : pc[s] = "rest" => op[s] = "none"
  BY DEF Inv, NLTypeOK, LockInv, Function
<1>0. ASSUME UNCHANGED <<pc, op, kind, dead>> PROVE [NestedRW!Next]_NestedMode
  <2>1. NestedMode' = NestedMode
    BY <1>0, Zenon DEF NestedMode, Granted, Live
  <2> QED
    BY <2>1, Zenon
<1>1. ASSUME NEW s \in Sess, \/ NestedWrlock(s) \/ NestedRdlock(s) \/ NestedUnlock(s)
                            \/ Acquire(s) \/ WrCheck(s) \/ RdCheck(s) \/ Fill(s)
                            \/ LockResync(s) \/ Remove(s) \/ Sweep(s)
      PROVE  [NestedRW!Next]_NestedMode
  <2>0. kind' = kind /\ dead' = dead
    BY <1>1, Zenon DEF NestedWrlock, NestedRdlock, NestedUnlock, Enter, Acquire, WrCheck, RdCheck,
       Fill, LockResync, Remove, Sweep
  <2>1. CASE NestedWrlock(s) \/ NestedRdlock(s) \/ NestedUnlock(s)
    <3>1. /\ pc[s] = "rest" /\ pc' = [pc EXCEPT ![s] = "mutex"]
          /\ op' = [op EXCEPT ![s] = op'[s]]
      BY <1>t, <2>1 DEF NestedWrlock, NestedRdlock, NestedUnlock, Enter, At, Goto
    <3>2. OthersKeep(s)
      BY <1>t, <2>0, <3>1 DEF OthersKeep
    <3>3. Granted(s)' => Granted(s)
      BY <1>t, <2>0, <3>1, Zenon DEF Granted, Live
    <3> QED
      BY <2>0, <3>2, <3>3, GivesBack, Zenon
  <2>2. CASE \/ Acquire(s) \/ WrCheck(s) \/ RdCheck(s) \/ Fill(s)
             \/ LockResync(s) \/ Remove(s) \/ Sweep(s)
    <3>1. /\ op' = op /\ pc' = [pc EXCEPT ![s] = pc'[s]]
          /\ op[s] = "un" /\ pc'[s] \in {"mutex", "remove"} => pc[s] = "mutex"
      BY <1>t, <2>2 DEF Acquire, WrCheck, RdCheck, Fill, LockResync, Remove, Sweep, At, Goto
    <3>2. OthersKeep(s)
      BY <1>t, <2>0, <3>1 DEF OthersKeep
    <3>3. Granted(s)' => Granted(s)
      BY <2>0, <3>1, Zenon DEF Granted, Live
    <3> QED
      BY <2>0, <3>2, <3>3, GivesBack, Zenon
  <2> QED
    BY <1>1, <2>1, <2>2, Zenon
<1>2. ASSUME NEW s \in Sess, Release(s) \/ Unlock(s) PROVE [NestedRW!Next]_NestedMode
  <2>1. OthersKeep(s)
    BY <1>t, <1>2 DEF Release, Unlock, Return, Goto, OthersKeep
  <2>2. kind'[s] = "none" \/ (kind'[s] = kind[s] /\ (Granted(s)' => Granted(s)))
    BY <1>t, <1>2 DEF Release, Unlock, Return, Goto, Granted, Live, At
  <2> QED
    BY <2>1, <2>2, GivesBack, Zenon
<1>3. ASSUME NEW s \in Sess, NestedUnlockFails(s) \/ Use(s) \/ Gone(s)
      PROVE  [NestedRW!Next]_NestedMode
  <2>1. OthersKeep(s)
    BY <1>t, <1>3 DEF NestedUnlockFails, Use, Gone, Goto, OthersKeep
  <2>2. kind'[s] = "none" \/ (kind'[s] = kind[s] /\ (Granted(s)' => Granted(s)))
    BY <1>t, <1>3 DEF NestedUnlockFails, Use, Gone, Goto, Granted, Live, At
  <2> QED
    BY <2>1, <2>2, GivesBack, Zenon
<1>4. ASSUME NEW s \in Sess, Write(s) PROVE [NestedRW!Next]_NestedMode
  BY <1>4, WriteTakes, Zenon
<1>5. ASSUME NEW s \in Sess, MutexTimeout(s) \/ WriteFails(s) \/ LockResyncFails(s) PROVE FALSE
  BY <1>5, Zenon DEF MutexTimeout, WriteFails, LockResyncFails
<1>6. ASSUME NEW s \in Sess, RepositoryLock(s) \/ TimePasses(s) PROVE [NestedRW!Next]_NestedMode
  BY <1>0, <1>6, Zenon DEF RepositoryLock, TimePasses
<1>7. ASSUME NEW what, ForceUnlock(what) PROVE FALSE
  BY <1>7, Zenon DEF ForceUnlock
<1>8. CASE ListLocks
  BY <1>8, Zenon DEF ListLocks
<1>9. CASE UNCHANGED vars
  BY <1>0, <1>9, Zenon DEF vars
<1> QED
  BY <1>1, <1>2, <1>3, <1>4, <1>5, <1>6, <1>7, <1>8, <1>9, Zenon DEF Next, Busy

(* With ids of processes, and no event from outside but kills, the nested  *)
(* lock is a readers-writer lock over all components of a product.         *)
THEOREM NLImplements == Http = {} /\ Env = {} => (Spec => ImplementsNestedLock)
<1> SUFFICES ASSUME Http = {}, Env = {} PROVE Spec => ImplementsNestedLock
  BY Zenon
<1>1. Init => NestedRW!Init
  BY Zenon DEF Init, NestedRW!Init, NestedMode, Granted
<1>2. Inv /\ MutexInv /\ Quiet /\ [Next]_vars => [NestedRW!Next]_NestedMode
  BY NestedFollows, Zenon
<1> QED
  BY <1>1, <1>2, NLQuiet, PTL DEF Spec, ImplementsNestedLock, NestedRW!Spec

=============================================================================
