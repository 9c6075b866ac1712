---------------------------- MODULE ApplyProofs ----------------------------
(***************************************************************************)
(* An update of any number of files, with any renames, with bk undo beside *)
(* it: its types, what pass 4 has linked, and where the old files are.     *)
(***************************************************************************)
EXTENDS Undo, TLAPS

Others == Key \ {Cset}
(* The places of no file of the update but the ChangeSet file.             *)
Elsewhere == {p \in Path : \A k \in Others : To[k] # p}
Files == [Path -> Sfile \cup {None}]

ResolveLabels == {"take", "trigger", "list", "save", "sfio", "remove", "link", "here", "move",
                  "check", "unapply", "restore", "done"}

(* Whose RESYNC it is.                                                     *)
Turns ==
    /\ pc \in {"idle", "rmtree"} \cup ResolveLabels \cup UndoLabels
    /\ pc \in ResolveLabels => resync # "undo"
    /\ pc \in UndoLabels \ {"ucheck"} => resync = "undo"
    /\ pc = "ucheck" => resync = "none"
    /\ resync # "undo" => tree = NoTree

(* How far each loop is, and how long its list can be.                     *)
Present == \A n \in DOMAIN list : disk[list[n]] # None
Steps ==
    /\ pc = "list" => i \in DOMAIN Order /\ (i > 1 => Len(list) < i /\ Present)
    /\ pc \in {"save", "sfio"} => list # << >> /\ Present
    /\ pc \in {"save", "sfio", "remove"} => Len(list) <= Len(Order)
    /\ pc = "remove" => i \in DOMAIN list
    /\ pc \in {"link", "umove", "ustrip"} => i \in DOMAIN Order
    /\ backup # None => Len(backup) <= Len(Order)

(* What sfio archives for undo: what has been moved, in its order.         *)
InOrder(m, n) ==
    /\ m <= n /\ Order[n] = backup[m].file.key
    /\ tree[To[Order[n]]] # None
    /\ \A q \in Pending : n < q
Archiving ==
    pc \in {"umove", "ufail", "uclose"} =>
       /\ backup # None
       /\ \A k \in Key : tree[To[k]] \in {None, New(k)} /\ disk[To[k]] \in {None, New(k)}
       /\ pc = "umove" => \A n \in DOMAIN Order : tree[To[Order[n]]] # None => n < i
       /\ \A m \in DOMAIN backup : \E n \in DOMAIN Order : InOrder(m, n)

TypeInv == UnTypeOK /\ Turns /\ Steps /\ Archiving

(* What has been linked.                                                   *)
Replacing == {"link", "here", "move", "check", "done", "unapply"}
Linked ==
    /\ pc = "link" => \A n \in DOMAIN Order : n < i => disk[To[Order[n]]] = New(Order[n])
    /\ pc \in {"here", "move", "check", "done"} => AllNew
    /\ pc \in {"check", "done"} => ~rhere
    /\ pc \notin Replacing => applied = {}
    /\ \A p \in applied : \E k \in Key : disk[p] = New(k)

(* Where the old files are while pass 4 has been begun once at most.       *)
Untouched == \A k \in Key : From[k] # None => disk[From[k]] = Old(k)
AllSaved == \A k \in Key : From[k] # None => Saved(k)
NothingLinked ==
    /\ applied = {}
    /\ pc \in {"idle", "rmtree", "take", "trigger", "list", "save", "link", "unapply", "restore"}
Completed == AllNew /\ backup = None /\ NothingLinked
Tried ==
    /\ tries = 0 => Untouched
    /\ pc \in {"sfio", "remove"} => tries # 0
    /\ pc \in UndoLabels => tries = 2
    /\ tries <= 1 => AllSaved \/ Completed
    /\ pc = "sfio" /\ tries <= 1 => Untouched
    /\ pc = "remove" /\ tries <= 1 =>
          /\ backup # None
          /\ \A n \in DOMAIN list, k \in Key : list[n] = From[k] =>
                n \in DOMAIN backup /\ backup[n] = [path |-> From[k], file |-> Old(k)]

-----------------------------------------------------------------------------

(* The repository before and after the update, file by file.               *)
LEMMA Places ==
    /\ NewDisk \in Files /\ OldDisk \in Files
    /\ \A k \in Key : To[k] \in Path /\ NewDisk[To[k]] = New(k)
    /\ \A p \in Path : (\A k \in Key : To[k] # p) => NewDisk[p] = None
    /\ \A p \in Path : (\A k \in Key : From[k] # p) => OldDisk[p] = None
<1>1. \A k \in Key : Old(k) \in Sfile /\ New(k) \in Sfile  BY Zenon DEF Old, New, Sfile
<1>2. \A k \in Key : To[k] \in Path /\ NewDisk[To[k]] = New(k)
  <2> SUFFICES ASSUME NEW k \in Key PROVE To[k] \in Path /\ NewDisk[To[k]] = New(k)  BY Zenon
  <2>1. To[k] \in Path  BY ApplyKeys, Zenon
  <2>2. \A l \in Key : To[l] = To[k] => l = k  BY ApplyKeys, Zenon
  <2>3. (CHOOSE l \in Key : To[l] = To[k]) = k  BY <2>2, Zenon
  <2> QED  BY <2>1, <2>3, Zenon DEF NewDisk, Place
<1>3. NewDisk \in Files /\ OldDisk \in Files
  <2>1. \A p \in Path : (\E k \in Key : To[k] = p) => (CHOOSE k \in Key : To[k] = p) \in Key
    BY Zenon
  <2>2. \A p \in Path : (\E k \in Key : From[k] = p) => (CHOOSE k \in Key : From[k] = p) \in Key
    BY Zenon
  <2> QED  BY <2>1, <2>2, <1>1, Zenon DEF NewDisk, OldDisk, Place, Files
<1>4. \A p \in Path : (\A k \in Key : To[k] # p) => NewDisk[p] = None  BY Zenon DEF NewDisk, Place
<1>5. \A p \in Path : (\A k \in Key : From[k] # p) => OldDisk[p] = None  BY Zenon DEF OldDisk, Place
<1> QED  BY <1>2, <1>3, <1>4, <1>5, Zenon

(* Files other than those of the update and the ChangeSet file: none.      *)
LEMMA ElsewhereNone ==
    /\ To[Cset] \in Elsewhere /\ NewDisk[To[Cset]] = New(Cset)
    /\ \A p \in Elsewhere : p # To[Cset] => NewDisk[p] = None
    /\ \A p \in Path : p \in Elsewhere \/ \E k \in Others : p = To[k]
<1>1. Cset \in Key /\ \A k, l \in Key : k # l => To[k] # To[l]  BY ApplyKeys, Zenon
<1>2. To[Cset] \in Elsewhere  BY <1>1, Places, Zenon DEF Elsewhere, Others
<1>3. \A p \in Elsewhere : p # To[Cset] => \A k \in Key : To[k] # p  BY Zenon DEF Elsewhere, Others
<1>4. Elsewhere \subseteq Path  BY Zenon DEF Elsewhere
<1>5. \A p \in Path : p \in Elsewhere \/ \E k \in Others : p = To[k]  BY Zenon DEF Elsewhere
<1> QED  BY <1>1, <1>2, <1>3, <1>4, <1>5, Places, Zenon

LEMMA Positions ==
    /\ Len(Order) \in Nat \ {0} /\ DOMAIN Order = 1 .. Len(Order)
    /\ \A n \in DOMAIN Order : Order[n] \in Key
    /\ \A k \in Key : \E n \in DOMAIN Order : Order[n] = k
    /\ \A m, n \in DOMAIN Order : Order[m] = Order[n] => m = n
<1>1. Order \in Seq(Key)  BY ApplyOrder, Zenon
<1>2. PICK n \in DOMAIN Order : Order[n] = Cset  BY ApplyKeys, ApplyOrder, Zenon
<1> QED  BY <1>1, <1>2, ApplyOrder

LEMMA Distinct ==
    /\ \A k \in Key : New(k) \in Sfile /\ New(k) # None /\ New(k).key = k /\ To[k] \in Path
    /\ \A k, l \in Key : To[k] = To[l] => k = l
    /\ \A k, l \in Key : From[k] = From[l] /\ From[k] # None => k = l
    /\ Cset \in Key /\ From[Cset] = To[Cset] /\ None \notin Path
<1>1. \A k \in Key : New(k) \in Sfile /\ New(k).key = k  BY Zenon DEF New, Sfile
<1> QED  BY <1>1, ApplyKeys, ApplyNone, Zenon

LEMMA Paths ==
    ASSUME ApTypeOK
    PROVE  /\ \A k \in Key : Lookup(k) \in Path
           /\ Written \subseteq [Key -> Path]
BY ApplyKeys, Zenon DEF ApTypeOK, Lookup, Written

LEMMA Elements ==
    ASSUME NEW S, NEW s \in Seq(S)
    PROVE  /\ Len(s) \in Nat /\ DOMAIN s = 1 .. Len(s)
           /\ \A n \in DOMAIN s : s[n] \in S
OBVIOUS

LEMMA SeqOf ==
    ASSUME NEW S, NEW n \in Nat, NEW f \in [1 .. n -> S]
    PROVE  f \in Seq(S) /\ Len(f) = n
OBVIOUS

(* What sfio -o writes.                                                    *)
LEMMA SavedList ==
    ASSUME UnTypeOK, Present
    PROVE  LET saves == [n \in DOMAIN list |-> [path |-> list[n], file |-> disk[list[n]]]]
           IN  saves \in Saves /\ saves # None /\ Len(saves) = Len(list)
<1> DEFINE saves == [n \in DOMAIN list |-> [path |-> list[n], file |-> disk[list[n]]]]
<1>1. list \in Seq(Path) /\ disk \in Files  BY Zenon DEF UnTypeOK, ApTypeOK, Files
<1>2. DOMAIN list = 1 .. Len(list) /\ Len(list) \in Nat  BY <1>1
<1>3. \A n \in DOMAIN list : list[n] \in Path /\ disk[list[n]] \in Sfile
  BY <1>1 DEF Present, Files
<1>4. saves \in [1 .. Len(list) -> [path : Path, file : Sfile]]  BY <1>2, <1>3, Zenon
<1> HIDE DEF saves
<1>5. saves \in Saves /\ Len(saves) = Len(list)  BY <1>2, <1>4, SeqOf, Zenon DEF Saves
<1>6. saves # None  BY <1>5, ApplyNone, Zenon
<1> QED  BY <1>5, <1>6, Zenon DEF saves

LEMMA TypeNext == TypeInv /\ [UnNext]_uvars => TypeInv'
<1>TurnsNext. Turns /\ [UnNext]_uvars => Turns'
  <2> SUFFICES ASSUME Turns, [UnNext]_uvars PROVE Turns'  BY Zenon
  <2> USE DEF Turns, Goto, ResolveLabels, UndoLabels
  <2>1. CASE Work /\ UNCHANGED tree
    <3>1. CASE TakeLock \/ TakeDone \/ TakeFails
      BY <2>1, <3>1, Zenon DEF TakeLock, TakeDone, TakeFails
    <3>2. CASE Resolve \/ Trigger \/ Abort \/ Done
      BY <2>1, <3>2, Zenon DEF Resolve, Trigger, Abort, Done
    <3>3. CASE List \/ Save \/ Sfio  BY <2>1, <3>3, Zenon DEF List, Save, Sfio
    <3>4. CASE Remove \/ Link  BY <2>1, <3>4, Zenon DEF Remove, Link
    <3>5. CASE Here \/ Move \/ Check  BY <2>1, <3>5, Zenon DEF Here, Move, Check
    <3>6. CASE Unapply  BY <2>1, <3>6, Zenon DEF Unapply
    <3>7. CASE Restore \/ Restored  BY <2>1, <3>7, Zenon DEF Restore, Extract, Restored
    <3> QED  BY <2>1, <3>1, <3>2, <3>3, <3>4, <3>5, <3>6, <3>7, Zenon DEF Work
  <2>2. CASE Rmtree /\ tree' = NoTree  BY <2>2, Zenon DEF Rmtree
  <2>3. CASE Killed /\ tree' = IF resync' = resync THEN tree ELSE NoTree
    BY <2>3, Zenon DEF Killed, Removing
  <2>4. CASE Begin  BY <2>4, Zenon DEF Begin
  <2>5. CASE MoveOut \/ Strip \/ Names  BY <2>5, Zenon DEF MoveOut, Strip, Names
  <2>6. CASE Archive \/ Close  BY <2>6, Zenon DEF Archive, Close
  <2>7. CASE MoveBack  BY <2>7, Zenon DEF MoveBack
  <2>8. CASE IdUpdate \/ UndoRmtree \/ UndoCheck  BY <2>8, Zenon DEF IdUpdate, UndoRmtree, UndoCheck
  <2>9. CASE Err \/ UndoRestore \/ UndoRestored \/ Clean
    BY <2>9, Zenon DEF Err, UndoRestore, Extract, UndoRestored, Clean
  <2>10. CASE UNCHANGED uvars  BY <2>10, Zenon DEF uvars, vars
  <2> QED
    BY <2>1, <2>2, <2>3, <2>4, <2>5, <2>6, <2>7, <2>8, <2>9, <2>10, Zenon DEF UnNext, ApplyNext
(* A step to a place where no loop is at work.                             *)
<1>Quiet. ASSUME TypeInv, backup' \in {backup, None},
                 pc' \notin {"list", "save", "sfio", "remove", "link", "umove", "ufail", "uclose", "ustrip"}
          PROVE  Steps' /\ Archiving'
  BY <1>Quiet, Zenon DEF TypeInv, Steps, Archiving
<1>QuietTypes. ASSUME TypeInv, Turns',
                      \/ TakeLock \/ TakeDone \/ TakeFails \/ Resolve \/ Here \/ Move \/ Check
                      \/ Restored \/ Done \/ Abort,
                      UNCHANGED tree
               PROVE  TypeInv'
  <2> USE <1>QuietTypes
  <2>1. UnTypeOK  BY Zenon DEF TypeInv
  <2>2. 1 \in 1 .. Len(Order) + 1 /\ << >> \in Seq(Path)  BY Positions
  <2> USE DEF Goto, disk4, temp
  <2>3. CASE TakeLock \/ TakeDone \/ TakeFails
    <3>1. UnTypeOK'
      BY <2>1, <2>2, <2>3, Zenon DEF UnTypeOK, ApTypeOK, TakeLock, TakeDone, TakeFails
    <3>2. Steps' /\ Archiving'  BY <2>3, <1>Quiet, Zenon DEF TakeLock, TakeDone, TakeFails
    <3> QED  BY <3>1, <3>2, Zenon DEF TypeInv
  <2>4. CASE Resolve \/ Abort \/ Done
    <3>1. UnTypeOK'  BY <2>1, <2>2, <2>4, Zenon DEF UnTypeOK, ApTypeOK, Resolve, Abort, Done
    <3>2. Steps' /\ Archiving'  BY <2>4, <1>Quiet, Zenon DEF Resolve, Abort, Done
    <3> QED  BY <3>1, <3>2, Zenon DEF TypeInv
  <2>5. CASE Here \/ Move
    <3>1. UnTypeOK'  BY <2>1, <2>2, <2>5, Zenon DEF UnTypeOK, ApTypeOK, Here, Move
    <3>2. Steps' /\ Archiving'  BY <2>5, <1>Quiet, Zenon DEF Here, Move
    <3> QED  BY <3>1, <3>2, Zenon DEF TypeInv
  <2>6. CASE Check \/ Restored
    <3>1. id' \in Written \cup {id}  BY <2>6, Zenon DEF Check, Restored
    <3>2. id' \in [Key -> Path]  BY <2>1, <3>1, Paths, Zenon DEF UnTypeOK, ApTypeOK
    <3>3. UnTypeOK'  BY <2>1, <2>2, <2>6, <3>2, Zenon DEF UnTypeOK, ApTypeOK, Check, Restored
    <3>4. Steps' /\ Archiving'  BY <2>6, <1>Quiet, Zenon DEF Check, Restored
    <3> QED  BY <3>3, <3>4, Zenon DEF TypeInv
  <2> QED  BY <2>3, <2>4, <2>5, <2>6, Zenon
<1>EndTypes. ASSUME TypeInv, Turns',
                    \/ Rmtree /\ tree' = NoTree
                    \/ Killed /\ tree' = IF resync' = resync THEN tree ELSE NoTree
                    \/ IdUpdate \/ UndoRmtree \/ UndoCheck \/ Err \/ UndoRestored \/ Clean
             PROVE  TypeInv'
  <2> USE <1>EndTypes
  <2>1. UnTypeOK  BY Zenon DEF TypeInv
  <2>2. /\ 1 \in 1 .. Len(Order) + 1 /\ << >> \in Seq(Path)
        /\ NoTree \in [Path -> Sfile \cup {None}]
    BY Positions DEF NoTree
  <2> USE DEF Goto, disk4, temp
  <2>3. CASE Rmtree /\ tree' = NoTree
    <3>1. UnTypeOK'  BY <2>1, <2>2, <2>3, Zenon DEF UnTypeOK, ApTypeOK, Rmtree
    <3>2. Steps' /\ Archiving'  BY <2>3, <1>Quiet, Zenon DEF Rmtree
    <3> QED  BY <3>1, <3>2, Zenon DEF TypeInv
  <2>4. CASE Killed /\ tree' = IF resync' = resync THEN tree ELSE NoTree
    <3>1. faults' \in 0 .. MaxFaults  BY <2>1, <2>4, ApplyFaults DEF UnTypeOK, ApTypeOK, Killed
    <3>2. UnTypeOK'  BY <2>1, <2>2, <2>4, <3>1, Zenon DEF UnTypeOK, ApTypeOK, Killed
    <3>3. Steps' /\ Archiving'  BY <2>4, <1>Quiet, Zenon DEF Killed
    <3> QED  BY <3>2, <3>3, Zenon DEF TypeInv
  <2>5. CASE IdUpdate
    <3>1. id' \in [Key -> Path]  BY <2>1, <2>5, ApplyKeys, Zenon DEF UnTypeOK, ApTypeOK, IdUpdate
    <3>2. UnTypeOK'  BY <2>1, <2>2, <2>5, <3>1, Zenon DEF UnTypeOK, ApTypeOK, IdUpdate, UndoLabels
    <3>3. Steps' /\ Archiving'  BY <2>5, <1>Quiet, Zenon DEF IdUpdate
    <3> QED  BY <3>2, <3>3, Zenon DEF TypeInv
  <2>6. CASE UndoRmtree \/ Clean
    <3>1. UnTypeOK'
      BY <2>1, <2>2, <2>6, Zenon DEF UnTypeOK, ApTypeOK, UndoRmtree, Clean, UndoLabels
    <3>2. Steps' /\ Archiving'  BY <2>6, <1>Quiet, Zenon DEF UndoRmtree, Clean
    <3> QED  BY <3>1, <3>2, Zenon DEF TypeInv
  <2>7. CASE UndoCheck \/ UndoRestored
    <3>1. id' \in Written \cup {id}  BY <2>7, Zenon DEF UndoCheck, UndoRestored
    <3>2. id' \in [Key -> Path]  BY <2>1, <3>1, Paths, Zenon DEF UnTypeOK, ApTypeOK
    <3>3. tries' \in 0 .. 2
      BY <2>1, <2>7 DEF UnTypeOK, ApTypeOK, UndoCheck, UndoRestored
    <3>4. UnTypeOK'
      BY <2>1, <2>2, <2>7, <3>2, <3>3, Zenon
         DEF UnTypeOK, ApTypeOK, UndoCheck, UndoRestored, UndoLabels
    <3>5. Steps' /\ Archiving'  BY <2>7, <1>Quiet, Zenon DEF UndoCheck, UndoRestored
    <3> QED  BY <3>4, <3>5, Zenon DEF TypeInv
  <2>8. CASE Err
    <3>1. UnTypeOK'  BY <2>1, <2>2, <2>8, Zenon DEF UnTypeOK, ApTypeOK, Err, UndoLabels
    <3>2. Steps' /\ Archiving'  BY <2>8, <1>Quiet, Zenon DEF Err
    <3> QED  BY <3>1, <3>2, Zenon DEF TypeInv
  <2> QED  BY <2>3, <2>4, <2>5, <2>6, <2>7, <2>8, Zenon
<1>TriggerTypes. TypeInv /\ Turns' /\ Trigger /\ UNCHANGED tree => TypeInv'
  <2> SUFFICES ASSUME TypeInv, Turns', Trigger, UNCHANGED tree PROVE TypeInv'  BY Zenon
  <2> USE DEF Goto, disk4, temp
  <2>1. UnTypeOK /\ Steps  BY Zenon DEF TypeInv
  <2>2. 1 \in 1 .. Len(Order) + 1 /\ 1 \in DOMAIN Order  BY Positions
  <2>3. UnTypeOK'  BY <2>1, <2>2, Zenon DEF UnTypeOK, ApTypeOK, Trigger
  <2>4. Steps'  BY <2>1, <2>2 DEF Trigger, Steps
  <2>5. Archiving'  BY Zenon DEF Trigger, Archiving
  <2> QED  BY <2>3, <2>4, <2>5, Zenon DEF TypeInv
(* Pass 4a lists paths that have files, and no more than there are files   *)
(* in the update.                                                          *)
<1>ListTypes. TypeInv /\ Turns' /\ List /\ UNCHANGED tree => TypeInv'
  <2> SUFFICES ASSUME TypeInv, Turns', List, UNCHANGED tree PROVE TypeInv'  BY Zenon
  <2>1. UnTypeOK /\ ApTypeOK /\ Steps /\ pc = "list"  BY Zenon DEF TypeInv, UnTypeOK, List
  <2>2. i \in DOMAIN Order /\ i \in Nat \ {0} /\ i <= Len(Order)  BY <2>1, Positions DEF Steps
  <2>3. PICK k \in Key : k = Order[i]  BY <2>2, Positions, Zenon
  <2>4. PICK before : before = IF i = 1 THEN << >> ELSE list  BY Zenon
  <2>5. PICK after : after = IF Found(k) THEN Append(before, Lookup(k)) ELSE before  BY Zenon
  <2>6. /\ before \in Seq(Path) /\ Len(before) < i
        /\ \A n \in DOMAIN before : disk[before[n]] # None
    BY <2>1, <2>2, <2>4 DEF ApTypeOK, Steps, Present
  <2>7. Lookup(k) \in Path  BY <2>1, Paths, Zenon
  <2>8. /\ after \in Seq(Path) /\ Len(after) <= i
        /\ \A n \in DOMAIN after : disk[after[n]] # None
    <3>1. CASE ~Found(k)  BY <2>2, <2>5, <2>6, <3>1
    <3>2. CASE Found(k)
      <4>1. after = Append(before, Lookup(k)) /\ disk[Lookup(k)] # None
        BY <2>5, <3>2, Zenon DEF Found, Has
      <4>2. \A n \in DOMAIN after : after[n] = Lookup(k) \/ (n \in DOMAIN before /\ after[n] = before[n])
        BY <2>6, <2>7, <4>1
      <4> QED  BY <2>2, <2>6, <2>7, <4>1, <4>2
    <3> QED  BY <3>1, <3>2, Zenon
  <2>9. /\ UNCHANGED <<disk, id, here, resync, rhere, backup, applied, faults, tries>>
        /\ \/ list' \in {before, after} /\ pc' = "idle" /\ i' = 1
           \/ list' = after /\ i = Len(Order) /\ i' = 1
                            /\ pc' = IF after = << >> THEN "link" ELSE "save"
           \/ list' = after /\ i # Len(Order) /\ i' = i + 1 /\ pc' = "list"
    BY <2>1, <2>3, <2>4, <2>5, Zenon DEF List, Goto, disk4
  <2>10. list' \in Seq(Path)  BY <2>6, <2>8, <2>9, Zenon
  <2>11. i' \in 1 .. Len(Order) + 1  BY <2>2, <2>9, Positions
  <2>12. pc' \in {"idle", "list", "save", "link"}  BY <2>9, Zenon
  <2>13. UnTypeOK'  BY <2>1, <2>9, <2>10, <2>11, <2>12, Zenon DEF UnTypeOK, ApTypeOK
  <2>14. Steps'
    <3>1. CASE pc' = "idle"  BY <2>1, <2>9, <3>1, Zenon DEF Steps
    <3>2. CASE list' = after /\ i = Len(Order) /\ i' = 1
                             /\ pc' = IF after = << >> THEN "link" ELSE "save"
      BY <2>1, <2>2, <2>8, <2>9, <3>2, Positions DEF Steps, Present
    <3>3. CASE list' = after /\ i # Len(Order) /\ i' = i + 1 /\ pc' = "list"
      BY <2>1, <2>2, <2>8, <2>9, <3>3, Positions DEF Steps, Present
    <3> QED  BY <2>9, <3>1, <3>2, <3>3, Zenon
  <2>15. Archiving'  BY <2>12, Zenon DEF Archiving
  <2> QED  BY <2>13, <2>14, <2>15, Zenon DEF TypeInv
<1>SaveTypes. TypeInv /\ Turns' /\ (Save \/ Sfio) /\ UNCHANGED tree => TypeInv'
  <2> SUFFICES ASSUME TypeInv, Turns', Save \/ Sfio, UNCHANGED tree PROVE TypeInv'  BY Zenon
  <2> USE DEF Goto, disk4, temp
  <2>1. UnTypeOK /\ ApTypeOK /\ Steps  BY Zenon DEF TypeInv, UnTypeOK
  <2>2. 1 \in 1 .. Len(Order) + 1  BY Positions
  <2>3. CASE Save
    <3>1. tries' \in 0 .. 2  BY <2>1, <2>3 DEF ApTypeOK, Save
    <3>2. UnTypeOK'  BY <2>1, <2>2, <2>3, <3>1, Zenon DEF UnTypeOK, ApTypeOK, Save
    <3>3. Steps'  BY <2>1, <2>3, Zenon DEF Steps, Present, Save
    <3> QED  BY <2>3, <3>2, <3>3, Zenon DEF TypeInv, Archiving, Save
  <2>4. CASE Sfio
    <3>1. list \in Seq(Path) /\ list # << >> /\ Present /\ Len(list) <= Len(Order)
      BY <2>1, <2>4, Zenon DEF Steps, ApTypeOK, Sfio
    <3>2. PICK saves : saves = [n \in DOMAIN list |-> [path |-> list[n], file |-> disk[list[n]]]]
      BY Zenon
    <3>3. saves \in Saves /\ Len(saves) = Len(list)  BY <2>1, <3>1, <3>2, SavedList, Zenon
    <3>4. << >> \in Saves /\ Len(<< >>) = 0  BY DEF Saves
    <3>5. \/ backup' = saves /\ pc' = "remove"
          \/ backup' = << >> /\ pc' = "idle"
      BY <2>4, <3>2, Zenon DEF Sfio
    <3>6. UnTypeOK'  BY <2>1, <2>2, <2>4, <3>3, <3>4, <3>5, Zenon DEF UnTypeOK, ApTypeOK, Sfio
    <3>7. 1 \in DOMAIN list  BY <3>1
    <3>8. i' = 1 /\ list' = list  BY <2>4, Zenon DEF Sfio
    <3>9. Len(backup') <= Len(Order)  BY <3>1, <3>3, <3>4, <3>5, Positions
    <3>10. Steps'  BY <3>1, <3>5, <3>7, <3>8, <3>9, Zenon DEF Steps
    <3> QED  BY <3>5, <3>6, <3>10, Zenon DEF TypeInv, Archiving
  <2> QED  BY <2>3, <2>4, Zenon
<1>RemoveTypes. TypeInv /\ Turns' /\ (Remove \/ Link) /\ UNCHANGED tree => TypeInv'
  <2> SUFFICES ASSUME TypeInv, Turns', Remove \/ Link, UNCHANGED tree PROVE TypeInv'  BY Zenon
  <2> USE DEF Goto, disk4, temp
  <2>1. UnTypeOK /\ ApTypeOK /\ Steps  BY Zenon DEF TypeInv, UnTypeOK
  <2>2. 1 \in 1 .. Len(Order) + 1 /\ 1 \in DOMAIN Order  BY Positions
  <2>3. CASE Remove
    <3>1. i \in DOMAIN list /\ list \in Seq(Path) /\ Len(list) <= Len(Order) /\ Len(list) \in Nat
      BY <2>1, <2>3 DEF Steps, ApTypeOK, Remove
    <3>2. disk' \in [Path -> Sfile \cup {None}]  BY <2>1, <2>3, <3>1, Zenon DEF ApTypeOK, Remove
    <3>3. /\ i' \in 1 .. Len(Order) + 1
          /\ pc' \in {"restore", "link", "remove"}
          /\ pc' = "remove" => i' \in DOMAIN list
          /\ pc' = "link" => i' = 1
      BY <2>3, <3>1, Positions DEF Remove
    <3>4. UnTypeOK'  BY <2>1, <2>3, <3>2, <3>3, Zenon DEF UnTypeOK, ApTypeOK, Remove
    <3>5. UNCHANGED <<list, backup>>  BY <2>3, Zenon DEF Remove
    <3>6. Steps'  BY <2>1, <2>2, <3>1, <3>3, <3>5, Zenon DEF Steps
    <3> QED  BY <3>3, <3>4, <3>6, Zenon DEF TypeInv, Archiving
  <2>4. CASE Link
    <3>1. i \in DOMAIN Order  BY <2>1, <2>4, Zenon DEF Steps, Link
    <3>2. PICK k \in Key : k = Order[i]  BY <3>1, Positions, Zenon
    <3>3. To[k] \in Path /\ New(k) \in Sfile  BY Distinct, Zenon
    <3>4. disk' \in [Path -> Sfile \cup {None}] /\ applied' \subseteq Path
      <4>1. /\ disk' \in {disk, [disk EXCEPT ![To[k]] = New(k)]}
            /\ applied' \in {applied, applied \cup {To[k]}}
        BY <2>4, <3>2, Zenon DEF Link
      <4> QED  BY <2>1, <3>3, <4>1 DEF ApTypeOK
    <3>5. /\ i' \in 1 .. Len(Order) + 1
          /\ pc' \in {"unapply", "here", "link"}
          /\ pc' = "link" => i' \in DOMAIN Order
      BY <2>4, <3>1, Positions DEF Link
    <3>6. UnTypeOK'  BY <2>1, <2>4, <3>4, <3>5, Zenon DEF UnTypeOK, ApTypeOK, Link
    <3>7. UNCHANGED <<list, backup>>  BY <2>4, Zenon DEF Link
    <3>8. Steps'  BY <2>1, <3>5, <3>7, Zenon DEF Steps
    <3> QED  BY <3>5, <3>6, <3>8, Zenon DEF TypeInv, Archiving
  <2> QED  BY <2>3, <2>4, Zenon
<1>UnapplyTypes. TypeInv /\ Turns' /\ Unapply /\ UNCHANGED tree => TypeInv'
  <2> SUFFICES ASSUME TypeInv, Turns', Unapply, UNCHANGED tree PROVE TypeInv'  BY Zenon
  <2>1. UnTypeOK /\ ApTypeOK  BY Zenon DEF TypeInv, UnTypeOK
  <2>2. /\ UNCHANGED <<id, here, resync, rhere, list, backup, tries>>
        /\ pc' \in {"restore", "unapply"} /\ i' \in {1, i}
    BY Zenon DEF Unapply, Goto, temp
  <2>3. applied' \subseteq Path /\ faults' \in 0 .. MaxFaults
    BY <2>1, ApplyFaults DEF Unapply, ApTypeOK
  <2>4. disk' \in [Path -> Sfile \cup {None}]
    <3>1. disk' = disk \/ \E p \in applied : disk' = [disk EXCEPT ![p] = None]
      BY Zenon DEF Unapply
    <3> QED  BY <2>1, <3>1, Zenon DEF ApTypeOK
  <2>5. i' \in 1 .. Len(Order) + 1  BY <2>1, <2>2, Positions DEF ApTypeOK
  <2>6. UnTypeOK'  BY <2>1, <2>2, <2>3, <2>4, <2>5, Zenon DEF UnTypeOK, ApTypeOK
  <2>7. Steps' /\ Archiving'  BY <2>2, <1>Quiet, Zenon
  <2> QED  BY <2>6, <2>7, Zenon DEF TypeInv
<1>ExtractTypes. ASSUME TypeInv, Turns', pc \in {"restore", "urestore"}, Extract, UNCHANGED tree
                 PROVE  TypeInv'
  <2> USE <1>ExtractTypes
  <2>1. UnTypeOK /\ ApTypeOK /\ Steps  BY Zenon DEF TypeInv, UnTypeOK
  <2>2. /\ UNCHANGED <<id, here, resync, rhere, list, backup, applied, faults, tries>>
        /\ \/ pc' = "idle" /\ i' = 1 /\ disk' = disk
           \/ pc' = pc /\ i' = i + 1 /\ disk' = [disk EXCEPT ![backup[i].path] = backup[i].file]
    BY Zenon DEF Extract, Goto, temp
  <2>3. backup \in Saves /\ i \in DOMAIN backup /\ i + 1 \in 1 .. Len(Order) + 1
    <3>1. backup \in Saves /\ Len(backup) <= Len(Order) /\ i <= Len(backup) /\ i \in Nat \ {0}
      BY <2>1 DEF Extract, Steps, ApTypeOK
    <3> QED  BY <3>1, Positions DEF Saves
  <2>4. backup[i].path \in Path /\ backup[i].file \in Sfile
    <3>1. backup[i] \in [path : Path, file : Sfile]  BY <2>3, Elements, Zenon DEF Saves
    <3> QED  BY <3>1, Zenon
  <2>5. disk' \in [Path -> Sfile \cup {None}]  BY <2>1, <2>2, <2>4, Zenon DEF ApTypeOK
  <2>6. i' \in 1 .. Len(Order) + 1  BY <2>2, <2>3, Positions
  <2>7. pc' \in {"idle", "restore", "urestore"}  BY <2>2, Zenon
  <2>8. UnTypeOK'  BY <2>1, <2>2, <2>5, <2>6, <2>7, Zenon DEF UnTypeOK, ApTypeOK, UndoLabels
  <2>9. Steps' /\ Archiving'  BY <2>2, <2>7, <1>Quiet, Zenon
  <2> QED  BY <2>8, <2>9, Zenon DEF TypeInv
<1>BeginTypes. TypeInv /\ Turns' /\ Begin => TypeInv'
  <2> SUFFICES ASSUME TypeInv, Turns', Begin PROVE TypeInv'  BY Zenon
  <2> USE DEF Goto, disk4
  <2>1. UnTypeOK /\ ApTypeOK /\ Steps /\ Turns  BY Zenon DEF TypeInv, UnTypeOK
  <2>2. 1 \in 1 .. Len(Order) + 1 /\ 1 \in DOMAIN Order /\ 0 <= Len(Order) /\ 2 \in 0 .. 2
    BY Positions
  <2>3. << >> \in Saves /\ Len(<< >>) = 0 /\ DOMAIN << >> = {}  BY DEF Saves
  <2>4. UnTypeOK'  BY <2>1, <2>2, <2>3, Zenon DEF UnTypeOK, ApTypeOK, Begin, UndoLabels
  <2>5. CASE pc' = "idle"
    <3>1. backup' = None  BY <2>5, Zenon DEF Begin
    <3> QED  BY <2>4, <2>5, <3>1, <1>Quiet, Zenon DEF TypeInv
  <2>6. CASE pc' # "idle"
    <3>1. /\ disk = NewDisk /\ tree = NoTree /\ UNCHANGED <<disk, tree>>
          /\ backup' = << >> /\ pc' = "umove" /\ i' = 1
      BY <2>1, <2>6, Zenon DEF Begin, Turns
    <3>2. Steps'  BY <2>2, <2>3, <3>1, Zenon DEF Steps
    <3>3. \A k \in Key : tree'[To[k]] \in {None, New(k)} /\ disk'[To[k]] \in {None, New(k)}
      BY <3>1, Places, Zenon DEF NoTree
    <3>4. << >> # None  BY <2>3, ApplyNone, Zenon
    <3>5. \A n \in DOMAIN Order : tree'[To[Order[n]]] = None
      BY <3>1, Positions, Distinct, Zenon DEF NoTree
    <3>6. Archiving'  BY <2>3, <3>1, <3>3, <3>4, <3>5, Zenon DEF Archiving
    <3> QED  BY <2>4, <3>2, <3>6, Zenon DEF TypeInv
  <2> QED  BY <2>5, <2>6, Zenon
<1>MoveOutTypes. TypeInv /\ Turns' /\ MoveOut => TypeInv'
  <2> SUFFICES ASSUME TypeInv, Turns', MoveOut PROVE TypeInv'  BY Zenon
  <2>1. UnTypeOK /\ ApTypeOK /\ Steps /\ Archiving /\ pc = "umove"
    BY Zenon DEF TypeInv, UnTypeOK, MoveOut
  <2>2. i \in DOMAIN Order  BY <2>1, Zenon DEF Steps
  <2>3. PICK k \in Key : k = Order[i]  BY <2>2, Positions, Zenon
  <2>4. To[k] \in Path  BY Distinct, Zenon
  <2>5. /\ UNCHANGED <<id, here, resync, rhere, list, backup, applied, faults, tries>>
        /\ \/ UNCHANGED <<disk, tree>>
           \/ /\ disk' = IF k = Cset THEN disk ELSE [disk EXCEPT ![To[k]] = None]
              /\ tree' = [tree EXCEPT ![To[k]] = disk[To[k]]]
        /\ i' \in {1, i + 1}
        /\ pc' \in {"ufail", "uclose", "umove"}
        /\ pc' = "umove" => i # Len(Order) /\ i' = i + 1
    BY <2>1, <2>3, Zenon DEF MoveOut, Goto, temp
  <2>6. i' \in 1 .. Len(Order) + 1 /\ (pc' = "umove" => i' \in DOMAIN Order)
    BY <2>2, <2>5, Positions
  <2>7. disk' \in Files /\ tree' \in Files  BY <2>1, <2>4, <2>5 DEF UnTypeOK, ApTypeOK, Files
  <2>8. UnTypeOK'
    BY <2>1, <2>5, <2>6, <2>7, Zenon DEF UnTypeOK, ApTypeOK, UndoLabels, Files
  <2>9. Steps'  BY <2>1, <2>5, <2>6, Zenon DEF Steps
  <2>10. \A l \in Key : tree'[To[l]] \in {None, New(l)} /\ disk'[To[l]] \in {None, New(l)}
    <3> SUFFICES ASSUME NEW l \in Key
                 PROVE  tree'[To[l]] \in {None, New(l)} /\ disk'[To[l]] \in {None, New(l)}
      BY Zenon
    <3>1. tree[To[l]] \in {None, New(l)} /\ disk[To[l]] \in {None, New(l)} /\ To[l] \in Path
      BY <2>1, Distinct, Zenon DEF Archiving
    <3>2. disk \in Files /\ tree \in Files  BY <2>1, Zenon DEF UnTypeOK, ApTypeOK, Files
    <3>3. CASE l = k  BY <2>5, <3>1, <3>2, <3>3, Zenon DEF Files
    <3>4. CASE l # k
      <4>1. To[l] # To[k]  BY <3>4, Distinct, Zenon
      <4> QED  BY <2>5, <3>1, <3>2, <4>1, Zenon DEF Files
    <3> QED  BY <3>3, <3>4, Zenon
  <2>11. \A n \in DOMAIN Order : tree'[To[Order[n]]] = tree[To[Order[n]]] \/ n = i
    <3> SUFFICES ASSUME NEW n \in DOMAIN Order, n # i PROVE tree'[To[Order[n]]] = tree[To[Order[n]]]
      BY Zenon
    <3>1. Order[n] \in Key /\ Order[n] # k  BY <2>2, <2>3, Positions, Zenon
    <3>2. To[Order[n]] \in Path /\ To[Order[n]] # To[k]  BY <3>1, Distinct, Zenon
    <3> QED  BY <2>1, <2>5, <3>2, Zenon DEF UnTypeOK
  <2>12. \A n \in DOMAIN Order : tree[To[Order[n]]] # None => n < i  BY <2>1, Zenon DEF Archiving
  <2>13. pc' = "umove" => \A n \in DOMAIN Order : tree'[To[Order[n]]] # None => n < i'
    BY <2>2, <2>5, <2>11, <2>12, Positions
  <2>14. \A m \in DOMAIN backup' : \E n \in DOMAIN Order : InOrder(m, n)'
    <3> SUFFICES ASSUME NEW m \in DOMAIN backup PROVE \E n \in DOMAIN Order : InOrder(m, n)'
      BY <2>5, Zenon
    <3>1. PICK n \in DOMAIN Order : InOrder(m, n)  BY <2>1, Zenon DEF Archiving
    <3>2. n < i /\ n # i  BY <2>2, <2>12, <3>1, Positions DEF InOrder
    <3>3. Pending' \subseteq Pending \cup {i}
      <4>1. Archived' = Archived  BY <2>5, Zenon DEF Archived
      <4> QED  BY <2>11, <4>1, Zenon DEF Pending
    <3>4. InOrder(m, n)'  BY <2>5, <2>11, <3>1, <3>2, <3>3, Zenon DEF InOrder
    <3> QED  BY <3>4, Zenon
  <2>15. Archiving'  BY <2>1, <2>5, <2>10, <2>13, <2>14, Zenon DEF Archiving
  <2> QED  BY <2>8, <2>9, <2>15, Zenon DEF TypeInv
(* sfio goes through the files in their order, so that no archive has more *)
(* files than the update.                                                  *)
<1>ArchiveTypes. TypeInv /\ Turns' /\ Archive => TypeInv'
  <2> SUFFICES ASSUME TypeInv, Turns', Archive PROVE TypeInv'  BY Zenon
  <2>1. UnTypeOK /\ ApTypeOK /\ Steps /\ Archiving  BY Zenon DEF TypeInv, UnTypeOK
  <2>2. /\ UNCHANGED <<disk, id, here, resync, rhere, list, pc, i, applied, faults, tries, tree>>
        /\ pc \in {"umove", "ufail", "uclose"}
    BY Zenon DEF Archive, disk4
  <2>3. PICK n \in Pending :
           /\ \A m \in Pending : n <= m
           /\ backup' = Append(backup, [path |-> To[Order[n]], file |-> tree[To[Order[n]]]])
    BY Zenon DEF Archive
  <2>4. PICK k \in Key : k = Order[n] /\ k \notin Archived /\ tree[To[k]] # None
    BY Positions, Zenon DEF Pending
  <2>5. tree[To[k]] = New(k)  BY <2>1, <2>2, <2>4, Zenon DEF Archiving
  <2>6. PICK b \in [path : Path, file : Sfile] : b = [path |-> To[k], file |-> New(k)]
    BY Distinct, Zenon
  <2>7. b.file.key = k  BY <2>6, Distinct, Zenon
  <2>8. backup' = Append(backup, b)  BY <2>3, <2>4, <2>5, <2>6, Zenon
  <2>9. backup \in Saves  BY <2>1, <2>2, Zenon DEF Archiving, ApTypeOK
  <2>10. /\ backup' \in Saves /\ Len(backup) \in Nat /\ Len(backup') = Len(backup) + 1
         /\ backup'[Len(backup) + 1] = b
         /\ \A m \in DOMAIN backup' : m = Len(backup) + 1 \/ m \in DOMAIN backup
         /\ \A m \in DOMAIN backup : m \in DOMAIN backup' /\ backup'[m] = backup[m]
    BY <2>8, <2>9 DEF Saves
  <2>11. n \in DOMAIN Order /\ n \in Nat \ {0} /\ \A q \in Pending : n <= q
    <3>1. n \in DOMAIN Order  BY Zenon DEF Pending
    <3> QED  BY <2>3, <3>1, Positions
  <2>12. Pending' = Pending \ {n}
    <3>1. Archived' = Archived \cup {k}
      <4>1. \A m \in DOMAIN backup' : backup'[m].file.key \in Archived \cup {k}
        BY <2>7, <2>10, Zenon DEF Archived
      <4>2. \A m \in DOMAIN backup : backup[m].file.key \in Archived'
        BY <2>10, Zenon DEF Archived
      <4>3. k \in Archived'
        <5>1. Len(backup) + 1 \in DOMAIN backup'  BY <2>10 DEF Saves
        <5> QED  BY <2>7, <2>10, <5>1, Zenon DEF Archived
      <4> QED  BY <4>1, <4>2, <4>3, Zenon DEF Archived
    <3>2. \A q \in DOMAIN Order : Order[q] = k <=> q = n  BY <2>4, <2>11, Positions, Zenon
    <3> QED  BY <2>2, <3>1, <3>2, Zenon DEF Pending
  <2>13. n >= Len(backup) + 1
    <3>1. CASE Len(backup) = 0  BY <2>11, <3>1
    <3>2. CASE Len(backup) # 0
      <4>1. Len(backup) \in DOMAIN backup  BY <2>9, <2>10, <3>2 DEF Saves
      <4>2. PICK q \in DOMAIN Order : InOrder(Len(backup), q)
        BY <2>1, <2>2, <4>1, Zenon DEF Archiving
      <4> QED  BY <2>10, <2>11, <4>2, Positions DEF InOrder
    <3> QED  BY <3>1, <3>2, Zenon
  <2>14. \A m \in DOMAIN backup' : \E q \in DOMAIN Order : InOrder(m, q)'
    <3> SUFFICES ASSUME NEW m \in DOMAIN backup' PROVE \E q \in DOMAIN Order : InOrder(m, q)'
      BY Zenon
    <3>1. CASE m = Len(backup) + 1
      <4>1. \A q \in Pending' : n < q  BY <2>11, <2>12, Positions DEF Pending
      <4>2. InOrder(m, n)'  BY <2>2, <2>4, <2>7, <2>10, <2>13, <3>1, <4>1, Zenon DEF InOrder
      <4> QED  BY <2>11, <4>2, Zenon
    <3>2. CASE m \in DOMAIN backup
      <4>1. PICK q \in DOMAIN Order : InOrder(m, q)  BY <2>1, <2>2, <3>2, Zenon DEF Archiving
      <4>2. InOrder(m, q)'  BY <2>2, <2>10, <2>12, <3>2, <4>1, Zenon DEF InOrder
      <4> QED  BY <4>2, Zenon
    <3> QED  BY <2>10, <3>1, <3>2, Zenon
  <2>15. Len(backup') <= Len(Order)  BY <2>10, <2>11, <2>13, Positions
  <2>16. UnTypeOK'  BY <2>1, <2>2, <2>10, Zenon DEF UnTypeOK, ApTypeOK
  <2>17. Steps'  BY <2>1, <2>2, <2>15, Zenon DEF Steps
  <2>18. backup' # None  BY <2>10, ApplyNone, Zenon
  <2>19. Archiving'  BY <2>1, <2>2, <2>14, <2>18, Zenon DEF Archiving
  <2> QED  BY <2>16, <2>17, <2>19, Zenon DEF TypeInv
<1>StripTypes. TypeInv /\ Turns' /\ (Close \/ Strip \/ Names) => TypeInv'
  <2> SUFFICES ASSUME TypeInv, Turns', Close \/ Strip \/ Names PROVE TypeInv'  BY Zenon
  <2> USE DEF Goto, disk4, temp
  <2>1. UnTypeOK /\ ApTypeOK /\ Steps  BY Zenon DEF TypeInv, UnTypeOK
  <2>2. 1 \in 1 .. Len(Order) + 1 /\ 1 \in DOMAIN Order  BY Positions
  <2>3. CASE Close
    <3>1. pc' \in {"ustrip", "uerr"} /\ i' = 1 /\ backup' = backup  BY <2>3, Zenon DEF Close
    <3>2. UnTypeOK'  BY <2>1, <2>2, <2>3, <3>1, Zenon DEF UnTypeOK, ApTypeOK, Close, UndoLabels
    <3>3. Steps'  BY <2>1, <2>2, <3>1, Zenon DEF Steps
    <3> QED  BY <3>1, <3>2, <3>3, Zenon DEF TypeInv, Archiving
  <2>4. CASE Strip
    <3>1. i \in DOMAIN Order  BY <2>1, <2>4, Zenon DEF Steps, Strip
    <3>2. PICK k \in Key : k = Order[i]  BY <3>1, Positions, Zenon
    <3>3. To[k] \in Path /\ Old(k) \in Sfile  BY Distinct, Zenon DEF Old, Sfile
    <3>4. tree' \in [Path -> Sfile \cup {None}]
      <4>1. tree' \in {tree, [tree EXCEPT ![To[k]] = None], [tree EXCEPT ![To[k]] = Old(k)]}
        BY <2>4, <3>2, Zenon DEF Strip
      <4> QED  BY <2>1, <3>3, <4>1, Zenon DEF UnTypeOK
    <3>5. /\ pc' \in {"ustrip", "unames", "uerr"} /\ backup' = backup
          /\ i' \in 1 .. Len(Order) + 1
          /\ pc' = "ustrip" => i' \in DOMAIN Order
      BY <2>4, <3>1, Positions DEF Strip
    <3>6. UnTypeOK'  BY <2>1, <2>4, <3>4, <3>5, Zenon DEF UnTypeOK, ApTypeOK, Strip, UndoLabels
    <3>7. Steps'  BY <2>1, <3>5, Zenon DEF Steps
    <3> QED  BY <3>5, <3>6, <3>7, Zenon DEF TypeInv, Archiving
  <2>5. CASE Names
    <3>1. /\ pc' \in {"uback", "uerr"} /\ i' = 1 /\ backup' = backup
          /\ tree' \in {tree, OldDisk}
      BY <2>5, Zenon DEF Names
    <3>2. OldDisk \in [Path -> Sfile \cup {None}]  BY Places, Zenon DEF Files
    <3>3. UnTypeOK'
      BY <2>1, <2>2, <2>5, <3>1, <3>2, Zenon DEF UnTypeOK, ApTypeOK, Names, UndoLabels
    <3>4. Steps' /\ Archiving'  BY <3>1, <1>Quiet, Zenon
    <3> QED  BY <3>3, <3>4, Zenon DEF TypeInv
  <2> QED  BY <2>3, <2>4, <2>5, Zenon
<1>MoveBackTypes. TypeInv /\ Turns' /\ MoveBack => TypeInv'
  <2> SUFFICES ASSUME TypeInv, Turns', MoveBack PROVE TypeInv'  BY Zenon
  <2>1. UnTypeOK /\ ApTypeOK  BY Zenon DEF TypeInv, UnTypeOK
  <2>2. PICK n \in Back :
           \/ /\ disk' = [disk EXCEPT ![From[Order[n]]] = tree[From[Order[n]]]]
              /\ tree' = [tree EXCEPT ![From[Order[n]]] = None]
              /\ IF Back = {n} THEN Goto("uid") ELSE i' = n + 1 /\ UNCHANGED pc
              /\ UNCHANGED faults
           \/ /\ faults < MaxFaults
              /\ faults' = faults + 1
              /\ Goto("uerr")
              /\ UNCHANGED <<disk, tree>>
    BY Zenon DEF MoveBack
  <2>3. UNCHANGED <<id, here, resync, rhere, list, backup, applied, tries>> /\ pc = "uback"
    BY Zenon DEF MoveBack, temp
  <2>4. n \in DOMAIN Order /\ From[Order[n]] \in Path
    BY ApplyKeys, Positions DEF Back
  <2>5. PICK p \in Path : p = From[Order[n]]  BY <2>4, Zenon
  <2>6. /\ disk' \in {disk, [disk EXCEPT ![p] = tree[p]]}
        /\ tree' \in {tree, [tree EXCEPT ![p] = None]}
        /\ i' \in {1, n + 1}
        /\ pc' \in {"uid", "uback", "uerr"}
    BY <2>2, <2>3, <2>5, Zenon DEF Goto
  <2>7. disk' \in Files /\ tree' \in Files  BY <2>1, <2>6, Zenon DEF UnTypeOK, ApTypeOK, Files
  <2>8. i' \in 1 .. Len(Order) + 1  BY <2>4, <2>6, Positions
  <2>9. faults' \in 0 .. MaxFaults  BY <2>1, <2>2, ApplyFaults DEF ApTypeOK
  <2>10. UnTypeOK'
    BY <2>1, <2>3, <2>6, <2>7, <2>8, <2>9, Zenon DEF UnTypeOK, ApTypeOK, UndoLabels, Files
  <2>11. Steps' /\ Archiving'  BY <2>3, <2>6, <1>Quiet, Zenon
  <2> QED  BY <2>10, <2>11, Zenon DEF TypeInv
<1>TypeStutter. TypeInv /\ UNCHANGED uvars => TypeInv'
  <2> SUFFICES ASSUME TypeInv, UNCHANGED uvars PROVE TypeInv'  BY Zenon
  <2>1. UNCHANGED <<disk, id, here, resync, rhere, list, backup, pc, i, applied, faults, tries, tree>>
    BY Zenon DEF uvars, vars, disk4, temp
  <2>2. UnTypeOK'  BY <2>1, Zenon DEF TypeInv, UnTypeOK, ApTypeOK
  <2>3. Turns'  BY <2>1, Zenon DEF TypeInv, Turns
  <2>4. Steps'  BY <2>1, Zenon DEF TypeInv, Steps, Present
  <2>5. Pending' = Pending  BY <2>1, Zenon DEF Pending, Archived
  <2>6. \A m, n : InOrder(m, n) => InOrder(m, n)'  BY <2>1, <2>5, Zenon DEF InOrder
  <2>7. Archiving'  BY <2>1, <2>6, Zenon DEF TypeInv, Archiving
  <2> QED  BY <2>2, <2>3, <2>4, <2>7, Zenon DEF TypeInv
<1> SUFFICES ASSUME TypeInv, [UnNext]_uvars PROVE TypeInv'  BY Zenon
<1>1. Turns'  BY <1>TurnsNext, Zenon DEF TypeInv
<1>2. CASE Work /\ UNCHANGED tree
  <2>1. CASE \/ TakeLock \/ TakeDone \/ TakeFails \/ Resolve \/ Here \/ Move \/ Check
             \/ Restored \/ Done \/ Abort
    BY <1>1, <1>2, <2>1, <1>QuietTypes, Zenon
  <2>2. CASE Trigger  BY <1>1, <1>2, <2>2, <1>TriggerTypes, Zenon
  <2>3. CASE List  BY <1>1, <1>2, <2>3, <1>ListTypes, Zenon
  <2>4. CASE Save \/ Sfio  BY <1>1, <1>2, <2>4, <1>SaveTypes, Zenon
  <2>5. CASE Remove \/ Link  BY <1>1, <1>2, <2>5, <1>RemoveTypes, Zenon
  <2>6. CASE Unapply  BY <1>1, <1>2, <2>6, <1>UnapplyTypes, Zenon
  <2>7. CASE Restore  BY <1>1, <1>2, <2>7, <1>ExtractTypes, Zenon DEF Restore
  <2> QED  BY <1>2, <2>1, <2>2, <2>3, <2>4, <2>5, <2>6, <2>7, Zenon DEF Work
<1>3. CASE \/ Rmtree /\ tree' = NoTree
           \/ Killed /\ tree' = IF resync' = resync THEN tree ELSE NoTree
           \/ IdUpdate \/ UndoRmtree \/ UndoCheck \/ Err \/ UndoRestored \/ Clean
  BY <1>1, <1>3, <1>EndTypes, Zenon
<1>4. CASE Begin  BY <1>1, <1>4, <1>BeginTypes, Zenon
<1>5. CASE MoveOut  BY <1>1, <1>5, <1>MoveOutTypes, Zenon
<1>6. CASE Archive  BY <1>1, <1>6, <1>ArchiveTypes, Zenon
<1>7. CASE Close \/ Strip \/ Names  BY <1>1, <1>7, <1>StripTypes, Zenon
<1>8. CASE MoveBack  BY <1>1, <1>8, <1>MoveBackTypes, Zenon
<1>9. CASE UndoRestore  BY <1>1, <1>9, <1>ExtractTypes, Zenon DEF UndoRestore
<1>10. CASE UNCHANGED uvars  BY <1>10, <1>TypeStutter, Zenon
<1> QED
  BY <1>2, <1>3, <1>4, <1>5, <1>6, <1>7, <1>8, <1>9, <1>10, Zenon DEF UnNext, ApplyNext

LEMMA TypeInit == UnInit => TypeInv
<1> SUFFICES ASSUME UnInit PROVE TypeInv  BY Zenon
<1> USE DEF UnInit, Init
<1>1. /\ disk \in Files /\ tree \in Files /\ id \in [Key -> Path]
      /\ list \in Seq(Path) /\ i \in 1 .. Len(Order) + 1
      /\ faults \in 0 .. MaxFaults /\ tries \in 0 .. 2
  BY Places, Positions, ApplyKeys, ApplyFaults DEF NoTree, Files
<1>2. UnTypeOK  BY <1>1, Zenon DEF UnTypeOK, ApTypeOK, Files
<1>3. Turns /\ Steps /\ Archiving
  BY Zenon DEF Turns, Steps, Archiving, UndoLabels, ResolveLabels
<1> QED  BY <1>2, <1>3, Zenon DEF TypeInv

LEMMA TypeAlways == UnSpec => []TypeInv
BY TypeInit, TypeNext, PTL DEF UnSpec

(* Types, for an update of any number of files: the s.file sfio saves for  *)
(* each path of BACKUP_LIST is there, every loop of resolve and undo stays *)
(* inside its list, and no archive has more files than the update.         *)
THEOREM UnTypes == UnSpec => []UnTypeOK
<1>1. TypeInv => UnTypeOK  BY Zenon DEF TypeInv
<1> QED  BY <1>1, TypeAlways, PTL

-----------------------------------------------------------------------------

LEMMA OldPlaces ==
    /\ \A k \in Key : Old(k) \in Sfile /\ Old(k) # None /\ Old(k).key = k
    /\ \A k, l \in Key : Old(k) # New(l)
    /\ \A k \in Key : From[k] # None => From[k] \in Path /\ OldDisk[From[k]] = Old(k)
    /\ \A p \in Path : OldDisk[p] # None => \E k \in Key : From[k] = p
<1>1. \A k \in Key : Old(k) \in Sfile /\ Old(k).key = k  BY Zenon DEF Old, Sfile
<1>2. \A k, l \in Key : Old(k) # New(l)
  <2>1. \A k, l \in Key : Old(k).ver # New(l).ver  BY Zenon DEF Old, New
  <2> QED  BY <2>1, Zenon
<1>3. \A k \in Key : From[k] # None => From[k] \in Path /\ OldDisk[From[k]] = Old(k)
  <2> SUFFICES ASSUME NEW k \in Key, From[k] # None
               PROVE  From[k] \in Path /\ OldDisk[From[k]] = Old(k)
    BY Zenon
  <2>1. From[k] \in Path  BY ApplyKeys, Zenon
  <2>2. \A l \in Key : From[l] = From[k] => l = k  BY Distinct, Zenon
  <2>3. (CHOOSE l \in Key : From[l] = From[k]) = k  BY <2>2, Zenon
  <2> QED  BY <2>1, <2>3, Zenon DEF OldDisk, Place
<1>4. \A p \in Path : OldDisk[p] # None => \E k \in Key : From[k] = p  BY Places, Zenon
<1> QED  BY <1>1, <1>2, <1>3, <1>4, ApplyNone, Zenon

LEMMA TriedNext ==
    TypeInv /\ Linked /\ Tried /\ (pc = "ucheck" => disk = OldDisk) /\ [UnNext]_uvars => Tried'
(* Old files that are in their places stay there.                          *)
<1>OldStays. ASSUME \A k \in Key : From[k] # None /\ disk[From[k]] = Old(k) => disk'[From[k]] = Old(k),
                    backup' = backup
             PROVE  (Untouched => Untouched') /\ (AllSaved => AllSaved')
  BY <1>OldStays, Zenon DEF Untouched, AllSaved, Saved
<1>TriedTwice. tries' = 2 => Tried'
  <2>1. tries' = 2 => tries' # 0 /\ ~(tries' <= 1)  OBVIOUS
  <2> QED  BY <2>1, Zenon DEF Tried
(* A step that leaves the files and the backup alone.                      *)
<1>Bystander. ASSUME Tried, UNCHANGED <<disk, backup, tries>>,
                     pc' \notin {"sfio", "remove"} \cup UndoLabels,
                     NothingLinked => NothingLinked'
              PROVE  Tried'
  <2> USE <1>Bystander
  <2>1. (Untouched => Untouched') /\ (AllSaved => AllSaved') /\ (AllNew => AllNew')
    BY Zenon DEF Untouched, AllSaved, Saved, AllNew
  <2>2. Completed => Completed'  BY <2>1, Zenon DEF Completed
  <2>3. /\ tries = 0 => Untouched
        /\ tries <= 1 => AllSaved \/ Completed
    BY Zenon DEF Tried
  <2> QED  BY <2>1, <2>2, <2>3, Zenon DEF Tried
<1>SaveTried. TypeInv /\ Tried /\ (Save \/ Sfio) => Tried'
  <2> SUFFICES ASSUME TypeInv, Tried, Save \/ Sfio PROVE Tried'  BY Zenon
  <2> USE DEF Goto, disk4
  <2>1. /\ tries = 0 => Untouched
        /\ pc = "sfio" => tries # 0
        /\ pc = "sfio" /\ tries <= 1 => Untouched
        /\ tries \in 0 .. 2
    BY Zenon DEF Tried, TypeInv, UnTypeOK, ApTypeOK
  <2>2. Untouched => Untouched' /\ AllSaved'
    BY Zenon DEF Save, Sfio, Untouched, AllSaved, Saved
  <2>3. CASE Save
    <3>1. pc' = "sfio" /\ tries' # 0 /\ (tries' <= 1 => tries = 0)  BY <2>1, <2>3 DEF Save
    <3> QED  BY <2>1, <2>2, <3>1, Zenon DEF Tried, UndoLabels
  <2>4. CASE Sfio
    <3>1. /\ tries' = tries /\ tries # 0 /\ (tries <= 1 => Untouched)
          /\ pc' \in {"remove", "idle"} /\ list' = list
      BY <2>1, <2>4, Zenon DEF Sfio
    <3>2. pc' = "remove" /\ tries <= 1 =>
             /\ backup' # None
             /\ \A n \in DOMAIN list, k \in Key : list[n] = From[k] =>
                   n \in DOMAIN backup' /\ backup'[n] = [path |-> From[k], file |-> Old(k)]
      <4> SUFFICES ASSUME pc' = "remove", Untouched
                   PROVE  /\ backup' # None
                          /\ \A n \in DOMAIN list, k \in Key : list[n] = From[k] =>
                                /\ n \in DOMAIN backup'
                                /\ backup'[n] = [path |-> From[k], file |-> Old(k)]
        BY <3>1, Zenon
      <4>1. backup' = [n \in DOMAIN list |-> [path |-> list[n], file |-> disk[list[n]]]]
        BY <2>4, Zenon DEF Sfio
      <4>2. list \in Seq(Path) /\ list # << >> /\ Present
        BY <2>4, Zenon DEF TypeInv, UnTypeOK, ApTypeOK, Steps, Sfio
      <4>3. \A n \in DOMAIN list, k \in Key : list[n] = From[k] => From[k] # None
        BY <4>2, Distinct
      <4>4. backup' # None  BY <4>1, <4>2, SavedList, Zenon DEF TypeInv
      <4> QED  BY <4>1, <4>3, <4>4, Zenon DEF Untouched
    <3> QED  BY <2>2, <3>1, <3>2, Zenon DEF Tried, UndoLabels
  <2> QED  BY <2>3, <2>4, Zenon
<1>RemoveTried. TypeInv /\ Tried /\ Remove => Tried'
  <2> SUFFICES ASSUME TypeInv, Tried, Remove PROVE Tried'  BY Zenon
  <2>1. /\ pc = "remove" /\ pc' \in {"remove", "link", "restore"}
        /\ UNCHANGED <<list, backup, tries>>
        /\ disk' \in {disk, [disk EXCEPT ![list[i]] = None]}
    BY Zenon DEF Remove, Goto, temp
  <2>2. tries \in 0 .. 2 /\ disk \in Files /\ i \in DOMAIN list /\ list \in Seq(Path)
    BY <2>1, Zenon DEF TypeInv, UnTypeOK, ApTypeOK, Steps, Files
  <2>3. CASE tries = 2  BY <2>1, <2>3, <1>TriedTwice, Zenon
  <2>4. CASE tries # 2
    <3>1. tries = 1 /\ tries <= 1
      <4>1. tries # 0  BY <2>1, Zenon DEF Tried
      <4> QED  BY <2>2, <2>4, <4>1
    <3>2. AllSaved
      <4>1. AllSaved \/ Completed  BY <3>1, Zenon DEF Tried
      <4> QED  BY <2>1, <4>1, Zenon DEF Completed, NothingLinked
    <3>3. /\ backup # None
          /\ \A n \in DOMAIN list, k \in Key : list[n] = From[k] =>
                n \in DOMAIN backup /\ backup[n] = [path |-> From[k], file |-> Old(k)]
      BY <2>1, <3>1, Zenon DEF Tried
    <3>4. AllSaved'
      <4> SUFFICES ASSUME NEW k \in Key, From[k] # None PROVE Saved(k)'  BY Zenon DEF AllSaved
      <4>1. CASE From[k] = list[i]
        <5>1. i \in DOMAIN backup' /\ backup'[i] = [path |-> From[k], file |-> Old(k)] /\ backup' # None
          BY <2>1, <2>2, <3>3, <4>1, Zenon
        <5> QED  BY <5>1, Zenon DEF Saved
      <4>2. CASE From[k] # list[i]
        <5>1. From[k] \in Path  BY OldPlaces, Zenon
        <5>2. disk'[From[k]] = disk[From[k]]  BY <2>1, <2>2, <4>2, <5>1, Zenon DEF Files
        <5>3. Saved(k)  BY <3>2, Zenon DEF AllSaved
        <5> QED  BY <2>1, <5>2, <5>3, Zenon DEF Saved
      <4> QED  BY <4>1, <4>2, Zenon
    <3> QED  BY <2>1, <3>1, <3>3, <3>4, Zenon DEF Tried, UndoLabels
  <2> QED  BY <2>3, <2>4, Zenon
<1>LinkTried. TypeInv /\ Linked /\ Tried /\ (Link \/ Unapply) => Tried'
  <2> SUFFICES ASSUME TypeInv, Linked, Tried, Link \/ Unapply PROVE Tried'  BY Zenon
  <2>1. UNCHANGED <<list, backup, tries>> /\ tries \in 0 .. 2
    BY Zenon DEF Link, Unapply, temp, TypeInv, UnTypeOK, ApTypeOK
  <2>2. disk \in Files /\ applied \subseteq Path  BY Zenon DEF TypeInv, UnTypeOK, ApTypeOK, Files
  <2>3. pc' \in {"link", "here", "unapply", "restore"}  BY Zenon DEF Link, Unapply, Goto
  <2>4. (Untouched => Untouched') /\ (AllSaved => AllSaved')
    <3>1. \A k \in Key : From[k] # None /\ disk[From[k]] = Old(k) => disk'[From[k]] = Old(k)
      <4> SUFFICES ASSUME NEW k \in Key, From[k] # None, disk[From[k]] = Old(k)
                   PROVE  disk'[From[k]] = Old(k)
        BY Zenon
      <4>1. From[k] \in Path /\ Old(k) # None  BY OldPlaces, Zenon
      <4>2. CASE Link
        <5>1. disk' = disk \/ \E p : disk[p] = None /\ disk' = [disk EXCEPT ![p] = New(Order[i])]
          BY <4>2, Zenon DEF Link
        <5> QED  BY <2>2, <4>1, <5>1, Zenon DEF Files
      <4>3. CASE Unapply
        <5>1. From[k] \notin applied  BY OldPlaces DEF Linked
        <5>2. disk' = disk \/ \E p \in applied : disk' = [disk EXCEPT ![p] = None]
          BY <4>3, Zenon DEF Unapply
        <5> QED  BY <2>2, <4>1, <5>1, <5>2, Zenon DEF Files
      <4> QED  BY <4>2, <4>3, Zenon
    <3> QED  BY <2>1, <3>1, <1>OldStays, Zenon
  <2>5. Completed => Completed'
    <3> SUFFICES ASSUME Completed PROVE Completed'  BY Zenon
    <3>1. CASE Link
      <4>1. i \in DOMAIN Order  BY <3>1, Zenon DEF TypeInv, Steps, Link
      <4>2. disk[To[Order[i]]] # None
        BY <4>1, Positions, Distinct DEF Completed, NothingLinked, AllNew
      <4>3. UNCHANGED <<disk, applied, backup>> /\ pc' = "unapply"
        BY <2>1, <3>1, <4>2, Zenon DEF Link, Goto
      <4> QED  BY <4>3, Zenon DEF Completed, NothingLinked, AllNew
    <3>2. CASE Unapply
      <4>1. UNCHANGED <<disk, applied, backup>> /\ pc' = "restore"
        BY <2>1, <3>2, Zenon DEF Unapply, Completed, NothingLinked, Goto
      <4> QED  BY <4>1, Zenon DEF Completed, NothingLinked, AllNew
    <3> QED  BY <3>1, <3>2, Zenon
  <2>6. (tries = 0 => Untouched) /\ (tries <= 1 => AllSaved \/ Completed)  BY Zenon DEF Tried
  <2> QED  BY <2>1, <2>3, <2>4, <2>5, <2>6, Zenon DEF Tried, UndoLabels
<1>RestoreTried. TypeInv /\ Tried /\ Restore => Tried'
  <2> SUFFICES ASSUME TypeInv, Tried, Restore PROVE Tried'  BY Zenon
  <2>1. /\ UNCHANGED <<list, backup, tries>> /\ tries \in 0 .. 2
        /\ backup # None /\ disk \in Files
        /\ pc' \in {"idle", "restore"}
    BY Zenon DEF Restore, Extract, Goto, temp, TypeInv, UnTypeOK, ApTypeOK, Files
  <2>2. ~Completed  BY <2>1, Zenon DEF Completed, NothingLinked
  <2>3. (Untouched => Untouched') /\ (AllSaved => AllSaved')
    <3>1. \A p \in Path : disk[p] # None => disk'[p] = disk[p]
      <4>1. PICK b : b = backup[i]  BY Zenon
      <4>2. \/ disk[b.path] \in {None, b.file} /\ disk' = [disk EXCEPT ![b.path] = b.file]
            \/ disk' = disk
        BY <4>1, Zenon DEF Restore, Extract
      <4> QED  BY <2>1, <4>2, Zenon DEF Files
    <3>2. \A k \in Key : From[k] # None /\ disk[From[k]] = Old(k) => disk'[From[k]] = Old(k)
      BY <3>1, OldPlaces, Zenon
    <3> QED  BY <2>1, <3>2, <1>OldStays, Zenon
  <2>4. (tries = 0 => Untouched) /\ (tries <= 1 => AllSaved)  BY <2>2, Zenon DEF Tried
  <2> QED  BY <2>1, <2>3, <2>4, Zenon DEF Tried, UndoLabels
<1>UndoTried. ASSUME TypeInv, pc = "ucheck" => disk = OldDisk, Tried,
                     \/ Begin \/ MoveOut \/ Archive \/ Close \/ Strip \/ Names \/ MoveBack
                     \/ IdUpdate \/ UndoRmtree \/ UndoCheck
                     \/ Err \/ UndoRestore \/ UndoRestored \/ Clean
              PROVE  Tried'
  <2> USE <1>UndoTried
  <2>1. pc \in UndoLabels => tries = 2  BY Zenon DEF Tried
  <2> USE DEF UndoLabels
  <2>2. CASE Begin  BY <2>2, <1>TriedTwice, Zenon DEF Begin
  <2>3. CASE MoveOut \/ Archive \/ Close \/ Strip \/ Names
    BY <2>1, <2>3, <1>TriedTwice, Zenon DEF MoveOut, Archive, Close, Strip, Names
  <2>4. CASE MoveBack  BY <2>1, <2>4, <1>TriedTwice, Zenon DEF MoveBack
  <2>5. CASE IdUpdate \/ UndoRmtree \/ Err
    BY <2>1, <2>5, <1>TriedTwice, Zenon DEF IdUpdate, UndoRmtree, Err
  <2>6. CASE UndoRestore \/ UndoRestored \/ Clean
    BY <2>1, <2>6, <1>TriedTwice, Zenon DEF UndoRestore, Extract, UndoRestored, Clean
  <2>7. CASE UndoCheck
    <3>1. disk' = OldDisk /\ pc' = "idle" /\ tries' = 0
      BY <2>7, Zenon DEF UndoCheck, Goto
    <3>2. Untouched' /\ AllSaved'  BY <3>1, OldPlaces, Zenon DEF Untouched, AllSaved, Saved
    <3> QED  BY <3>1, <3>2, Zenon DEF Tried
  <2> QED  BY <2>2, <2>3, <2>4, <2>5, <2>6, <2>7, Zenon
<1> SUFFICES ASSUME TypeInv, Linked, Tried, pc = "ucheck" => disk = OldDisk, [UnNext]_uvars
             PROVE  Tried'
  BY Zenon
<1> USE DEF Goto, disk4, temp, NothingLinked, UndoLabels
<1>1. CASE TakeLock \/ TakeDone \/ TakeFails
  BY <1>1, <1>Bystander, Zenon DEF TakeLock, TakeDone, TakeFails
<1>2. CASE Resolve \/ Trigger \/ Abort  BY <1>2, <1>Bystander, Zenon DEF Resolve, Trigger, Abort
<1>3. CASE Rmtree \/ Killed  BY <1>3, <1>Bystander, Zenon DEF Rmtree, Killed
<1>4. CASE List  BY <1>4, <1>Bystander, Zenon DEF List
<1>5. CASE Here \/ Move  BY <1>5, <1>Bystander, Zenon DEF Here, Move
<1>6. CASE Check \/ Restored  BY <1>6, <1>Bystander, Zenon DEF Check, Restored
<1>7. CASE Save \/ Sfio  BY <1>7, <1>SaveTried, Zenon
<1>8. CASE Remove  BY <1>8, <1>RemoveTried, Zenon
<1>9. CASE Link \/ Unapply  BY <1>9, <1>LinkTried, Zenon
<1>10. CASE Restore  BY <1>10, <1>RestoreTried, Zenon
<1>11. CASE Done
  <2>1. /\ pc = "done" /\ pc' = "rmtree" /\ backup' = None /\ applied' = {}
        /\ UNCHANGED <<disk, tries>>
    BY <1>11, Zenon DEF Done
  <2>2. AllNew' /\ (Untouched => Untouched')  BY <2>1, Zenon DEF Linked, AllNew, Untouched
  <2>3. tries = 0 => Untouched  BY Zenon DEF Tried
  <2> QED  BY <2>1, <2>2, <2>3, Zenon DEF Tried, Completed
<1>12. CASE \/ Begin \/ MoveOut \/ Archive \/ Close \/ Strip \/ Names \/ MoveBack
            \/ IdUpdate \/ UndoRmtree \/ UndoCheck
            \/ Err \/ UndoRestore \/ UndoRestored \/ Clean
  BY <1>12, <1>UndoTried, Zenon
<1>13. CASE UNCHANGED uvars
  <2>1. UNCHANGED <<disk, list, backup, pc, applied, tries>>  BY <1>13, Zenon DEF uvars, vars
  <2>2. /\ Untouched => Untouched'
        /\ AllSaved => AllSaved'
        /\ Completed => Completed'
    BY <2>1, Zenon DEF Untouched, AllSaved, Saved, Completed, AllNew
  <2> QED  BY <2>1, <2>2, Zenon DEF Tried
<1> QED
  BY <1>1, <1>2, <1>3, <1>4, <1>5, <1>6, <1>7, <1>8, <1>9, <1>10, <1>11, <1>12, <1>13, Zenon
     DEF UnNext, ApplyNext, Work

LEMMA InitTried == UnInit => Linked /\ Tried
<1> SUFFICES ASSUME UnInit PROVE Linked /\ Tried  BY Zenon
<1> USE DEF UnInit, Init
<1>1. Linked  BY Zenon DEF Linked, Replacing
<1>2. Untouched /\ AllSaved  BY OldPlaces, Zenon DEF Untouched, AllSaved, Saved
<1> QED  BY <1>1, <1>2, Zenon DEF Tried, UndoLabels
=============================================================================
