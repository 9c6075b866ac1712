----------------------------- MODULE UndoProofs -----------------------------
(***************************************************************************)
(* What bk undo keeps of an update of any number of files, wherever it     *)
(* fails or is killed.  What can be rolled back depends on the archive: it *)
(* needs an sfio that archives what it is told to.                         *)
(***************************************************************************)
EXTENDS ApplyProofs

(* A file that is still in its place, one that was moved, one that is in   *)
(* the archive unless sfio has failed.                                     *)
InPlace(k) == disk[To[k]] = New(k) /\ tree[To[k]] = None
Moved(k) == disk[To[k]] = None /\ tree[To[k]] = New(k)
InArchive(k) == SfioFails \/ \E n \in DOMAIN backup : backup[n].file = New(k)

(* The archive, while undo is at work, and what else is on the disk.       *)
Archives ==
    /\ backup \in Saves
    /\ \A n \in DOMAIN backup : \E k \in Others : backup[n] = [path |-> To[k], file |-> New(k)]
Rest == disk \in Files /\ tree \in Files /\ \A p \in Elsewhere : disk[p] = NewDisk[p]

(* How far undo is.                                                        *)
Moving ==
    pc = "umove" =>
       /\ Archives /\ Rest
       /\ i \in DOMAIN Order
       /\ \A n \in DOMAIN Order : Order[n] # Cset =>
             IF n < i THEN Moved(Order[n]) ELSE InPlace(Order[n])
Closing ==
    /\ pc = "ufail" => Archives /\ Rest /\ \A k \in Others : Moved(k) \/ InPlace(k)
    /\ pc = "uclose" => Archives /\ Rest /\ \A k \in Others : Moved(k)
Stripping ==
    pc \in {"ustrip", "unames"} =>
       /\ Archives /\ Rest
       /\ \A k \in Others : InArchive(k) /\ disk[To[k]] = None
       /\ pc = "ustrip" => i \in DOMAIN Order
Returned(p) == \E n \in DOMAIN Order : n < i /\ From[Order[n]] = p
Returning ==
    pc = "uback" =>
       /\ Archives
       /\ disk \in Files /\ tree \in Files
       /\ \A k \in Others : InArchive(k)
       /\ i \in Nat /\ Back # {}
       /\ \A p \in Path :
             IF Returned(p) THEN disk[p] = OldDisk[p]
             ELSE tree[p] = OldDisk[p] /\ disk[p] = IF p = To[Cset] THEN New(Cset) ELSE None
Ending ==
    /\ pc \in {"uid", "urmtree", "ucheck"} => disk = OldDisk
    /\ pc \in {"uid", "urmtree"} => Archives /\ \A k \in Others : InArchive(k)
Failing ==
    /\ pc \in {"uerr", "urestore"} =>
          /\ Archives
          /\ disk \in Files
          /\ ~SfioFails /\ backup = << >> => disk = NewDisk
          /\ \A k \in Others : InArchive(k) \/ disk[To[k]] = New(k)
    /\ pc = "urestore" => i \in Nat \ {0}
    /\ ~SfioFails /\ pc = "uclean" => disk = NewDisk

UnInv ==
    /\ Turns /\ Moving /\ Closing /\ Stripping /\ Returning /\ Ending /\ Failing
    /\ ~SfioFails => UndoSaved

-----------------------------------------------------------------------------

LEMMA InitInv == UnInit => UnInv
BY Zenon DEF UnInit, Init, UnInv, Turns, Moving, Closing, Stripping, Returning, Ending, Failing,
       UndoSaved, UndoLabels, ResolveLabels

(* Nothing but the ChangeSet file is in the repository when bk names runs. *)
LEMMA Emptied ==
    ASSUME Stripping, pc = "unames"
    PROVE  /\ \A p \in Path : disk[p] = IF p = To[Cset] THEN New(Cset) ELSE None
           /\ ~Conflict(OldDisk)
<1>1. Rest /\ \A k \in Others : disk[To[k]] = None  BY Zenon DEF Stripping
<1>2. \A k \in Others : To[k] # To[Cset]  BY Distinct, Zenon DEF Others
<1>3. \A p \in Path : disk[p] = IF p = To[Cset] THEN New(Cset) ELSE None
  BY <1>1, <1>2, ElsewhereNone DEF Rest
<1> QED  BY <1>3, Zenon DEF Conflict

LEMMA NextInv == UnInv /\ [UnNext]_uvars => UnInv'
(* A step to a place outside of undo.                                      *)
<1>Outside. ASSUME UnInv, pc' \in {"idle", "rmtree"} \cup ResolveLabels, Turns',
                   resync' = "undo" => UNCHANGED <<resync, disk, tree, backup>>
            PROVE  UnInv'
  <2> USE <1>Outside
  <2>1. (Moving /\ Closing /\ Stripping /\ Returning /\ Ending /\ Failing)'
    BY Zenon DEF Moving, Closing, Stripping, Returning, Ending, Failing, ResolveLabels
  <2>2. ~SfioFails => UndoSaved'  BY Zenon DEF UnInv, UndoSaved, WholeSomewhere
  <2> QED  BY <2>1, <2>2, Zenon DEF UnInv
<1>ApplyNextInv. UnInv /\ ApplyNext => UnInv'
  <2> SUFFICES ASSUME UnInv, ApplyNext PROVE UnInv'  BY Zenon
  <2>1. Turns  BY Zenon DEF UnInv
  <2> USE DEF Turns, Goto, ResolveLabels, UndoLabels, disk4, temp
  <2>2. CASE Work /\ UNCHANGED tree
    <3>1. CASE Abort  BY <3>1, <2>1, <2>2, <1>Outside, Zenon DEF Abort
    <3>2. CASE TakeLock  BY <3>2, <2>1, <2>2, <1>Outside, Zenon DEF TakeLock
    <3>3. CASE TakeDone \/ TakeFails  BY <3>3, <2>1, <2>2, <1>Outside, Zenon DEF TakeDone, TakeFails
    <3>4. CASE Resolve \/ Trigger  BY <3>4, <2>1, <2>2, <1>Outside, Zenon DEF Resolve, Trigger
    <3>5. CASE List \/ Save \/ Sfio  BY <3>5, <2>1, <2>2, <1>Outside, Zenon DEF List, Save, Sfio
    <3>6. CASE Remove \/ Link  BY <3>6, <2>1, <2>2, <1>Outside, Zenon DEF Remove, Link
    <3>7. CASE Here \/ Move \/ Check  BY <3>7, <2>1, <2>2, <1>Outside, Zenon DEF Here, Move, Check
    <3>8. CASE Unapply  BY <3>8, <2>1, <2>2, <1>Outside, Zenon DEF Unapply
    <3>9. CASE Restore  BY <3>9, <2>1, <2>2, <1>Outside, Zenon DEF Restore, Extract
    <3>10. CASE Restored \/ Done  BY <3>10, <2>1, <2>2, <1>Outside, Zenon DEF Restored, Done
    <3> QED
      BY <2>2, <3>1, <3>2, <3>3, <3>4, <3>5, <3>6, <3>7, <3>8, <3>9, <3>10, Zenon DEF Work
  <2>3. CASE Rmtree /\ tree' = NoTree  BY <2>1, <2>3, <1>Outside, Zenon DEF Rmtree
  <2>4. CASE Killed /\ tree' = IF resync' = resync THEN tree ELSE NoTree
    BY <2>1, <2>4, <1>Outside, Zenon DEF Killed, Removing
  <2> QED  BY <2>2, <2>3, <2>4, Zenon DEF ApplyNext
(* A step inside of undo: what it knows of the files saves them.           *)
<1>Inside. ASSUME pc' \in UndoLabels, Turns', Moving', Closing', Stripping', Returning', Ending', Failing'
           PROVE  UnInv'
  <2> USE <1>Inside
  <2> SUFFICES ASSUME ~SfioFails, resync' = "undo", NEW k \in Others PROVE WholeSomewhere(k)'
    BY Zenon DEF UnInv, UndoSaved, Others
  <2>1. k \in Key /\ NewDisk[To[k]] = New(k)  BY Places, Zenon DEF Others
  <2>2. PICK n \in DOMAIN Order : Order[n] = k  BY <2>1, Positions, Zenon
  <2>3. (Moved(k) \/ InPlace(k))' => WholeSomewhere(k)'  BY Zenon DEF Moved, InPlace, WholeSomewhere
  <2>4. Archives' /\ InArchive(k)' => WholeSomewhere(k)'
    BY ApplyNone, Zenon DEF Archives, InArchive, WholeSomewhere
  <2>5. disk'[To[k]] = New(k) => WholeSomewhere(k)'  BY Zenon DEF WholeSomewhere
  <2>6. CASE pc' = "umove"  BY <2>2, <2>3, <2>6, Zenon DEF Moving, Others
  <2>7. CASE pc' \in {"ufail", "uclose"}  BY <2>3, <2>7, Zenon DEF Closing
  <2>8. CASE pc' \in {"ustrip", "unames"}  BY <2>4, <2>8, Zenon DEF Stripping
  <2>9. CASE pc' = "uback"  BY <2>4, <2>9, Zenon DEF Returning
  <2>10. CASE pc' \in {"uid", "urmtree"}  BY <2>4, <2>10, Zenon DEF Ending
  <2>11. CASE pc' \in {"uerr", "urestore"}  BY <2>4, <2>5, <2>11, Zenon DEF Failing
  <2>12. CASE pc' = "uclean"  BY <2>1, <2>5, <2>12, Zenon DEF Failing
  <2>13. pc' # "ucheck"  BY Zenon DEF Turns
  <2> QED
    BY <2>6, <2>7, <2>8, <2>9, <2>10, <2>11, <2>12, <2>13, Zenon DEF UndoLabels
(* Where each of them has nothing to say.                                  *)
<1>Vacuous. /\ pc' # "umove" => Moving'
            /\ pc' \notin {"ufail", "uclose"} => Closing'
            /\ pc' \notin {"ustrip", "unames"} => Stripping'
            /\ pc' # "uback" => Returning'
            /\ pc' \notin {"uid", "urmtree", "ucheck"} => Ending'
            /\ pc' \notin {"uerr", "urestore", "uclean"} => Failing'
  BY Zenon DEF Moving, Closing, Stripping, Returning, Ending, Failing
(* An archive without a file in it: there was nothing to archive.          *)
<1>NothingArchived. ASSUME NEW d \in Files, NEW b, b = << >>,
                           \A p \in Elsewhere : d[p] = NewDisk[p],
                           \A k \in Others : \E n \in DOMAIN b : b[n].file = New(k)
                    PROVE  d = NewDisk
  <2> USE <1>NothingArchived
  <2>1. Others = {}  OBVIOUS
  <2>2. \A p \in Path : d[p] = NewDisk[p]  BY <2>1, Zenon DEF Elsewhere
  <2> QED  BY <2>2, Places DEF Files
<1>BeginInv. UnInv /\ Begin => UnInv'
  <2> SUFFICES ASSUME UnInv, Begin PROVE UnInv'  BY Zenon
  <2>1. Turns  BY Zenon DEF UnInv
  <2>2. CASE resync' # "undo"
    BY <2>1, <2>2, <1>Outside, Zenon DEF Begin, Turns, UndoLabels, ResolveLabels
  <2>3. CASE disk = NewDisk /\ resync' = "undo" /\ backup' = << >> /\ Goto("umove")
    <3>1. disk' = NewDisk /\ tree' = NoTree  BY <2>1, <2>3, Zenon DEF Begin, disk4, Turns
    <3>2. Turns'  BY <2>3, Zenon DEF Turns, Goto, UndoLabels, ResolveLabels
    <3>3. Archives'  BY <2>3 DEF Archives, Saves
    <3>4. Rest'  BY <3>1, Places, Zenon DEF Rest, NoTree, Files
    <3>5. \A k \in Key : InPlace(k)'  BY <3>1, Places, Zenon DEF InPlace, NoTree
    <3>6. i' = 1 /\ 1 \in DOMAIN Order  BY <2>3, Positions DEF Goto
    <3>7. Moving'  BY <3>3, <3>4, <3>5, <3>6, Positions DEF Moving
    <3> QED  BY <2>3, <3>2, <3>7, <1>Vacuous, <1>Inside, Zenon DEF Goto, UndoLabels
  <2> QED  BY <2>2, <2>3, Zenon DEF Begin
<1>MoveOutInv. UnInv /\ MoveOut => UnInv'
  <2> SUFFICES ASSUME UnInv, MoveOut PROVE UnInv'  BY Zenon
  <2>1. /\ Turns /\ Archives /\ Rest
        /\ i \in DOMAIN Order
        /\ \A n \in DOMAIN Order : Order[n] # Cset =>
              IF n < i THEN Moved(Order[n]) ELSE InPlace(Order[n])
    BY Zenon DEF UnInv, Moving, MoveOut
  <2>2. PICK k \in Key : k = Order[i] /\ (k # Cset => InPlace(k))  BY <2>1, Positions
  <2>3. Archives'  BY <2>1, Zenon DEF Archives, MoveOut, temp
  <2>4. CASE Goto("ufail") /\ UNCHANGED <<disk, tree>>
    <3>1. Turns'  BY <2>1, <2>4, Zenon DEF Turns, Goto, UndoLabels, ResolveLabels, MoveOut
    <3>2. \A l \in Others : (Moved(l) \/ InPlace(l))'
      BY <2>1, <2>4, Positions DEF Moved, InPlace, Others
    <3>3. Closing'  BY <2>1, <2>3, <2>4, <3>2, Zenon DEF Closing, Goto, Rest
    <3> QED  BY <2>4, <3>1, <3>3, <1>Vacuous, <1>Inside, Zenon DEF Goto, UndoLabels
  <2>5. CASE /\ disk' = IF k = Cset THEN disk ELSE [disk EXCEPT ![To[k]] = None]
             /\ tree' = [tree EXCEPT ![To[k]] = disk[To[k]]]
             /\ IF i = Len(Order) THEN Goto("uclose") ELSE i' = i + 1 /\ UNCHANGED pc
    <3>1. disk \in Files /\ tree \in Files /\ To[k] \in Path
      BY <2>1, <2>2, Distinct, Zenon DEF Rest
    <3>2. disk' \in Files /\ tree' \in Files  BY <2>5, <3>1, Zenon DEF Files
    <3>3. Rest'
      <4>1. \A p \in Elsewhere : p \in Path /\ (k # Cset => p # To[k])
        BY <2>2, Zenon DEF Elsewhere, Others
      <4>2. \A p \in Elsewhere : disk'[p] = disk[p]  BY <2>5, <3>1, <4>1, Zenon DEF Files
      <4> QED  BY <2>1, <3>2, <4>2, Zenon DEF Rest
    <3>4. k # Cset => Moved(k)'
      BY <2>2, <2>5, <3>1, Zenon DEF InPlace, Moved, Files
    <3>5. \A l \in Key \ {k} : disk'[To[l]] = disk[To[l]] /\ tree'[To[l]] = tree[To[l]]
      BY <2>2, <2>5, <3>1, Distinct, Zenon DEF Files
    <3>6. \A l \in Key \ {k} : (Moved(l) => Moved(l)') /\ (InPlace(l) => InPlace(l)')
      BY <3>5, Zenon DEF Moved, InPlace
    <3>7. \A n \in DOMAIN Order : Order[n] # Cset =>
             IF n < i + 1 THEN Moved(Order[n])' ELSE InPlace(Order[n])'
      <4> SUFFICES ASSUME NEW n \in DOMAIN Order, Order[n] # Cset
                   PROVE  IF n < i + 1 THEN Moved(Order[n])' ELSE InPlace(Order[n])'
        BY Zenon
      <4>1. CASE n = i  BY <2>2, <3>4, <4>1, <2>1, Positions
      <4>2. CASE n # i
        <5>1. Order[n] \in Key \ {k}  BY <4>2, <2>1, <2>2, Positions, Zenon
        <5>2. n < i + 1 <=> n < i  BY <4>2, <2>1, Positions
        <5> QED  BY <5>1, <5>2, <3>6, <2>1, Zenon
      <4> QED  BY <4>1, <4>2, Zenon
    <3>8. CASE i = Len(Order)
      <4>1. pc' = "uclose"  BY <2>5, <3>8, Zenon DEF Goto
      <4>2. Turns'  BY <2>1, <4>1, Zenon DEF Turns, UndoLabels, ResolveLabels, MoveOut
      <4>3. \A n \in DOMAIN Order : n < i + 1  BY <3>8, Positions
      <4>4. \A l \in Others : Moved(l)'  BY <3>7, <4>3, Positions DEF Others
      <4>5. Closing'  BY <2>3, <3>3, <4>1, <4>4, Zenon DEF Closing
      <4> QED  BY <4>1, <4>2, <4>5, <1>Vacuous, <1>Inside, Zenon DEF UndoLabels
    <3>9. CASE i # Len(Order)
      <4>1. pc' = "umove" /\ i' = i + 1  BY <2>5, <3>9, Zenon DEF MoveOut
      <4>2. Turns'  BY <2>1, <4>1, Zenon DEF Turns, UndoLabels, ResolveLabels, MoveOut
      <4>3. i' \in DOMAIN Order  BY <2>1, <3>9, <4>1, Positions
      <4>4. Moving'  BY <2>3, <3>3, <3>7, <4>1, <4>3, Zenon DEF Moving
      <4> QED  BY <4>1, <4>2, <4>4, <1>Vacuous, <1>Inside, Zenon DEF UndoLabels
    <3> QED  BY <3>8, <3>9, Zenon
  <2> QED  BY <2>2, <2>4, <2>5, Zenon DEF MoveOut
<1>ArchiveInv. UnInv /\ Archive => UnInv'
  <2> SUFFICES ASSUME UnInv, Archive PROVE UnInv'  BY Zenon
  <2>1. Turns /\ Moving /\ Closing  BY Zenon DEF UnInv
  <2>2. pc \in {"umove", "ufail", "uclose"} /\ UNCHANGED <<disk, tree, pc, i, resync>>
    BY Zenon DEF Archive, disk4
  <2>3. Archives /\ Rest /\ \A l \in Others : Moved(l) \/ InPlace(l)
    BY <2>1, <2>2, Positions DEF Moving, Closing, Others
  <2>4. PICK n \in Pending :
           backup' = Append(backup, [path |-> To[Order[n]], file |-> tree[To[Order[n]]]])
    BY Zenon DEF Archive
  <2>5. PICK k \in Others : k = Order[n] /\ tree[To[k]] = New(k)
    BY <2>3, Positions, Zenon DEF Pending, Moved, InPlace, Others
  <2>6. Archives'
    <3> DEFINE b == [path |-> To[k], file |-> New(k)]
    <3>1. backup \in Saves /\ b \in [path : Path, file : Sfile]
      BY <2>3, Distinct, Zenon DEF Archives, Others
    <3>2. backup' = Append(backup, b)  BY <2>4, <2>5, Zenon
    <3> HIDE DEF b
    <3>3. backup' \in Saves  BY <3>1, <3>2 DEF Saves
    <3>4. \A m \in DOMAIN backup' : backup'[m] = b \/ (m \in DOMAIN backup /\ backup'[m] = backup[m])
      BY <3>1, <3>2 DEF Saves
    <3> QED  BY <2>3, <3>3, <3>4, Zenon DEF Archives, b
  <2>7. Rest' /\ \A l \in Others : (Moved(l) => Moved(l)') /\ (InPlace(l) => InPlace(l)')
    BY <2>2, <2>3, Zenon DEF Rest, Moved, InPlace
  <2>8. Turns'  BY <2>1, <2>2, Zenon DEF Turns
  <2>9. Moving'  BY <2>1, <2>2, <2>6, <2>7, Positions, Zenon DEF Moving, Others
  <2>10. Closing'  BY <2>1, <2>2, <2>6, <2>7, Zenon DEF Closing
  <2> QED  BY <2>2, <2>8, <2>9, <2>10, <1>Vacuous, <1>Inside, Zenon DEF UndoLabels
(* pclose() has waited: what was moved is in the archive.                  *)
<1>Waited. ASSUME Archives, Pending = {} \/ SfioFails, NEW k \in Others, Moved(k)
           PROVE  InArchive(k)
  <2> USE <1>Waited
  <2> SUFFICES ASSUME ~SfioFails PROVE \E n \in DOMAIN backup : backup[n].file = New(k)
    BY Zenon DEF InArchive
  <2>1. PICK n \in DOMAIN Order : Order[n] = k  BY Positions, Zenon DEF Others
  <2>2. k \in Archived  BY <2>1, Distinct, Zenon DEF Pending, Moved, Others
  <2>3. PICK m \in DOMAIN backup : backup[m].file.key = k  BY <2>2, Zenon DEF Archived
  <2>4. PICK l \in Others : backup[m] = [path |-> To[l], file |-> New(l)]  BY Zenon DEF Archives
  <2>5. l = k  BY <2>3, <2>4, Distinct DEF Others
  <2> QED  BY <2>4, <2>5
<1>CloseInv. UnInv /\ Close => UnInv'
  <2> SUFFICES ASSUME UnInv, Close PROVE UnInv'  BY Zenon
  <2>1. Turns /\ Closing /\ (Pending = {} \/ SfioFails)  BY Zenon DEF UnInv, Close
  <2>2. UNCHANGED <<disk, tree, backup, resync>>  BY Zenon DEF Close, disk4, temp
  <2>3. CASE pc = "uclose"
    <3>1. Archives /\ Rest /\ \A k \in Others : Moved(k)  BY <2>1, <2>3, Zenon DEF Closing
    <3>2. pc' = "ustrip"  BY <2>3, Zenon DEF Close, Goto
    <3>3. Archives' /\ Rest'  BY <2>2, <3>1, Zenon DEF Archives, Rest
    <3>4. \A k \in Others : InArchive(k)' /\ disk'[To[k]] = None
      BY <2>1, <2>2, <3>1, <1>Waited, Zenon DEF InArchive, Moved
    <3>5. Stripping'  BY <2>3, <3>3, <3>4, Positions DEF Stripping, Close, Goto
    <3>6. Turns'  BY <2>1, <2>2, <2>3, <3>2, Zenon DEF Turns, UndoLabels, ResolveLabels
    <3> QED  BY <3>2, <3>5, <3>6, <1>Vacuous, <1>Inside, Zenon DEF UndoLabels
  <2>4. CASE pc = "ufail"
    <3>1. Archives /\ Rest /\ \A k \in Others : Moved(k) \/ InPlace(k)
      BY <2>1, <2>4, Zenon DEF Closing
    <3>2. pc' = "uerr"  BY <2>4, Zenon DEF Close, Goto
    <3>3. Archives' /\ disk' \in Files  BY <2>2, <3>1, Zenon DEF Archives, Rest
    <3>4. \A k \in Others : InArchive(k) \/ disk[To[k]] = New(k)
      BY <2>1, <3>1, <1>Waited, Zenon DEF InPlace
    <3>5. ~SfioFails /\ backup = << >> => disk = NewDisk
      <4> SUFFICES ASSUME ~SfioFails, backup = << >> PROVE disk = NewDisk  BY Zenon
      <4>1. \A k \in Others : disk[To[k]] = New(k)  BY <3>4 DEF InArchive
      <4>2. \A p \in Path : disk[p] = NewDisk[p]
        BY <3>1, <4>1, ElsewhereNone, Places DEF Rest, Others
      <4> QED  BY <3>1, <4>2, Places DEF Rest, Files
    <3>6. Failing'  BY <2>2, <3>2, <3>3, <3>4, <3>5, Zenon DEF Failing, InArchive
    <3>7. Turns'  BY <2>1, <2>2, <2>4, <3>2, Zenon DEF Turns, UndoLabels, ResolveLabels
    <3> QED  BY <3>2, <3>6, <3>7, <1>Vacuous, <1>Inside, Zenon DEF UndoLabels
  <2> QED  BY <2>3, <2>4, Zenon DEF Close
(* Once every file is archived an error can be rolled back.                *)
<1>ErrorLater. ASSUME UnInv, pc \in {"ustrip", "unames"}, pc' = "uerr",
                      UNCHANGED <<disk, backup, resync>>
               PROVE  UnInv'
  <2> USE <1>ErrorLater
  <2>1. Turns /\ Archives /\ Rest /\ \A k \in Others : InArchive(k)  BY Zenon DEF UnInv, Stripping
  <2>2. ~SfioFails /\ backup = << >> => disk = NewDisk
    BY <2>1, <1>NothingArchived, Zenon DEF Rest, InArchive
  <2>3. Failing'  BY <2>1, <2>2, Zenon DEF Failing, Archives, Rest, InArchive
  <2>4. Turns'  BY <2>1, Zenon DEF Turns, UndoLabels, ResolveLabels
  <2> QED  BY <2>3, <2>4, <1>Vacuous, <1>Inside, Zenon DEF UndoLabels
<1>StripInv. UnInv /\ Strip => UnInv'
  <2> SUFFICES ASSUME UnInv, Strip PROVE UnInv'  BY Zenon
  <2>1. Turns /\ Stripping /\ pc = "ustrip"  BY Zenon DEF UnInv, Strip
  <2>2. UNCHANGED <<disk, backup, resync>>  BY Zenon DEF Strip, disk4, temp
  <2>3. CASE pc' = "uerr"  BY <2>1, <2>2, <2>3, <1>ErrorLater, Zenon
  <2>4. CASE pc' # "uerr"
    <3>1. pc' \in {"ustrip", "unames"}  BY <2>1, <2>4, Zenon DEF Strip, Goto
    <3>2. tree' = [tree EXCEPT ![To[Order[i]]] =
                      IF From[Order[i]] = None THEN None ELSE Old(Order[i])]
      BY <2>4, Zenon DEF Strip, Goto
    <3>3. tree' \in Files
      <4>1. Old(Order[i]) \in Sfile  BY <2>1, Positions, Zenon DEF Stripping, Old, Sfile
      <4> QED  BY <2>1, <3>2, <4>1, Zenon DEF Stripping, Rest, Files
    <3>4. Archives' /\ Rest'  BY <2>1, <2>2, <3>3, Zenon DEF Stripping, Archives, Rest
    <3>5. pc' = "ustrip" => i' \in DOMAIN Order
      <4>1. pc' = "ustrip" => i # Len(Order) /\ i' = i + 1  BY <2>4, Zenon DEF Strip, Goto
      <4> QED  BY <2>1, <4>1, Positions DEF Stripping
    <3>6. Stripping'  BY <2>1, <2>2, <3>4, <3>5, Zenon DEF Stripping, InArchive
    <3>7. Turns'  BY <2>1, <2>2, <3>1, Zenon DEF Turns, UndoLabels, ResolveLabels
    <3> QED  BY <3>1, <3>6, <3>7, <1>Vacuous, <1>Inside, Zenon DEF UndoLabels
  <2> QED  BY <2>3, <2>4, Zenon
<1>NamesInv. UnInv /\ Names => UnInv'
  <2> SUFFICES ASSUME UnInv, Names PROVE UnInv'  BY Zenon
  <2>1. Turns /\ Stripping /\ pc = "unames"  BY Zenon DEF UnInv, Names
  <2>2. UNCHANGED <<disk, backup, resync>>  BY Zenon DEF Names, disk4, temp
  <2>3. CASE pc' = "uerr"  BY <2>1, <2>2, <2>3, <1>ErrorLater, Zenon
  <2>4. CASE pc' # "uerr"
    <3>1. pc' = "uback" /\ i' = 1 /\ tree' = OldDisk  BY <2>4, Zenon DEF Names, Goto
    <3>2. Archives' /\ (\A k \in Others : InArchive(k)') /\ disk' \in Files /\ tree' \in Files
      BY <2>1, <2>2, <3>1, Places, Zenon DEF Stripping, Archives, Rest, InArchive
    <3>3. Back' # {}
      <4>1. PICK n \in DOMAIN Order : Order[n] = Cset  BY Positions, Distinct, Zenon
      <4>2. n >= 1 /\ From[Cset] # None  BY Positions, Distinct
      <4> QED  BY <3>1, <4>1, <4>2, Zenon DEF Back
    <3>4. \A p \in Path : ~Returned(p)'  BY <3>1, Positions DEF Returned
    <3>5. \A p \in Path : disk'[p] = IF p = To[Cset] THEN New(Cset) ELSE None
      BY <2>1, <2>2, Emptied, Zenon
    <3>6. Returning'  BY <3>1, <3>2, <3>3, <3>4, <3>5, Zenon DEF Returning
    <3>7. Turns'  BY <2>1, <2>2, <3>1, Zenon DEF Turns, UndoLabels, ResolveLabels
    <3> QED  BY <3>1, <3>6, <3>7, <1>Vacuous, <1>Inside, Zenon DEF UndoLabels
  <2> QED  BY <2>3, <2>4, Zenon
<1>MoveBackInv. UnInv /\ MoveBack => UnInv'
  <2> SUFFICES ASSUME UnInv, MoveBack PROVE UnInv'  BY Zenon
  <2>1. Turns /\ Returning /\ pc = "uback"  BY Zenon DEF UnInv, MoveBack
  <2>2. UNCHANGED <<backup, resync>>  BY Zenon DEF MoveBack, temp
  <2>3. /\ Archives /\ (\A k \in Others : InArchive(k))
        /\ disk \in Files /\ tree \in Files /\ i \in Nat
        /\ \A p \in Path :
              IF Returned(p) THEN disk[p] = OldDisk[p]
              ELSE tree[p] = OldDisk[p] /\ disk[p] = IF p = To[Cset] THEN New(Cset) ELSE None
    BY <2>1, Zenon DEF Returning
  <2>4. Archives' /\ \A k \in Others : InArchive(k)'  BY <2>2, <2>3, Zenon DEF Archives, InArchive
  <2>5. PICK n \in Back :
           /\ \A m \in Back : n <= m
           /\ \/ /\ disk' = [disk EXCEPT ![From[Order[n]]] = tree[From[Order[n]]]]
                 /\ tree' = [tree EXCEPT ![From[Order[n]]] = None]
                 /\ IF Back = {n} THEN Goto("uid") ELSE i' = n + 1 /\ UNCHANGED pc
              \/ Goto("uerr") /\ UNCHANGED <<disk, tree>>
    BY Zenon DEF MoveBack
  <2>6. n \in DOMAIN Order /\ n \in Nat /\ n >= i /\ Order[n] \in Key  BY Positions DEF Back
  <2>7. PICK p \in Path : p = From[Order[n]]
    BY <2>6, ApplyKeys, Zenon DEF Back
  <2>8. ~Returned(p)
    <3> SUFFICES ASSUME NEW m \in DOMAIN Order, m < i, From[Order[m]] = p PROVE FALSE
      BY Zenon DEF Returned
    <3>1. Order[m] = Order[n]  BY <2>6, <2>7, Distinct, Positions
    <3> QED  BY <2>3, <2>6, <3>1, Positions
  <2>9. \A q \in Path, m \in DOMAIN Order : From[Order[m]] = q /\ m <= n => Returned(q) \/ q = p
    <3> SUFFICES ASSUME NEW q \in Path, NEW m \in DOMAIN Order, From[Order[m]] = q, m <= n,
                        ~Returned(q)
                 PROVE  q = p
      BY Zenon
    <3>1. m >= i  BY <2>3, Positions DEF Returned
    <3>2. m \in Back  BY <3>1, Distinct, Zenon DEF Back
    <3>3. m = n  BY <2>5, <2>6, <3>2, Positions
    <3> QED  BY <2>7, <3>3, Zenon
  <2>10. CASE Goto("uerr") /\ UNCHANGED <<disk, tree>>
    <3>1. ~SfioFails /\ backup = << >> => disk = NewDisk
      <4> SUFFICES ASSUME ~SfioFails, backup = << >> PROVE disk = NewDisk  BY Zenon
      <4>1. Others = {}  BY <2>3 DEF InArchive
      <4>2. \A m \in DOMAIN Order : m = n  BY <2>6, <4>1, Positions DEF Others
      <4>3. \A q \in Path : ~Returned(q)  BY <2>3, <2>6, <4>2 DEF Returned
      <4>4. \A q \in Path : disk[q] = IF q = To[Cset] THEN New(Cset) ELSE None  BY <2>3, <4>3, Zenon
      <4>5. \A q \in Path : disk[q] = NewDisk[q]  BY <4>1, <4>4, ElsewhereNone, Zenon
      <4> QED  BY <2>3, <4>5, Places DEF Files
    <3>2. Failing'  BY <2>2, <2>3, <2>4, <2>10, <3>1, Zenon DEF Failing, Goto
    <3>3. Turns'  BY <2>1, <2>2, <2>10, Zenon DEF Turns, Goto, UndoLabels, ResolveLabels
    <3> QED  BY <2>10, <3>2, <3>3, <1>Vacuous, <1>Inside, Zenon DEF Goto, UndoLabels
  <2>11. CASE /\ disk' = [disk EXCEPT ![From[Order[n]]] = tree[From[Order[n]]]]
              /\ tree' = [tree EXCEPT ![From[Order[n]]] = None]
              /\ IF Back = {n} THEN Goto("uid") ELSE i' = n + 1 /\ UNCHANGED pc
    <3>1. disk' = [disk EXCEPT ![p] = OldDisk[p]] /\ tree' = [tree EXCEPT ![p] = None]
      BY <2>3, <2>7, <2>8, <2>11, Zenon
    <3>2. disk' \in Files /\ tree' \in Files  BY <2>3, <3>1, Places, Zenon DEF Files
    <3>3. disk'[p] = OldDisk[p] /\ \A q \in Path \ {p} : disk'[q] = disk[q] /\ tree'[q] = tree[q]
      BY <2>3, <3>1, Zenon DEF Files
    <3>4. CASE Back = {n}
      <4>1. \A q \in Path, m \in DOMAIN Order : From[Order[m]] = q => Returned(q) \/ q = p
        <5> SUFFICES ASSUME NEW q \in Path, NEW m \in DOMAIN Order, From[Order[m]] = q
                     PROVE  Returned(q) \/ q = p
          BY Zenon
        <5>1. CASE m <= n  BY <2>9, <5>1, Zenon
        <5>2. CASE ~(m <= n)
          <6>1. m >= i  BY <2>3, <2>6, <5>2, Positions
          <6>2. m \in Back  BY <6>1, Distinct, Zenon DEF Back
          <6> QED  BY <2>6, <3>4, <5>2, <6>2
        <5> QED  BY <5>1, <5>2, Zenon
      <4>2. \A q \in Path : ~Returned(q) /\ q # p => q # To[Cset] /\ OldDisk[q] = None
        <5> SUFFICES ASSUME NEW q \in Path, ~Returned(q), q # p
                     PROVE  q # To[Cset] /\ OldDisk[q] = None
          BY Zenon
        <5>1. \A k \in Key : From[k] # q  BY <4>1, Positions, Zenon
        <5> QED  BY <5>1, Places, Distinct, Zenon
      <4>3. \A q \in Path : disk'[q] = OldDisk[q]  BY <2>3, <3>3, <4>2, Zenon
      <4>4. disk' = OldDisk  BY <3>2, <4>3, Places DEF Files
      <4>5. pc' = "uid"  BY <2>11, <3>4, Zenon DEF Goto
      <4>6. Ending'  BY <2>4, <4>4, Zenon DEF Ending
      <4>7. Turns'  BY <2>1, <2>2, <4>5, Zenon DEF Turns, UndoLabels, ResolveLabels
      <4> QED  BY <4>5, <4>6, <4>7, <1>Vacuous, <1>Inside, Zenon DEF UndoLabels
    <3>5. CASE Back # {n}
      <4>1. i' = n + 1 /\ pc' = "uback"  BY <2>1, <2>11, <3>5, Zenon
      <4>2. PICK m \in Back : m # n  BY <2>5, <3>5, Zenon
      <4>3. m \in Back'
        <5>1. m >= n /\ m \in DOMAIN Order /\ From[Order[m]] # None  BY <2>5, Zenon DEF Back
        <5>2. m >= n + 1  BY <2>6, <4>2, <5>1, Positions
        <5> QED  BY <4>1, <5>1, <5>2, Zenon DEF Back
      <4>4. \A q \in Path : Returned(q)' <=> Returned(q) \/ q = p
        <5> SUFFICES ASSUME NEW q \in Path PROVE Returned(q)' <=> Returned(q) \/ q = p  BY Zenon
        <5>1. \A l \in DOMAIN Order : (l < i' <=> l <= n) /\ (l < i => l <= n)
          BY <2>3, <2>6, <4>1, Positions
        <5>2. Returned(q)' => Returned(q) \/ q = p  BY <2>9, <5>1, Zenon DEF Returned
        <5>3. Returned(q) => Returned(q)'  BY <5>1, Zenon DEF Returned
        <5>4. q = p => Returned(q)'
          <6>1. n <= n  BY <2>6
          <6> QED  BY <2>6, <2>7, <5>1, <6>1, Zenon DEF Returned
        <5> QED  BY <5>2, <5>3, <5>4, Zenon
      <4>5. \A q \in Path :
               IF Returned(q)' THEN disk'[q] = OldDisk[q]
               ELSE tree'[q] = OldDisk[q] /\ disk'[q] = IF q = To[Cset] THEN New(Cset) ELSE None
        BY <2>3, <3>3, <4>4, Zenon
      <4>6. Returning'  BY <2>4, <2>6, <3>2, <4>1, <4>3, <4>5 DEF Returning
      <4>7. Turns'  BY <2>1, <2>2, <4>1, Zenon DEF Turns, UndoLabels, ResolveLabels
      <4> QED  BY <4>1, <4>6, <4>7, <1>Vacuous, <1>Inside, Zenon DEF UndoLabels
    <3> QED  BY <3>4, <3>5, Zenon
  <2> QED  BY <2>5, <2>10, <2>11, Zenon
<1>EndInv. UnInv /\ (IdUpdate \/ UndoRmtree \/ UndoCheck) => UnInv'
  <2> SUFFICES ASSUME UnInv, IdUpdate \/ UndoRmtree \/ UndoCheck PROVE UnInv'  BY Zenon
  <2>1. Turns /\ Ending  BY Zenon DEF UnInv
  <2>2. CASE IdUpdate
    <3>1. pc = "uid" /\ pc' = "urmtree" /\ UNCHANGED <<disk, backup, resync, tree>>
      BY <2>2, Zenon DEF IdUpdate, Goto, temp
    <3>2. Ending'  BY <2>1, <3>1, Zenon DEF Ending, Archives, InArchive
    <3>3. Turns'  BY <2>1, <3>1, Zenon DEF Turns, UndoLabels, ResolveLabels
    <3> QED  BY <3>1, <3>2, <3>3, <1>Vacuous, <1>Inside, Zenon DEF UndoLabels
  <2>3. CASE UndoRmtree
    <3>1. pc = "urmtree" /\ pc' = "ucheck" /\ disk' = disk /\ resync' = "none" /\ tree' = NoTree
      BY <2>3, Zenon DEF UndoRmtree, Goto, disk4
    <3>2. Ending'  BY <2>1, <3>1, Zenon DEF Ending
    <3>3. Turns'  BY <2>1, <3>1, Zenon DEF Turns, UndoLabels, ResolveLabels
    <3> QED  BY <3>1, <3>2, <3>3, <1>Vacuous, <1>Inside, Zenon DEF UndoLabels
  <2>4. CASE UndoCheck
    BY <2>1, <2>4, <1>Outside, Zenon DEF UndoCheck, Goto, Turns, UndoLabels, ResolveLabels
  <2> QED  BY <2>2, <2>3, <2>4, Zenon
<1>ErrInv. UnInv /\ Err => UnInv'
  <2> SUFFICES ASSUME UnInv, Err PROVE UnInv'  BY Zenon
  <2>1. Turns /\ Failing /\ pc = "uerr"  BY Zenon DEF UnInv, Err
  <2>2. UNCHANGED <<disk, resync, tree>>  BY Zenon DEF Err, disk4
  <2>3. CASE pc' = "urestore"
    <3>1. i' = 1 /\ backup' = backup  BY <2>3, Zenon DEF Err, Goto
    <3>2. Failing'  BY <2>1, <2>2, <2>3, <3>1 DEF Failing, Archives, InArchive
    <3>3. Turns'  BY <2>1, <2>2, <2>3, Zenon DEF Turns, UndoLabels, ResolveLabels
    <3> QED  BY <2>3, <3>2, <3>3, <1>Vacuous, <1>Inside, Zenon DEF UndoLabels
  <2>4. CASE pc' # "urestore"
    <3>1. pc' = "uclean" /\ backup = << >>  BY <2>4, Zenon DEF Err, Goto
    <3>2. Failing'  BY <2>1, <2>2, <3>1, Zenon DEF Failing
    <3>3. Turns'  BY <2>1, <2>2, <3>1, Zenon DEF Turns, UndoLabels, ResolveLabels
    <3> QED  BY <3>1, <3>2, <3>3, <1>Vacuous, <1>Inside, Zenon DEF UndoLabels
  <2> QED  BY <2>3, <2>4, Zenon
<1>UndoRestoreInv. UnInv /\ UndoRestore => UnInv'
  <2> SUFFICES ASSUME UnInv, UndoRestore PROVE UnInv'  BY Zenon
  <2>1. Turns /\ Failing /\ pc = "urestore"  BY Zenon DEF UnInv, UndoRestore
  <2>2. UNCHANGED <<backup, resync, tree>>  BY Zenon DEF UndoRestore, Extract, temp
  <2>3. /\ Archives /\ disk \in Files /\ i \in Nat \ {0}
        /\ \A k \in Others : InArchive(k) \/ disk[To[k]] = New(k)
    BY <2>1, Zenon DEF Failing
  <2>4. CASE pc' = "idle"
    <3>1. Turns'  BY <2>1, <2>2, <2>4, Zenon DEF Turns, UndoLabels, ResolveLabels
    <3>2. disk' = disk  BY <2>1, <2>4, Zenon DEF UndoRestore, Extract
    <3> QED  BY <2>2, <2>4, <3>1, <3>2, <1>Outside, Zenon
  <2>5. CASE pc' # "idle"
    <3>1. /\ pc' = pc /\ i' = i + 1 /\ i <= Len(backup)
          /\ disk' = [disk EXCEPT ![backup[i].path] = backup[i].file]
      BY <2>5, Zenon DEF UndoRestore, Extract, Goto
    <3>2. i \in DOMAIN backup  BY <2>3, <3>1 DEF Archives, Saves
    <3>3. PICK k \in Others : backup[i] = [path |-> To[k], file |-> New(k)]
      BY <2>3, <3>2, Zenon DEF Archives
    <3>4. disk' = [disk EXCEPT ![To[k]] = New(k)] /\ k \in Key  BY <3>1, <3>3 DEF Others
    <3>5. disk' \in Files  BY <2>3, <3>4, Distinct, Zenon DEF Files
    <3>6. \A l \in Others : InArchive(l)' \/ disk'[To[l]] = New(l)
      <4> SUFFICES ASSUME NEW l \in Others PROVE InArchive(l)' \/ disk'[To[l]] = New(l)  BY Zenon
      <4>1. CASE InArchive(l)  BY <2>2, <4>1, Zenon DEF InArchive
      <4>2. CASE l = k  BY <2>3, <3>4, <4>2, Distinct, Zenon DEF Files
      <4>3. CASE l # k /\ disk[To[l]] = New(l)
        BY <2>3, <3>4, <4>3, Distinct, Zenon DEF Files, Others
      <4> QED  BY <2>3, <4>1, <4>2, <4>3, Zenon
    <3>7. backup' # << >>  BY <2>2, <3>2
    <3>8. Archives' /\ i' \in Nat \ {0}  BY <2>2, <2>3, <3>1 DEF Archives
    <3>9. Failing'  BY <2>1, <3>1, <3>5, <3>6, <3>7, <3>8, Zenon DEF Failing
    <3>10. Turns'  BY <2>1, <2>2, <3>1, Zenon DEF Turns
    <3> QED  BY <2>1, <3>1, <3>9, <3>10, <1>Vacuous, <1>Inside, Zenon DEF UndoLabels
  <2> QED  BY <2>4, <2>5, Zenon
<1>UndoRestoredInv. UnInv /\ (UndoRestored \/ Clean) => UnInv'
  <2> SUFFICES ASSUME UnInv, UndoRestored \/ Clean PROVE UnInv'  BY Zenon
  <2>1. Turns  BY Zenon DEF UnInv
  <2>2. CASE UndoRestored /\ pc' = "uclean"
    <3>1. pc = "urestore" /\ disk' = NewDisk /\ UNCHANGED <<resync, tree>>
      BY <2>2, Zenon DEF UndoRestored, Goto
    <3>2. Failing'  BY <2>2, <3>1, Zenon DEF Failing
    <3>3. Turns'  BY <2>1, <2>2, <3>1, Zenon DEF Turns, UndoLabels, ResolveLabels
    <3> QED  BY <2>2, <3>2, <3>3, <1>Vacuous, <1>Inside, Zenon DEF UndoLabels
  <2>3. CASE UndoRestored /\ pc' # "uclean"
    BY <2>1, <2>3, <1>Outside, Zenon DEF UndoRestored, Goto, Turns, UndoLabels, ResolveLabels
  <2>4. CASE Clean
    BY <2>1, <2>4, <1>Outside, Zenon DEF Clean, Goto, Turns, UndoLabels, ResolveLabels
  <2> QED  BY <2>2, <2>3, <2>4, Zenon
<1>StutterInv. UnInv /\ UNCHANGED uvars => UnInv'
  <2> SUFFICES ASSUME UnInv, UNCHANGED uvars PROVE UnInv'  BY Zenon
  <2>1. UNCHANGED <<disk, backup, tree, pc, i, resync>>  BY Zenon DEF uvars, vars, disk4, temp
  <2>2. /\ Turns /\ Moving /\ Closing /\ Stripping /\ Returning /\ Ending /\ Failing
        /\ ~SfioFails => UndoSaved
    BY Zenon DEF UnInv
  <2>3. /\ Archives => Archives'
        /\ Rest => Rest'
        /\ \A k \in Others : /\ Moved(k) => Moved(k)'
                             /\ InPlace(k) => InPlace(k)'
                             /\ InArchive(k) => InArchive(k)'
    BY <2>1, Zenon DEF Archives, Rest, Moved, InPlace, InArchive
  <2>4. Back' = Back /\ \A p \in Path : Returned(p)' <=> Returned(p)
    BY <2>1, Zenon DEF Back, Returned
  <2>5. Turns' /\ Ending' /\ Failing'  BY <2>1, <2>2, <2>3, Zenon DEF Turns, Ending, Failing
  <2>6. Moving'  BY <2>1, <2>2, <2>3, Positions, Zenon DEF Moving, Others
  <2>7. Closing' /\ Stripping'  BY <2>1, <2>2, <2>3, Zenon DEF Closing, Stripping
  <2>8. Returning'  BY <2>1, <2>2, <2>3, <2>4, Zenon DEF Returning
  <2>9. ~SfioFails => UndoSaved'  BY <2>1, <2>2, Zenon DEF UndoSaved, WholeSomewhere
  <2> QED  BY <2>5, <2>6, <2>7, <2>8, <2>9, Zenon DEF UnInv
<1> QED
  BY <1>ApplyNextInv, <1>BeginInv, <1>MoveOutInv, <1>ArchiveInv, <1>CloseInv, <1>StripInv, <1>NamesInv, <1>MoveBackInv,
     <1>EndInv, <1>ErrInv, <1>UndoRestoreInv, <1>UndoRestoredInv, <1>StutterInv, Zenon DEF UnNext

-----------------------------------------------------------------------------

(* What undo knows of the files, at each of its steps.                     *)
THEOREM UnInvariant == UnSpec => []UnInv
BY InitInv, NextInv, PTL DEF UnSpec

(* No s.file is lost, wherever undo() fails or is killed: it is in its     *)
(* place, in RESYNC or in BACKUP_SFIO until the RESYNC is removed.         *)
THEOREM UnSaved == ~SfioFails => (UnSpec => []UndoSaved)
<1> SUFFICES ASSUME ~SfioFails PROVE UnSpec => []UndoSaved  BY Zenon
<1>1. UnSpec => []UnInv  BY UnInvariant, Zenon
<1>2. UnInv => UndoSaved  BY Zenon DEF UnInv
<1> QED  BY <1>1, <1>2, PTL

(* No file that move_file() puts back finds its name taken, whichever      *)
(* files the update had renamed, and to whatever names.                    *)
THEOREM UnNoConflict == UnSpec => []UndoNoConflict
<1>1. UnInv => UndoNoConflict  BY Emptied, Zenon DEF UnInv, UndoNoConflict
<1> QED  BY <1>1, UnInvariant, PTL

Counted == faults \in Nat

LEMMA FaultsStep == [UnNext]_uvars => faults' \in {faults, faults + 1}
<1> SUFFICES ASSUME [UnNext]_uvars PROVE faults' \in {faults, faults + 1}
  BY Zenon
<1>1. CASE Work
  BY <1>1, Zenon
     DEF Work, TakeLock, TakeDone, TakeFails, Resolve, Trigger, List, Save, Sfio, Remove,
         Link, Here, Move, Check, Unapply, Restore, Restored, Extract, Done, Abort
<1>2. CASE Rmtree \/ Killed  BY <1>2, Zenon DEF Rmtree, Killed
<1>3. CASE Begin \/ MoveOut \/ Archive \/ Close \/ Strip \/ Names
  BY <1>3, Zenon DEF Begin, MoveOut, Archive, Close, Strip, Names
<1>4. CASE MoveBack  BY <1>4, Zenon DEF MoveBack
<1>5. CASE IdUpdate \/ UndoRmtree \/ UndoCheck \/ Err
  BY <1>5, Zenon DEF IdUpdate, UndoRmtree, UndoCheck, Err
<1>6. CASE UndoRestore \/ UndoRestored \/ Clean
  BY <1>6, Zenon DEF UndoRestore, Extract, UndoRestored, Clean
<1>7. CASE UNCHANGED uvars  BY <1>7, Zenon DEF uvars, vars
<1> QED  BY <1>1, <1>2, <1>3, <1>4, <1>5, <1>6, <1>7, Zenon DEF UnNext, ApplyNext

LEMMA FaultsNat == Counted /\ [UnNext]_uvars => Counted'
BY FaultsStep DEF Counted

(* The steps in which an undo ends by itself.                              *)
LEMMA ExitSteps ==
    ASSUME Counted, UnNext, UndoExit
    PROVE  UndoCheck \/ UndoRestore \/ UndoRestored \/ Clean
<1>0. pc \in UndoLabels /\ pc' = "idle" /\ faults' = faults  BY Zenon DEF UndoExit
<1> USE DEF Goto, UndoLabels
<1>1. ~ApplyNext
  <2>1. ~(TakeLock \/ TakeDone \/ TakeFails \/ Resolve \/ Trigger \/ List \/ Save \/ Sfio)
    BY <1>0, Zenon DEF TakeLock, TakeDone, TakeFails, Resolve, Trigger, List, Save, Sfio
  <2>2. ~(Remove \/ Link \/ Here \/ Move \/ Check \/ Unapply)
    BY <1>0, Zenon DEF Remove, Link, Here, Move, Check, Unapply
  <2>3. ~(Restore \/ Restored \/ Done \/ Abort \/ Rmtree)
    BY <1>0, Zenon DEF Restore, Restored, Done, Abort, Rmtree
  <2>4. ~Killed  BY <1>0 DEF Killed, Counted
  <2> QED  BY <2>1, <2>2, <2>3, <2>4, Zenon DEF ApplyNext, Work
<1>2. ~(Begin \/ MoveOut \/ Archive \/ Close \/ Strip \/ Names \/ MoveBack \/ IdUpdate
        \/ UndoRmtree \/ Err)
  <2>1. ~(Begin \/ MoveOut \/ Archive \/ Close)
    BY <1>0, Zenon DEF Begin, MoveOut, Archive, Close
  <2>2. ~(Strip \/ Names \/ IdUpdate \/ UndoRmtree \/ Err)
    BY <1>0, Zenon DEF Strip, Names, IdUpdate, UndoRmtree, Err
  <2>3. ~MoveBack  BY <1>0, Zenon DEF MoveBack
  <2> QED  BY <2>1, <2>2, <2>3, Zenon
<1> QED  BY <1>1, <1>2, Zenon DEF UnNext

LEMMA ExitSettled ==
    ASSUME ~SfioFails, UnInv, Counted, UnNext, UndoExit
    PROVE  Settled'
<1>0. pc \in UndoLabels /\ pc' = "idle" /\ faults' = faults  BY Zenon DEF UndoExit
<1> USE DEF Goto, UndoLabels, Settled
<1>1. CASE UndoCheck  BY <1>0, <1>1, Zenon DEF UnInv, Turns, Ending, UndoCheck
<1>2. CASE UndoRestore
  BY <1>0, <1>2, ApplyNone, Zenon DEF UnInv, Turns, Failing, Archives, UndoRestore, Extract, temp
<1>3. CASE UndoRestored
  BY <1>0, <1>3, ApplyNone, Zenon DEF UnInv, Turns, Failing, Archives, UndoRestored
<1>4. CASE Clean  BY <1>0, <1>4, Zenon DEF UnInv, Failing, Clean, disk4
<1> QED  BY <1>1, <1>2, <1>3, <1>4, ExitSteps, Zenon

(* An undo() that ends by itself has undone all of the update or none of   *)
(* it and has removed RESYNC, or else RESYNC and BACKUP_SFIO are there.    *)
THEOREM UnEnds == ~SfioFails => (UnSpec => UndoEnds)
<1> SUFFICES ASSUME ~SfioFails PROVE UnSpec => UndoEnds  BY Zenon
<1>1. UnSpec => []UnInv  BY UnInvariant, Zenon
<1>2. UnInit => Counted  BY DEF UnInit, Init, Counted
<1>3. Counted /\ [UnNext]_uvars => Counted'  BY FaultsNat, Zenon
<1>4. UnInv /\ Counted /\ [UnNext]_uvars => [UndoExit => Settled']_uvars
  BY ExitSettled, Zenon
<1> QED  BY <1>1, <1>2, <1>3, <1>4, PTL DEF UnSpec, UndoEnds

-----------------------------------------------------------------------------

(* Pass 4 has linked what it goes by.                                      *)
LEMMA LinkedNext == TypeInv /\ Linked /\ [UnNext]_uvars => Linked'
<1> SUFFICES ASSUME TypeInv, Linked, [UnNext]_uvars PROVE Linked'  BY Zenon
<1> USE DEF Goto, Replacing
<1>0. pc' \notin Replacing /\ applied' = {} => Linked'  BY Zenon DEF Linked
<1>1. pc \notin Replacing => applied = {}  BY Zenon DEF Linked
<1>2. CASE \/ TakeLock \/ TakeDone \/ TakeFails \/ Resolve \/ Trigger \/ Save \/ Sfio
           \/ Restore \/ Restored \/ Done \/ Abort \/ Rmtree \/ Killed
  <2>1. CASE \/ TakeLock \/ TakeDone \/ TakeFails \/ Resolve \/ Trigger \/ Save \/ Sfio
    BY <1>0, <1>1, <2>1, Zenon
       DEF TakeLock, TakeDone, TakeFails, Resolve, Trigger, Save, Sfio
  <2>2. CASE Restore \/ Restored \/ Done \/ Abort \/ Rmtree \/ Killed
    BY <1>0, <1>1, <2>2, Zenon DEF Restore, Extract, Restored, Done, Abort, Rmtree, Killed
  <2> QED  BY <1>2, <2>1, <2>2, Zenon
<1>3. CASE List
  BY <1>0, <1>1, <1>3, Positions DEF List, Linked
<1>4. CASE Remove
  BY <1>0, <1>1, <1>4, Positions DEF Remove, Linked
<1>5. CASE Link
  <2>1. i \in DOMAIN Order /\ disk \in Files
    BY <1>5, Zenon DEF TypeInv, UnTypeOK, ApTypeOK, Files, Steps, Link
  <2>2. PICK k \in Key : k = Order[i]  BY <2>1, Positions, Zenon
  <2>3. /\ \A n \in DOMAIN Order : n < i => disk[To[Order[n]]] = New(Order[n])
        /\ \A p \in applied : \E l \in Key : disk[p] = New(l)
    BY <1>5, Zenon DEF Linked, Link
  <2>4. CASE pc' = "unapply"
    BY <1>5, <2>3, <2>4, Zenon DEF Link, Linked
  <2>5. CASE pc' # "unapply"
    <3>1. /\ disk[To[k]] = None /\ disk' = [disk EXCEPT ![To[k]] = New(k)]
          /\ applied' = applied \cup {To[k]}
          /\ IF i = Len(Order) THEN pc' = "here" /\ i' = 1 ELSE pc' = "link" /\ i' = i + 1
      BY <1>5, <2>2, <2>5, Zenon DEF Link
    <3>2. disk'[To[k]] = New(k) /\ \A p \in Path \ {To[k]} : disk'[p] = disk[p]
      BY <2>1, <3>1, Distinct, Zenon DEF Files
    <3>3. \A n \in DOMAIN Order : n <= i => disk'[To[Order[n]]] = New(Order[n])
      <4> SUFFICES ASSUME NEW n \in DOMAIN Order, n <= i
                   PROVE  disk'[To[Order[n]]] = New(Order[n])
        BY Zenon
      <4>1. CASE n = i  BY <2>2, <3>2, <4>1, Zenon
      <4>2. CASE n # i
        <5>1. n < i /\ Order[n] \in Key /\ Order[n] # k  BY <2>1, <2>2, <4>2, Positions
        <5>2. To[Order[n]] \in Path \ {To[k]}  BY <5>1, Distinct, Zenon
        <5> QED  BY <2>3, <3>2, <5>1, <5>2, Zenon
      <4> QED  BY <4>1, <4>2, Zenon
    <3>4. \A p \in applied' : \E l \in Key : disk'[p] = New(l)
      <4> SUFFICES ASSUME NEW p \in applied' PROVE \E l \in Key : disk'[p] = New(l)  BY Zenon
      <4>1. CASE p = To[k]  BY <3>2, <4>1, Zenon
      <4>2. CASE p # To[k]
        <5>1. p \in applied /\ p \in Path  BY <3>1, <4>2, Zenon DEF TypeInv, UnTypeOK, ApTypeOK
        <5> QED  BY <2>3, <3>2, <4>2, <5>1, Zenon
      <4> QED  BY <4>1, <4>2, Zenon
    <3>5. CASE i = Len(Order)
      <4>1. AllNew'
        <5> SUFFICES ASSUME NEW l \in Key PROVE disk'[To[l]] = New(l)  BY Zenon DEF AllNew
        <5>1. PICK n \in DOMAIN Order : Order[n] = l  BY Positions, Zenon
        <5>2. n <= i  BY <3>5, Positions
        <5> QED  BY <3>3, <5>1, <5>2, Zenon
      <4> QED  BY <3>1, <3>4, <3>5, <4>1, Zenon DEF Linked
    <3>6. CASE i # Len(Order)
      <4>1. \A n \in DOMAIN Order : n < i' => n <= i  BY <2>1, <3>1, <3>6, Positions
      <4> QED  BY <3>1, <3>3, <3>4, <3>6, <4>1, Zenon DEF Linked
    <3> QED  BY <3>5, <3>6, Zenon
  <2> QED  BY <2>4, <2>5, Zenon
<1>6. CASE Here \/ Move \/ Check
  <2>1. /\ pc \in {"here", "move", "check"} /\ pc' \in {"check", "move", "done", "unapply"}
        /\ pc' \in {"check", "done"} => ~rhere'
        /\ UNCHANGED <<disk, applied>>
    BY <1>6 DEF Here, Move, Check, Linked
  <2> QED  BY <2>1, Zenon DEF Linked, AllNew
<1>7. CASE Unapply
  <2>1. CASE pc' # "unapply"  BY <1>0, <1>7, <2>1, Zenon DEF Unapply
  <2>2. CASE pc' = "unapply"
    <3>1. PICK p \in applied : applied' = applied \ {p} /\ disk' \in {disk, [disk EXCEPT ![p] = None]}
      BY <1>7, <2>2, Zenon DEF Unapply
    <3>2. disk \in Files /\ applied \subseteq Path  BY Zenon DEF TypeInv, UnTypeOK, ApTypeOK, Files
    <3>3. \A q \in applied' : q \in applied /\ disk'[q] = disk[q]  BY <3>1, <3>2, Zenon DEF Files
    <3> QED  BY <2>2, <3>3, Zenon DEF Linked
  <2> QED  BY <2>1, <2>2, Zenon
<1>8. CASE Begin \/ MoveOut \/ Archive \/ Close \/ Strip \/ Names
  BY <1>0, <1>1, <1>8, Zenon DEF Begin, MoveOut, Archive, Close, Strip, Names
<1>9. CASE MoveBack  BY <1>0, <1>1, <1>9, Zenon DEF MoveBack
<1>10. CASE IdUpdate \/ UndoRmtree \/ UndoCheck \/ Err
  BY <1>0, <1>1, <1>10, Zenon DEF IdUpdate, UndoRmtree, UndoCheck, Err
<1>11. CASE UndoRestore \/ UndoRestored \/ Clean
  BY <1>0, <1>1, <1>11, Zenon DEF UndoRestore, Extract, UndoRestored, Clean
<1>12. CASE UNCHANGED uvars
  <2>1. UNCHANGED <<disk, rhere, pc, i, applied>>  BY <1>12, Zenon DEF uvars, vars, disk4
  <2> QED  BY <2>1, Zenon DEF Linked, AllNew
<1> QED
  BY <1>2, <1>3, <1>4, <1>5, <1>6, <1>7, <1>8, <1>9, <1>10, <1>11, <1>12, Zenon
     DEF UnNext, ApplyNext, Work

(* Until all of an update is in place, every s.file it replaces is at its  *)
(* old path or in BACKUP_SFIO, wherever resolve is killed or fails in pass *)
(* 4, as long as that pass has begun to save the files only once.          *)
THEOREM OldKept == UnSpec => []OldRecoverable
<1>1. UnInit => Linked /\ Tried  BY InitTried, Zenon
<1>2. TypeInv /\ UnInv /\ Linked /\ Tried /\ [UnNext]_uvars => Linked' /\ Tried'
  BY LinkedNext, TriedNext, Zenon DEF UnInv, Ending
<1>3. Tried => OldRecoverable
  BY Zenon DEF Tried, OldRecoverable, AllSaved, Completed
<1> QED  BY <1>1, <1>2, <1>3, TypeAlways, UnInvariant, PTL DEF UnSpec
=============================================================================
