---------------------------- MODULE UpdateProofs ----------------------------
(***************************************************************************)
(* What an update of any number of files, with any renames, and bk undo    *)
(* beside it do to the repository, wherever they fail or are killed.       *)
(***************************************************************************)
EXTENDS UndoProofs

(* Nothing has gone wrong but what the code rolls back.                    *)
IdOld == \A k \in Key : From[k] # None => id[k] = From[k]
OldRepo == disk = OldDisk /\ IdOld
Resting ==
    /\ pc \in {"idle", "take", "rmtree"} => disk = NewDisk \/ OldRepo
    /\ pc = "idle" /\ resync = "full" => OldRepo
Listing ==
    /\ pc \in {"trigger", "list", "save", "sfio"} => OldRepo
    /\ pc = "list" => \A n \in DOMAIN Order :
          n < i /\ From[Order[n]] # None => \E m \in DOMAIN list : list[m] = From[Order[n]]
    /\ pc \in {"save", "sfio", "remove"} =>
          \A p \in Path : OldDisk[p] # None => \E m \in DOMAIN list : list[m] = p
BackupOld ==
    /\ backup # None
    /\ \A n \in DOMAIN backup : backup[n].file = OldDisk[backup[n].path]
    /\ \A p \in Path : OldDisk[p] # None => \E n \in DOMAIN backup : backup[n].path = p
Rolling ==
    /\ pc \in {"remove", "link", "here", "move", "check", "unapply", "restore"} => BackupOld
    /\ pc = "remove" => \A n \in DOMAIN list : n < i => disk[list[n]] = None
    /\ pc \in {"remove", "restore"} => \A p \in Path : disk[p] \in {None, OldDisk[p]}
    /\ pc = "restore" => \A n \in DOMAIN backup : n < i => disk[backup[n].path] = backup[n].file
Applying ==
    /\ pc \in {"link", "here", "move", "check", "unapply"} =>
          \A p \in Path : disk[p] # None => p \in applied
    /\ pc = "link" => \A p \in applied : \E n \in DOMAIN Order : n < i /\ To[Order[n]] = p
    /\ pc \in {"here", "move", "check", "done"} => disk = NewDisk
Undoing ==
    /\ pc \in {"uerr", "urestore"} => \A p \in Path : disk[p] \in {None, NewDisk[p]}
    /\ pc \in {"uerr", "urestore"} => \A p \in Elsewhere : disk[p] = NewDisk[p]
    /\ pc = "urestore" => \A n \in DOMAIN backup : n < i => disk[backup[n].path] = backup[n].file
    /\ pc \in {"urmtree", "ucheck"} => IdOld
Sound == Resting /\ Listing /\ Rolling /\ Applying /\ Undoing
NoFault == faults = 0 => Sound

-----------------------------------------------------------------------------

(* What there is to show at each place.                                    *)
LEMMA SoundAt ==
    /\ pc' \in {"idle", "take", "rmtree"} /\ Resting' => Sound'
    /\ pc' \in {"trigger", "list", "save", "sfio"} /\ Listing' => Sound'
    /\ pc' = "remove" /\ Listing' /\ Rolling' => Sound'
    /\ pc' \in {"link", "here", "move", "check", "unapply"} /\ Rolling' /\ Applying' => Sound'
    /\ pc' = "restore" /\ Rolling' => Sound'
    /\ pc' = "done" /\ Applying' => Sound'
    /\ pc' \in {"uerr", "urestore", "urmtree", "ucheck"} /\ Undoing' => Sound'
    /\ pc' \in UndoLabels \ {"uerr", "urestore", "urmtree", "ucheck"} => Sound'
BY Zenon DEF Sound, Resting, Listing, Rolling, Applying, Undoing, UndoLabels

(* Every file is found where the id cache says it is.                      *)
LEMMA OldFound ==
    ASSUME OldRepo, NEW k \in Key, From[k] # None
    PROVE  Found(k) /\ Lookup(k) = From[k]
<1>1. disk[To[Cset]] # None  BY Distinct, OldPlaces DEF OldRepo
<1>2. Lookup(k) = From[k]  BY <1>1, Zenon DEF Lookup, OldRepo, IdOld
<1>3. Has(From[k], k)  BY OldPlaces, Zenon DEF Has, OldRepo
<1> QED  BY <1>2, <1>3, Zenon DEF Found

(* A check of the old files writes an id cache that is right.              *)
LEMMA WrittenOld ==
    ASSUME disk = OldDisk, id' \in Written
    PROVE  IdOld'
<1> SUFFICES ASSUME NEW k \in Key, From[k] # None PROVE id'[k] = From[k]  BY Zenon DEF IdOld
<1>1. disk[To[Cset]] # None  BY Distinct, OldPlaces
<1>2. From[k] \in Path /\ Has(From[k], k)  BY OldPlaces, Zenon DEF Has
<1>3. id' \in [Key -> Path] /\ Has(id'[k], k)  BY <1>1, <1>2, Zenon DEF Written
<1>4. PICK p \in Path : p = id'[k]  BY <1>3, Zenon
<1>5. OldDisk[p] # None /\ OldDisk[p].key = k  BY <1>3, <1>4, Zenon DEF Has
<1>6. PICK l \in Key : From[l] = p  BY <1>5, OldPlaces, Zenon
<1>7. From[l] # None  BY <1>6, Distinct, Zenon
<1>8. OldDisk[p] = Old(l)  BY <1>6, <1>7, OldPlaces, Zenon
<1>9. l = k  BY <1>5, <1>8, OldPlaces, Zenon
<1> QED  BY <1>4, <1>6, <1>9, Zenon

LEMMA NewIsNotOld == disk[To[Cset]] = Old(Cset) => disk # NewDisk
BY Places, Distinct, OldPlaces

LEMMA RestingSound ==
    ASSUME Sound,
           TakeLock \/ TakeDone \/ TakeFails \/ Resolve \/ Trigger \/ Abort \/ Rmtree
    PROVE  Sound'
<1> USE DEF Goto, disk4
<1>1. UNCHANGED <<disk, id>>
  BY Zenon DEF TakeLock, TakeDone, TakeFails, Resolve, Trigger, Abort, Rmtree
<1>2. /\ pc \in {"idle", "take", "rmtree"} => disk = NewDisk \/ OldRepo
      /\ pc = "idle" /\ resync = "full" => OldRepo
      /\ pc = "trigger" => OldRepo
  BY Zenon DEF Sound, Resting, Listing
<1>3. OldRepo => OldRepo'  BY <1>1, Zenon DEF OldRepo, IdOld
<1>4. CASE TakeLock \/ TakeFails \/ Abort \/ Rmtree
  <2>1. /\ pc \in {"idle", "take", "rmtree"} /\ pc' \in {"idle", "take", "rmtree"}
        /\ pc' = "idle" => resync' # "full"
    BY <1>4, Zenon DEF TakeLock, TakeFails, Abort, Rmtree
  <2>2. Resting'  BY <1>1, <1>2, <1>3, <2>1, Zenon DEF Resting
  <2> QED  BY <2>1, <2>2, SoundAt, Zenon
<1>5. CASE TakeDone
  <2>1. OldRepo /\ pc' = "idle"  BY <1>2, <1>5, NewIsNotOld, Zenon DEF TakeDone
  <2>2. Resting'  BY <1>3, <2>1, Zenon DEF Resting
  <2> QED  BY <2>1, <2>2, SoundAt, Zenon
<1>6. CASE Resolve \/ Trigger
  <2>1. OldRepo' /\ i' = 1 /\ pc' \in {"trigger", "list", "rmtree", "idle"}
    BY <1>2, <1>3, <1>6, Zenon DEF Resolve, Trigger
  <2>2. Resting'  BY <2>1, Zenon DEF Resting
  <2>3. Listing'  BY <2>1, Positions DEF Listing
  <2> QED  BY <2>1, <2>2, <2>3, SoundAt, Zenon
<1> QED  BY <1>4, <1>5, <1>6, Zenon

LEMMA ListSound == TypeInv /\ Sound /\ List => Sound'
<1> SUFFICES ASSUME TypeInv, Sound, List PROVE Sound'  BY Zenon
<1>1. pc = "list" /\ OldRepo  BY Zenon DEF Sound, Listing, List
<1>2. OldRepo'  BY <1>1, Zenon DEF List, disk4, OldRepo, IdOld
<1>3. i \in DOMAIN Order /\ ApTypeOK  BY <1>1, Zenon DEF TypeInv, UnTypeOK, Steps
<1>4. PICK k \in Key : k = Order[i]  BY <1>3, Positions, Zenon
<1>5. PICK before : before = IF i = 1 THEN << >> ELSE list  BY Zenon
<1>6. PICK after : after = IF Found(k) THEN Append(before, Lookup(k)) ELSE before  BY Zenon
<1>7. \/ pc' = "idle"
      \/ list' = after /\ i = Len(Order) /\ pc' = IF after = << >> THEN "link" ELSE "save"
      \/ list' = after /\ i # Len(Order) /\ i' = i + 1 /\ pc' = "list"
  BY <1>1, <1>4, <1>5, <1>6, Zenon DEF List, Goto
<1>8. \A n \in DOMAIN Order :
         n <= i /\ From[Order[n]] # None => \E m \in DOMAIN after : after[m] = From[Order[n]]
  <2> SUFFICES ASSUME NEW n \in DOMAIN Order, n <= i, From[Order[n]] # None
               PROVE  \E m \in DOMAIN after : after[m] = From[Order[n]]
    BY Zenon
  <2>1. before \in Seq(Path) /\ Lookup(k) \in Path  BY <1>3, <1>5, Paths DEF ApTypeOK
  <2>2. CASE n = i
    <3>1. Found(k) /\ Lookup(k) = From[Order[n]]  BY <1>1, <1>4, <2>2, OldFound, Zenon
    <3>2. after = Append(before, From[Order[n]])  BY <1>6, <3>1, Zenon
    <3> QED  BY <2>1, <3>1, <3>2
  <2>3. CASE n # i
    <3>1. n < i /\ i # 1  BY <1>3, <2>3, Positions
    <3>2. before = list  BY <1>5, <3>1, Zenon
    <3>3. PICK m \in DOMAIN before : before[m] = From[Order[n]]
      BY <1>1, <3>1, <3>2, Zenon DEF Sound, Listing
    <3>4. m \in DOMAIN after /\ after[m] = before[m]
      <4>1. CASE Found(k)
        <5>1. after = Append(before, Lookup(k))  BY <1>6, <4>1, Zenon
        <5> QED  BY <2>1, <3>3, <5>1
      <4>2. CASE ~Found(k)  BY <1>6, <3>3, <4>2, Zenon
      <4> QED  BY <4>1, <4>2, Zenon
    <3> QED  BY <3>3, <3>4, Zenon
  <2> QED  BY <2>2, <2>3, Zenon
<1>9. CASE pc' = "idle"
  <2>1. Resting'  BY <1>2, <1>9, Zenon DEF Resting
  <2> QED  BY <1>9, <2>1, SoundAt, Zenon
<1>10. CASE list' = after /\ i = Len(Order) /\ pc' = IF after = << >> THEN "link" ELSE "save"
  <2>1. \A p \in Path : OldDisk[p] # None => \E m \in DOMAIN after : after[m] = p
    <3> SUFFICES ASSUME NEW p \in Path, OldDisk[p] # None PROVE \E m \in DOMAIN after : after[m] = p
      BY Zenon
    <3>1. PICK l \in Key : From[l] = p  BY OldPlaces, Zenon
    <3>2. PICK n \in DOMAIN Order : Order[n] = l  BY Positions, Zenon
    <3>3. n <= i /\ From[Order[n]] # None  BY <1>10, <3>1, <3>2, Positions, Distinct
    <3> QED  BY <1>8, <3>1, <3>2, <3>3, Zenon
  <2>2. after # << >>
    <3>1. PICK m \in DOMAIN after : after[m] = From[Cset]  BY <2>1, Distinct, OldPlaces
    <3> QED  BY <3>1
  <2>3. Listing'  BY <1>2, <1>10, <2>1, <2>2, Zenon DEF Listing
  <2> QED  BY <1>10, <2>2, <2>3, SoundAt, Zenon
<1>11. CASE list' = after /\ i # Len(Order) /\ i' = i + 1 /\ pc' = "list"
  <2>1. \A n \in DOMAIN Order : n < i' => n <= i  BY <1>3, <1>11, Positions
  <2>2. Listing'  BY <1>2, <1>8, <1>11, <2>1, Zenon DEF Listing
  <2> QED  BY <1>11, <2>2, SoundAt, Zenon
<1> QED  BY <1>7, <1>9, <1>10, <1>11, Zenon

LEMMA SaveSound == TypeInv /\ Sound /\ (Save \/ Sfio) => Sound'
<1> SUFFICES ASSUME TypeInv, Sound, Save \/ Sfio PROVE Sound'  BY Zenon
<1> USE DEF Goto, disk4
<1>1. pc \in {"save", "sfio"} /\ UNCHANGED <<disk, id, list>>  BY Zenon DEF Save, Sfio
<1>2. OldRepo /\ \A p \in Path : OldDisk[p] # None => \E m \in DOMAIN list : list[m] = p
  BY <1>1, Zenon DEF Sound, Listing
<1>3. OldRepo'  BY <1>1, <1>2, Zenon DEF OldRepo, IdOld
<1>4. Listing'
  <2>1. pc' \in {"sfio", "remove", "idle"}  BY Zenon DEF Save, Sfio
  <2> QED  BY <1>1, <1>2, <1>3, <2>1, Zenon DEF Listing
<1>5. CASE pc' = "sfio"  BY <1>4, <1>5, SoundAt, Zenon
<1>6. CASE pc' = "idle"
  <2>1. Resting'  BY <1>3, <1>6, Zenon DEF Resting
  <2> QED  BY <1>6, <2>1, SoundAt, Zenon
<1>7. CASE pc' \notin {"sfio", "idle"}
  <2>1. /\ pc = "sfio" /\ pc' = "remove" /\ i' = 1
        /\ backup' = [n \in DOMAIN list |-> [path |-> list[n], file |-> disk[list[n]]]]
    BY <1>7, Zenon DEF Save, Sfio
  <2>2. list \in Seq(Path) /\ Present
    BY <2>1, Zenon DEF TypeInv, UnTypeOK, ApTypeOK, Steps
  <2>3. backup' # None  BY <2>1, <2>2, SavedList, Zenon DEF TypeInv
  <2>4. DOMAIN backup' = DOMAIN list
    BY <2>1, Zenon
  <2>5. \A n \in DOMAIN list : backup'[n].path = list[n] /\ backup'[n].file = OldDisk[list[n]]
    BY <1>2, <2>1, Zenon DEF OldRepo
  <2>6. BackupOld'  BY <1>2, <2>3, <2>4, <2>5 DEF BackupOld
  <2>7. \A p \in Path : disk'[p] = OldDisk[p]  BY <1>3, Zenon DEF OldRepo
  <2>8. \A n \in DOMAIN list : ~(n < i')  BY <2>1, <2>2
  <2>9. Rolling'  BY <1>1, <2>1, <2>6, <2>7, <2>8, Zenon DEF Rolling
  <2> QED  BY <1>4, <2>1, <2>9, SoundAt, Zenon
<1> QED  BY <1>5, <1>6, <1>7, Zenon

LEMMA RemoveSound == TypeInv /\ Linked /\ Sound /\ Remove => Sound'
<1> SUFFICES ASSUME TypeInv, Linked, Sound, Remove PROVE Sound'  BY Zenon
<1>1. pc = "remove" /\ UNCHANGED <<list, backup, applied>>  BY Zenon DEF Remove, temp
<1>2. /\ BackupOld
      /\ \A n \in DOMAIN list : n < i => disk[list[n]] = None
      /\ \A p \in Path : disk[p] \in {None, OldDisk[p]}
      /\ \A p \in Path : OldDisk[p] # None => \E m \in DOMAIN list : list[m] = p
  BY <1>1, Zenon DEF Sound, Rolling, Listing
<1>3. i \in DOMAIN list /\ list \in Seq(Path) /\ disk \in Files /\ applied = {}
  BY <1>1, Zenon DEF TypeInv, UnTypeOK, ApTypeOK, Steps, Files, Linked, Replacing
<1>4. BackupOld'  BY <1>1, <1>2, Zenon DEF BackupOld
<1>5. CASE pc' = "restore"
  <2>1. i' = 1 /\ disk' = disk  BY <1>1, <1>5, Zenon DEF Remove, Goto
  <2>2. backup \in Saves  BY <1>2, Zenon DEF TypeInv, UnTypeOK, ApTypeOK, BackupOld
  <2>3. \A n \in DOMAIN backup : ~(n < 1)  BY <2>2 DEF Saves
  <2>4. Rolling'  BY <1>1, <1>2, <1>4, <1>5, <2>1, <2>3, Zenon DEF Rolling
  <2> QED  BY <1>5, <2>4, SoundAt, Zenon
<1>6. CASE pc' # "restore"
  <2>1. /\ disk' = [disk EXCEPT ![list[i]] = None]
        /\ IF i = Len(list) THEN pc' = "link" /\ i' = 1 ELSE pc' = "remove" /\ i' = i + 1
    BY <1>1, <1>6, Zenon DEF Remove, Goto
  <2>2. disk'[list[i]] = None /\ \A p \in Path : disk'[p] \in {None, disk[p]}
    BY <1>3, <2>1 DEF Files
  <2>3. \A n \in DOMAIN list : n <= i => disk'[list[n]] = None
    <3> SUFFICES ASSUME NEW n \in DOMAIN list, n <= i PROVE disk'[list[n]] = None  BY Zenon
    <3>1. CASE n = i  BY <2>2, <3>1, Zenon
    <3>2. CASE n # i
      <4>1. n < i /\ list[n] \in Path  BY <1>3, <3>2
      <4> QED  BY <1>2, <2>2, <4>1, Zenon
    <3> QED  BY <3>1, <3>2, Zenon
  <2>4. \A p \in Path : disk'[p] \in {None, OldDisk[p]}  BY <1>2, <2>2, Zenon
  <2>5. CASE i = Len(list)
    <3>1. \A p \in Path : disk'[p] = None
      <4> SUFFICES ASSUME NEW p \in Path, OldDisk[p] # None PROVE disk'[p] = None  BY <2>4, Zenon
      <4>1. PICK m \in DOMAIN list : list[m] = p  BY <1>2, Zenon
      <4>2. m <= i  BY <1>3, <2>5
      <4> QED  BY <2>3, <4>1, <4>2, Zenon
    <3>2. pc' = "link"  BY <2>1, <2>5, Zenon
    <3>3. Rolling'  BY <1>4, <3>2, Zenon DEF Rolling
    <3>4. Applying'  BY <1>1, <1>3, <3>1, <3>2, Zenon DEF Applying
    <3> QED  BY <3>2, <3>3, <3>4, SoundAt, Zenon
  <2>6. CASE i # Len(list)
    <3>1. pc' = "remove" /\ i' = i + 1  BY <2>1, <2>6, Zenon
    <3>2. \A n \in DOMAIN list : n < i' => n <= i  BY <1>3, <3>1
    <3>3. Rolling'  BY <1>1, <1>4, <2>3, <2>4, <3>1, <3>2, Zenon DEF Rolling
    <3>4. Listing'  BY <1>1, <1>2, <3>1, Zenon DEF Listing
    <3> QED  BY <3>1, <3>3, <3>4, SoundAt, Zenon
  <2> QED  BY <2>5, <2>6, Zenon
<1> QED  BY <1>5, <1>6, Zenon

(* A repository with all the new files and no other.                       *)
LEMMA OnlyNew ==
    ASSUME NEW d \in Files, NEW S, \A k \in Key : d[To[k]] = New(k),
           \A p \in Path : d[p] # None => p \in S,
           \A p \in S : \E k \in Key : To[k] = p
    PROVE  d = NewDisk
<1>1. \A p \in Path : d[p] = NewDisk[p]
  <2> SUFFICES ASSUME NEW p \in Path PROVE d[p] = NewDisk[p]  BY Zenon
  <2>1. CASE \E k \in Key : To[k] = p  BY <2>1, Places
  <2>2. CASE ~\E k \in Key : To[k] = p  BY <2>2, Places, Zenon
  <2> QED  BY <2>1, <2>2, Zenon
<1> QED  BY <1>1, Places DEF Files

LEMMA LinkSound == TypeInv /\ Linked /\ Linked' /\ Sound /\ Link => Sound'
<1> SUFFICES ASSUME TypeInv, Linked, Linked', Sound, Link PROVE Sound'  BY Zenon
<1>1. pc = "link" /\ backup' = backup  BY Zenon DEF Link, temp
<1>2. /\ BackupOld
      /\ \A p \in Path : disk[p] # None => p \in applied
      /\ \A p \in applied : \E n \in DOMAIN Order : n < i /\ To[Order[n]] = p
  BY <1>1, Zenon DEF Sound, Rolling, Applying
<1>3. i \in DOMAIN Order /\ disk \in Files
  BY <1>1, Zenon DEF TypeInv, UnTypeOK, ApTypeOK, Steps, Files
<1>4. BackupOld'  BY <1>1, <1>2, Zenon DEF BackupOld
<1>5. PICK k \in Key : k = Order[i]  BY <1>3, Positions, Zenon
<1>6. To[k] \in Path /\ New(k) \in Sfile  BY Distinct, Zenon
<1>7. CASE pc' = "unapply"
  <2>1. UNCHANGED <<disk, applied>>  BY <1>1, <1>7, Zenon DEF Link, Goto
  <2>2. Rolling' /\ Applying'  BY <1>2, <1>4, <1>7, <2>1, Zenon DEF Rolling, Applying
  <2> QED  BY <1>7, <2>2, SoundAt, Zenon
<1>8. CASE pc' # "unapply"
  <2>1. /\ disk' = [disk EXCEPT ![To[k]] = New(k)] /\ applied' = applied \cup {To[k]}
        /\ IF i = Len(Order) THEN pc' = "here" ELSE pc' = "link" /\ i' = i + 1
    BY <1>1, <1>5, <1>8, Zenon DEF Link, Goto
  <2>2. disk' \in Files /\ \A p \in Path : p # To[k] => disk'[p] = disk[p]
    BY <1>3, <1>6, <2>1, Zenon DEF Files
  <2>3. \A p \in Path : disk'[p] # None => p \in applied'  BY <1>2, <2>1, <2>2, Zenon
  <2>4. \A p \in applied' : \E n \in DOMAIN Order : n <= i /\ To[Order[n]] = p
    <3> SUFFICES ASSUME NEW p \in applied' PROVE \E n \in DOMAIN Order : n <= i /\ To[Order[n]] = p
      BY Zenon
    <3>1. CASE p = To[k]
      <4>1. i <= i  BY <1>3, Positions
      <4> QED  BY <1>3, <1>5, <3>1, <4>1, Zenon
    <3>2. CASE p # To[k]
      <4>1. PICK n \in DOMAIN Order : n < i /\ To[Order[n]] = p  BY <1>2, <2>1, <3>2, Zenon
      <4>2. n <= i  BY <1>3, <4>1, Positions
      <4> QED  BY <4>1, <4>2, Zenon
    <3> QED  BY <3>1, <3>2, Zenon
  <2>5. CASE i = Len(Order)
    <3>1. pc' = "here"  BY <2>1, <2>5, Zenon
    <3>2. AllNew'  BY <3>1, Zenon DEF Linked
    <3>3. \A p \in applied' : \E l \in Key : To[l] = p  BY <2>4, Positions, Zenon
    <3>4. disk' = NewDisk  BY <2>2, <2>3, <3>2, <3>3, OnlyNew, Zenon DEF AllNew
    <3>5. Rolling' /\ Applying'  BY <1>4, <2>3, <3>1, <3>4, Zenon DEF Rolling, Applying
    <3> QED  BY <3>1, <3>5, SoundAt, Zenon
  <2>6. CASE i # Len(Order)
    <3>1. pc' = "link" /\ i' = i + 1  BY <2>1, <2>6, Zenon
    <3>2. \A n \in DOMAIN Order : n <= i => n < i'  BY <1>3, <3>1, Positions
    <3>3. Rolling' /\ Applying'  BY <1>4, <2>3, <2>4, <3>1, <3>2, Zenon DEF Rolling, Applying
    <3> QED  BY <3>1, <3>3, SoundAt, Zenon
  <2> QED  BY <2>5, <2>6, Zenon
<1> QED  BY <1>7, <1>8, Zenon

LEMMA CheckSound == Sound /\ (Here \/ Move \/ Check \/ Done) => Sound'
<1> SUFFICES ASSUME Sound, Here \/ Move \/ Check \/ Done PROVE Sound'  BY Zenon
<1> USE DEF Goto, disk4, temp
<1>1. CASE Here \/ Move \/ Check
  <2>1. /\ pc \in {"here", "move", "check"}
        /\ pc' \in {"move", "check", "unapply", "done"}
        /\ UNCHANGED <<disk, backup, applied>>
    BY <1>1, Zenon DEF Here, Move, Check
  <2>2. /\ BackupOld /\ disk = NewDisk
        /\ \A p \in Path : disk[p] # None => p \in applied
    BY <2>1, Zenon DEF Sound, Rolling, Applying
  <2>3. BackupOld'  BY <2>1, <2>2, Zenon DEF BackupOld
  <2>4. Rolling' /\ Applying'  BY <2>1, <2>2, <2>3, Zenon DEF Rolling, Applying
  <2> QED  BY <2>1, <2>4, SoundAt, Zenon
<1>2. CASE Done
  <2>1. disk' = NewDisk /\ pc' = "rmtree"  BY <1>2, Zenon DEF Done, Sound, Applying
  <2>2. Resting'  BY <2>1, Zenon DEF Resting
  <2> QED  BY <2>1, <2>2, SoundAt, Zenon
<1> QED  BY <1>1, <1>2, Zenon

LEMMA UnapplySound ==
    ASSUME TypeInv, Sound, Unapply, faults' = faults
    PROVE  Sound'
<1>1. pc = "unapply" /\ backup' = backup  BY Zenon DEF Unapply, temp
<1>2. /\ BackupOld
      /\ \A p \in Path : disk[p] # None => p \in applied
  BY <1>1, Zenon DEF Sound, Rolling, Applying
<1>3. BackupOld'  BY <1>1, <1>2, Zenon DEF BackupOld
<1>4. disk \in Files /\ applied \subseteq Path /\ faults \in Nat /\ backup \in Saves
  BY <1>2 DEF TypeInv, UnTypeOK, ApTypeOK, Files, BackupOld
<1>5. CASE applied = {}
  <2>1. pc' = "restore" /\ i' = 1 /\ disk' = disk  BY <1>5, Zenon DEF Unapply, Goto
  <2>2. \A p \in Path : disk'[p] = None  BY <1>2, <1>5, <2>1, Zenon
  <2>3. \A n \in DOMAIN backup : ~(n < 1)  BY <1>4 DEF Saves
  <2>4. Rolling'  BY <1>1, <1>3, <2>1, <2>2, <2>3, Zenon DEF Rolling
  <2> QED  BY <2>1, <2>4, SoundAt, Zenon
<1>6. CASE applied # {}
  <2>1. PICK p \in applied : disk' = [disk EXCEPT ![p] = None] /\ applied' = applied \ {p} /\ pc' = pc
    BY <1>4, <1>6 DEF Unapply
  <2>2. \A q \in Path : disk'[q] # None => q \in applied'  BY <1>2, <1>4, <2>1, Zenon DEF Files
  <2>3. Rolling' /\ Applying'  BY <1>1, <1>3, <2>1, <2>2, Zenon DEF Rolling, Applying
  <2> QED  BY <1>1, <2>1, <2>3, SoundAt, Zenon
<1> QED  BY <1>5, <1>6, Zenon

(* A step of sfio -i where nothing is in the way.                          *)
LEMMA ExtractStep ==
    ASSUME TypeInv, Extract, NEW d \in Files,
           \A p \in Path : disk[p] \in {None, d[p]},
           \A n \in DOMAIN backup : backup[n].file = d[backup[n].path],
           \A n \in DOMAIN backup : n < i => disk[backup[n].path] = backup[n].file
    PROVE  /\ pc' = pc /\ UNCHANGED <<id, resync, backup>>
           /\ \A p \in Path : disk'[p] \in {None, d[p]}
           /\ \A p \in Path : disk[p] # None => disk'[p] = disk[p]
           /\ \A n \in DOMAIN backup' : n < i' => disk'[backup'[n].path] = backup'[n].file
<1>1. /\ backup \in Saves /\ i <= Len(backup) /\ i \in Nat \ {0} /\ disk \in Files
      /\ UNCHANGED <<id, resync, backup>>
  BY DEF TypeInv, UnTypeOK, ApTypeOK, Extract, Files, temp
<1>2. i \in DOMAIN backup /\ DOMAIN backup = 1 .. Len(backup) /\ Len(backup) \in Nat
  BY <1>1 DEF Saves
<1>3. \A n \in DOMAIN backup : backup[n] \in [path : Path, file : Sfile]
  BY <1>1, Elements, Zenon DEF Saves
<1>4. \A n \in DOMAIN backup : backup[n].path \in Path  BY <1>3, Zenon
<1>5. PICK b : b = backup[i]  BY Zenon
<1>6. b.path \in Path /\ b.file = d[b.path] /\ disk[b.path] \in {None, b.file}
  BY <1>2, <1>4, <1>5, Zenon
<1>7. disk' = [disk EXCEPT ![b.path] = b.file] /\ i' = i + 1 /\ pc' = pc
  BY <1>5, <1>6, Zenon DEF Extract
<1>8. disk'[b.path] = b.file /\ \A p \in Path : p # b.path => disk'[p] = disk[p]
  BY <1>1, <1>6, <1>7, Zenon DEF Files
<1>9. \A n \in DOMAIN backup : n < i' => disk'[backup[n].path] = backup[n].file
  <2> SUFFICES ASSUME NEW n \in DOMAIN backup, n < i'
               PROVE  disk'[backup[n].path] = backup[n].file
    BY Zenon
  <2>1. n = i \/ n < i  BY <1>1, <1>2, <1>7
  <2>2. CASE backup[n].path = b.path  BY <1>6, <1>8, <2>2, Zenon
  <2>3. CASE backup[n].path # b.path
    <3>1. n < i  BY <1>5, <2>1, <2>3, Zenon
    <3> QED  BY <1>4, <1>8, <2>3, <3>1, Zenon
  <2> QED  BY <2>2, <2>3, Zenon
<1>10. \A p \in Path : disk'[p] \in {None, d[p]}  BY <1>6, <1>8, Zenon
<1>11. \A p \in Path : disk[p] # None => disk'[p] = disk[p]  BY <1>6, <1>8, Zenon
<1> QED  BY <1>1, <1>7, <1>9, <1>10, <1>11

LEMMA RestoreSound == TypeInv /\ Sound /\ (Restore \/ Restored) => Sound'
<1> SUFFICES ASSUME TypeInv, Sound, Restore \/ Restored PROVE Sound'  BY Zenon
<1>1. pc = "restore"  BY Zenon DEF Restore, Restored
<1>2. /\ BackupOld
      /\ \A p \in Path : disk[p] \in {None, OldDisk[p]}
      /\ \A n \in DOMAIN backup : n < i => disk[backup[n].path] = backup[n].file
  BY <1>1, Zenon DEF Sound, Rolling
<1>3. CASE Restore
  <2>1. /\ pc' = pc /\ UNCHANGED backup
        /\ \A p \in Path : disk'[p] \in {None, OldDisk[p]}
        /\ \A n \in DOMAIN backup' : n < i' => disk'[backup'[n].path] = backup'[n].file
    BY <1>2, <1>3, ExtractStep, Places, Zenon DEF Restore, BackupOld
  <2>2. BackupOld'  BY <1>2, <2>1, Zenon DEF BackupOld
  <2>3. Rolling'  BY <1>1, <2>1, <2>2, Zenon DEF Rolling
  <2> QED  BY <1>1, <2>1, <2>3, SoundAt, Zenon
<1>4. CASE Restored
  <2>1. backup \in Saves /\ disk \in Files /\ i \in Nat
    BY <1>2 DEF TypeInv, UnTypeOK, ApTypeOK, BackupOld, Files
  <2>2. /\ i > Len(backup) /\ id' \in Written /\ disk' = disk /\ pc' = "idle"
    BY <1>2, <1>4, Zenon DEF Restored, BackupOld, Goto
  <2>3. \A n \in DOMAIN backup : n < i  BY <2>1, <2>2 DEF Saves
  <2>4. \A p \in Path : disk[p] = OldDisk[p]
    <3> SUFFICES ASSUME NEW p \in Path, OldDisk[p] # None PROVE disk[p] = OldDisk[p]
      BY <1>2, Zenon
    <3>1. PICK n \in DOMAIN backup : backup[n].path = p  BY <1>2, Zenon DEF BackupOld
    <3> QED  BY <1>2, <2>3, <3>1, Zenon DEF BackupOld
  <2>5. disk = OldDisk  BY <2>1, <2>4, Places DEF Files
  <2>6. OldRepo'  BY <2>2, <2>5, WrittenOld, Zenon DEF OldRepo
  <2>7. Resting'  BY <2>2, <2>6, Zenon DEF Resting
  <2> QED  BY <2>2, <2>7, SoundAt, Zenon
<1> QED  BY <1>3, <1>4, Zenon

LEMMA FailSound ==
    ASSUME UnInv, Sound, Close \/ Strip \/ Names \/ Err
    PROVE  Sound'
<1> USE DEF Goto, disk4, temp
<1>1. disk' = disk  BY Zenon DEF Close, Strip, Names, Err
<1>2. CASE pc' = "uerr"
  <2>1. \/ pc = "ufail" /\ Rest /\ \A k \in Others : Moved(k) \/ InPlace(k)
        \/ pc \in {"ustrip", "unames"} /\ Rest /\ \A k \in Others : disk[To[k]] = None
    <3>1. pc \in {"ufail", "ustrip", "unames"}  BY <1>2, Zenon DEF Close, Strip, Names, Err
    <3> QED  BY <3>1, Zenon DEF UnInv, Closing, Stripping
  <2>2. \A k \in Others : disk[To[k]] \in {None, New(k)}  BY <2>1, Zenon DEF Moved, InPlace
  <2>3. \A p \in Elsewhere : disk[p] = NewDisk[p]  BY <2>1, Zenon DEF Rest
  <2>4. \A p \in Path : disk[p] \in {None, NewDisk[p]}
    BY <2>2, <2>3, ElsewhereNone, Places DEF Others
  <2>5. Undoing'  BY <1>1, <1>2, <2>3, <2>4, Zenon DEF Undoing
  <2> QED  BY <1>2, <2>5, SoundAt, Zenon
<1>3. CASE pc' = "urestore"
  <2>1. pc = "uerr" /\ i' = 1 /\ backup' = backup  BY <1>3, Zenon DEF Close, Strip, Names, Err
  <2>2. backup \in Saves  BY <2>1, Zenon DEF UnInv, Failing, Archives
  <2>3. \A n \in DOMAIN backup : ~(n < 1)  BY <2>2 DEF Saves
  <2>4. Undoing'  BY <1>1, <1>3, <2>1, <2>3, Zenon DEF Sound, Undoing
  <2> QED  BY <1>3, <2>4, SoundAt, Zenon
<1>4. CASE pc' \notin {"uerr", "urestore"}
  <2>1. pc' \in {"ustrip", "unames", "uback", "uclean"}  BY <1>4, Zenon DEF Close, Strip, Names, Err
  <2> QED  BY <2>1, SoundAt, Zenon DEF UndoLabels
<1> QED  BY <1>2, <1>3, <1>4, Zenon

LEMMA UndoRestoreSound ==
    ASSUME ~SfioFails, TypeInv, UnInv, Sound, UndoRestore \/ UndoRestored
    PROVE  Sound'
<1>1. pc = "urestore"  BY Zenon DEF UndoRestore, UndoRestored
<1>2. /\ \A p \in Path : disk[p] \in {None, NewDisk[p]}
      /\ \A p \in Elsewhere : disk[p] = NewDisk[p]
      /\ \A n \in DOMAIN backup : n < i => disk[backup[n].path] = backup[n].file
  BY <1>1, Zenon DEF Sound, Undoing
<1>3. /\ Archives /\ disk \in Files
      /\ \A k \in Others : InArchive(k) \/ disk[To[k]] = New(k)
  BY <1>1, Zenon DEF UnInv, Failing
<1>4. \A n \in DOMAIN backup : backup[n].file = NewDisk[backup[n].path]
  BY <1>3, Places DEF Archives, Others
<1>5. CASE UndoRestore
  <2>1. /\ pc' = pc
        /\ \A p \in Path : disk'[p] \in {None, NewDisk[p]}
        /\ \A p \in Path : disk[p] # None => disk'[p] = disk[p]
        /\ \A n \in DOMAIN backup' : n < i' => disk'[backup'[n].path] = backup'[n].file
    BY <1>2, <1>4, <1>5, ExtractStep, Places, Zenon DEF UndoRestore
  <2>2. \A p \in Elsewhere : disk'[p] = NewDisk[p]
    <3> SUFFICES ASSUME NEW p \in Elsewhere PROVE disk'[p] = NewDisk[p]  BY Zenon
    <3>1. p \in Path  BY Zenon DEF Elsewhere
    <3>2. CASE NewDisk[p] = None  BY <2>1, <3>1, <3>2, Zenon
    <3>3. CASE NewDisk[p] # None  BY <1>2, <2>1, <3>1, <3>3, Zenon
    <3> QED  BY <3>2, <3>3, Zenon
  <2>3. Undoing'  BY <1>1, <2>1, <2>2, Zenon DEF Undoing
  <2> QED  BY <1>1, <2>1, <2>3, SoundAt, Zenon
<1>6. CASE UndoRestored
  <2>1. i > Len(backup) /\ disk' = disk /\ resync' = resync /\ pc' \in {"uclean", "idle"}
    BY <1>6, Zenon DEF UndoRestored, Goto
  <2>2. backup \in Saves /\ i \in Nat  BY <1>1, <1>3, Zenon DEF Archives, UnInv, Failing
  <2>3. \A n \in DOMAIN backup : n < i  BY <2>1, <2>2 DEF Saves
  <2>4. \A k \in Others : disk[To[k]] = New(k)
    <3> SUFFICES ASSUME NEW k \in Others, InArchive(k) PROVE disk[To[k]] = New(k)  BY <1>3, Zenon
    <3>1. PICK n \in DOMAIN backup : backup[n].file = New(k)  BY Zenon DEF InArchive
    <3>2. PICK l \in Others : backup[n] = [path |-> To[l], file |-> New(l)]
      BY <1>3, Zenon DEF Archives
    <3>3. l = k  BY <3>1, <3>2, Distinct DEF Others
    <3> QED  BY <1>2, <2>3, <3>1, <3>2, <3>3
  <2>5. \A p \in Path : disk[p] = NewDisk[p]
    BY <1>2, <2>4, ElsewhereNone, Places DEF Others
  <2>6. disk = NewDisk  BY <1>3, <2>5, Places DEF Files
  <2>7. resync' # "full"  BY <1>1, <2>1, Zenon DEF UnInv, Turns, UndoLabels
  <2>8. Resting'  BY <2>1, <2>6, <2>7, Zenon DEF Resting
  <2> QED  BY <2>1, <2>8, SoundAt, Zenon DEF UndoLabels
<1> QED  BY <1>5, <1>6, Zenon

LEMMA UndoSound ==
    ASSUME ~SfioFails, UnInv, Sound, faults' = 0, faults = 0,
           \/ Begin \/ MoveOut \/ Archive \/ MoveBack \/ IdUpdate \/ UndoRmtree \/ UndoCheck \/ Clean
    PROVE  Sound'
<1> USE DEF Goto, disk4, temp
<1>1. CASE Begin
  <2>1. CASE pc' = "idle"
    <3>1. UNCHANGED <<disk, id, resync>> /\ pc = "idle" /\ resync = "none"
      BY <1>1, <2>1, Zenon DEF Begin
    <3>2. Resting'  BY <2>1, <3>1, Zenon DEF Sound, Resting, OldRepo, IdOld
    <3> QED  BY <2>1, <3>2, SoundAt, Zenon
  <2>2. CASE pc' # "idle"
    <3>1. pc' = "umove"  BY <1>1, <2>2, Zenon DEF Begin
    <3> QED  BY <3>1, SoundAt, Zenon DEF UndoLabels
  <2> QED  BY <2>1, <2>2, Zenon
<1>2. CASE MoveOut \/ Archive
  <2>1. pc' \in {"umove", "ufail", "uclose"}  BY <1>2, Zenon DEF MoveOut, Archive
  <2> QED  BY <2>1, SoundAt, Zenon DEF UndoLabels
<1>3. CASE MoveBack
  <2>1. pc' \in {"uid", "uback"}
    <3>1. pc' \in {"uid", "uback"} \/ faults' = faults + 1  BY <1>3, Zenon DEF MoveBack
    <3> QED  BY <3>1
  <2> QED  BY <2>1, SoundAt, Zenon DEF UndoLabels
<1>4. CASE IdUpdate
  <2>1. pc' = "urmtree" /\ IdOld'  BY <1>4, Zenon DEF IdUpdate, IdOld
  <2>2. Undoing'  BY <2>1, Zenon DEF Undoing
  <2> QED  BY <2>1, <2>2, SoundAt, Zenon
<1>5. CASE UndoRmtree
  <2>1. pc' = "ucheck" /\ IdOld'  BY <1>5, Zenon DEF UndoRmtree, Sound, Undoing, IdOld
  <2>2. Undoing'  BY <2>1, Zenon DEF Undoing
  <2> QED  BY <2>1, <2>2, SoundAt, Zenon
<1>6. CASE UndoCheck
  <2>1. /\ pc = "ucheck" /\ disk = OldDisk /\ disk' = disk /\ pc' = "idle"
        /\ id' \in Written \cup {id} /\ IdOld
    BY <1>6, Zenon DEF UndoCheck, UnInv, Ending, Sound, Undoing
  <2>2. IdOld'  BY <2>1, WrittenOld, Zenon DEF IdOld
  <2>3. Resting'  BY <2>1, <2>2, Zenon DEF Resting, OldRepo
  <2> QED  BY <2>1, <2>3, SoundAt, Zenon
<1>7. CASE Clean
  <2>1. disk' = NewDisk /\ pc' = "idle" /\ resync' = "none"
    BY <1>7, Zenon DEF Clean, UnInv, Failing
  <2>2. Resting'  BY <2>1, Zenon DEF Resting
  <2> QED  BY <2>1, <2>2, SoundAt, Zenon
<1> QED  BY <1>1, <1>2, <1>3, <1>4, <1>5, <1>6, <1>7, Zenon

LEMMA NoFaultNext ==
    ASSUME ~SfioFails, TypeInv, UnInv, Linked, NoFault, [UnNext]_uvars
    PROVE  NoFault'
<1> SUFFICES ASSUME faults' = 0 PROVE Sound'  BY Zenon DEF NoFault
<1>1. faults = 0
  <2>1. faults \in Nat  BY DEF TypeInv, UnTypeOK, ApTypeOK
  <2> QED  BY <2>1, FaultsStep
<1>2. Sound  BY <1>1, Zenon DEF NoFault
<1>3. Linked'  BY LinkedNext, Zenon
<1>4. CASE TakeLock \/ TakeDone \/ TakeFails \/ Resolve \/ Trigger \/ Abort \/ Rmtree
  BY <1>2, <1>4, RestingSound, Zenon
<1>5. CASE List  BY <1>2, <1>5, ListSound, Zenon
<1>6. CASE Save \/ Sfio  BY <1>2, <1>6, SaveSound, Zenon
<1>7. CASE Remove  BY <1>2, <1>7, RemoveSound, Zenon
<1>8. CASE Link  BY <1>2, <1>3, <1>8, LinkSound, Zenon
<1>9. CASE Here \/ Move \/ Check \/ Done  BY <1>2, <1>9, CheckSound, Zenon
<1>10. CASE Unapply  BY <1>1, <1>2, <1>10, UnapplySound, Zenon
<1>11. CASE Restore \/ Restored  BY <1>2, <1>11, RestoreSound, Zenon
<1>12. CASE Killed  BY <1>1, <1>12 DEF Killed
<1>13. CASE Close \/ Strip \/ Names \/ Err  BY <1>2, <1>13, FailSound, Zenon
<1>14. CASE UndoRestore \/ UndoRestored  BY <1>2, <1>14, UndoRestoreSound, Zenon
<1>15. CASE \/ Begin \/ MoveOut \/ Archive \/ MoveBack \/ IdUpdate \/ UndoRmtree \/ UndoCheck
            \/ Clean
  BY <1>1, <1>2, <1>15, UndoSound, Zenon
<1>16. CASE UNCHANGED uvars
  <2>1. UNCHANGED <<disk, id, resync, list, backup, pc, i, applied>>
    BY <1>16, Zenon DEF uvars, vars, disk4, temp
  <2>2. (OldRepo => OldRepo') /\ (IdOld => IdOld') /\ (BackupOld => BackupOld')
    BY <2>1, Zenon DEF OldRepo, IdOld, BackupOld
  <2>3. Resting'  BY <1>2, <2>1, <2>2, Zenon DEF Sound, Resting
  <2>4. Listing'  BY <1>2, <2>1, <2>2, Zenon DEF Sound, Listing
  <2>5. Rolling'  BY <1>2, <2>1, <2>2, Zenon DEF Sound, Rolling
  <2>6. Applying' /\ Undoing'  BY <1>2, <2>1, <2>2, Zenon DEF Sound, Applying, Undoing
  <2> QED  BY <2>3, <2>4, <2>5, <2>6, Zenon DEF Sound
<1> QED
  BY <1>4, <1>5, <1>6, <1>7, <1>8, <1>9, <1>10, <1>11, <1>12, <1>13, <1>14, <1>15, <1>16, Zenon
     DEF UnNext, ApplyNext, Work

(* Nothing but what the code rolls back goes wrong.                        *)
LEMMA NoFaultAlways == ~SfioFails => (UnSpec => [](TypeInv /\ Linked /\ NoFault))
<1> SUFFICES ASSUME ~SfioFails PROVE UnSpec => [](TypeInv /\ Linked /\ NoFault)  BY Zenon
<1>1. UnInit => Linked /\ NoFault
  <2> SUFFICES ASSUME UnInit PROVE NoFault  BY InitTried, Zenon
  <2>1. pc = "idle" /\ disk = OldDisk /\ IdOld  BY Zenon DEF UnInit, Init, IdOld
  <2> QED
    BY <2>1, Zenon DEF NoFault, Sound, Resting, Listing, Rolling, Applying, Undoing, OldRepo
<1>2. TypeInv /\ UnInv /\ Linked /\ NoFault /\ [UnNext]_uvars => Linked' /\ NoFault'
  BY LinkedNext, NoFaultNext, Zenon
<1> QED  BY <1>1, <1>2, TypeAlways, UnInvariant, PTL DEF UnSpec

(* Whichever step of pass 4 or of undo fails, the repository is all old or *)
(* all new when the command has ended, for any number of files and any     *)
(* renames, swaps and cycles of names included.                            *)
THEOREM AllOrNothingHolds == ~SfioFails => (UnSpec => []AllOrNothing)
<1> SUFFICES ASSUME ~SfioFails PROVE UnSpec => []AllOrNothing  BY Zenon
<1>1. NoFault => AllOrNothing  BY Zenon DEF NoFault, Sound, Resting, OldRepo, AllOrNothing
<1> QED  BY <1>1, NoFaultAlways, PTL

(* Pass 4c finds no file in the way of one it links, whatever the renames. *)
THEOREM NoConflictHolds == ~SfioFails => (UnSpec => []NoConflict)
<1> SUFFICES ASSUME ~SfioFails PROVE UnSpec => []NoConflict  BY Zenon
<1>1. TypeInv /\ NoFault => NoConflict
  <2> SUFFICES ASSUME TypeInv, NoFault, faults = 0, pc = "link" PROVE disk[To[Order[i]]] = None
    BY Zenon DEF NoConflict
  <2>1. /\ \A p \in Path : disk[p] # None => p \in applied
        /\ \A p \in applied : \E n \in DOMAIN Order : n < i /\ To[Order[n]] = p
    BY Zenon DEF NoFault, Sound, Applying
  <2>2. i \in DOMAIN Order /\ i \in Nat /\ Order[i] \in Key  BY Positions DEF TypeInv, Steps
  <2>3. To[Order[i]] \notin applied
    <3> SUFFICES ASSUME NEW n \in DOMAIN Order, n < i, To[Order[n]] = To[Order[i]] PROVE FALSE
      BY <2>1, Zenon
    <3>1. Order[n] = Order[i]  BY <2>2, Positions, Distinct
    <3> QED  BY <2>2, <3>1, Positions
  <2> QED  BY <2>1, <2>2, <2>3, Distinct, Zenon
<1> QED  BY <1>1, NoFaultAlways, PTL

(* resolve gives up the backup only when every file of the update, and its *)
(* HERE, is in its place, even after it was killed and run again; and only *)
(* for a repository with no other file if nothing was killed.              *)
THEOREM CompleteHolds == ~SfioFails => (UnSpec => []CompleteWhenDone)
<1> SUFFICES ASSUME ~SfioFails PROVE UnSpec => []CompleteWhenDone  BY Zenon
<1>1. Linked /\ NoFault => CompleteWhenDone
  BY Zenon DEF Linked, NoFault, Sound, Applying, CompleteWhenDone
<1> QED  BY <1>1, NoFaultAlways, PTL

-----------------------------------------------------------------------------

(* The ChangeSet file tells the two repositories apart.                    *)
LEMMA OldIsNotNew ==
    ASSUME NEW d, d \in {OldDisk, NewDisk}
    PROVE  /\ d[To[Cset]] \in {None, Old(Cset)} => d = OldDisk
           /\ d[To[Cset]] \in {None, New(Cset)} => d = NewDisk
BY Places, Distinct, OldPlaces

(* What a resolve that leaves pass 4 leaves in the repository.             *)
LEMMA Pass4Ends ==
    ASSUME Sound, Sound', UnNext, faults' = faults, faults \in Nat, pc \in Pass4, pc' \notin Pass4
    PROVE  disk' = IF pc = "done" THEN NewDisk ELSE OldDisk
<1> USE DEF Goto, disk4, Pass4
<1>1. ~(TakeLock \/ TakeDone \/ TakeFails \/ Resolve \/ Abort \/ Rmtree \/ Killed)
  <2>1. ~(TakeLock \/ TakeDone \/ TakeFails \/ Resolve \/ Abort \/ Rmtree)
    BY Zenon DEF TakeLock, TakeDone, TakeFails, Resolve, Abort, Rmtree
  <2>2. ~Killed  BY DEF Killed
  <2> QED  BY <2>1, <2>2, Zenon
<1>2. ~(Save \/ Remove \/ Link \/ Here \/ Move \/ Check \/ Unapply)
  BY Zenon DEF Save, Remove, Link, Here, Move, Check, Unapply
<1>3. ~(Begin \/ MoveOut \/ Archive \/ Close \/ Strip \/ Names \/ MoveBack)
  BY Zenon DEF Begin, MoveOut, Archive, Close, Strip, Names, MoveBack
<1>4. ~(IdUpdate \/ UndoRmtree \/ UndoCheck \/ Err \/ UndoRestore \/ UndoRestored \/ Clean)
  BY Zenon DEF IdUpdate, UndoRmtree, UndoCheck, Err, UndoRestore, UndoRestored, Clean
<1>5. CASE Trigger \/ List \/ Sfio
  <2>1. pc \in {"trigger", "list", "sfio"} /\ disk' = disk  BY <1>5, Zenon DEF Trigger, List, Sfio
  <2>2. disk = OldDisk  BY <2>1, Zenon DEF Sound, Listing, OldRepo
  <2> QED  BY <2>1, <2>2, Zenon
<1>6. CASE Restore \/ Restored
  <2>1. pc = "restore" /\ pc' = "idle" /\ disk' = disk
    BY <1>6, Zenon DEF Restore, Extract, Restored
  <2>2. disk[To[Cset]] \in {None, Old(Cset)}
    <3>1. To[Cset] \in Path /\ OldDisk[To[Cset]] = Old(Cset)  BY Distinct, OldPlaces
    <3> QED  BY <2>1, <3>1, Zenon DEF Sound, Rolling
  <2>3. disk' \in {OldDisk, NewDisk}  BY <2>1, Zenon DEF Sound, Resting, OldRepo
  <2> QED  BY <2>1, <2>2, <2>3, OldIsNotNew, Zenon
<1>7. CASE Done
  <2>1. pc = "done" /\ disk' = disk  BY <1>7, Zenon DEF Done
  <2> QED  BY <2>1, Zenon DEF Sound, Applying
<1> QED  BY <1>1, <1>2, <1>3, <1>4, <1>5, <1>6, <1>7, Zenon DEF UnNext, ApplyNext, Work

(* What an undo that ends by itself leaves in the repository.              *)
LEMMA UndoLeaves ==
    ASSUME ~SfioFails, Sound, Sound', UnInv, UnNext, faults \in Nat, UndoExit
    PROVE  disk' = IF pc = "ucheck" THEN OldDisk ELSE NewDisk
<1>0. pc \in UndoLabels /\ pc' = "idle" /\ faults' = faults  BY Zenon DEF UndoExit
<1>1. UndoCheck \/ UndoRestore \/ UndoRestored \/ Clean  BY ExitSteps, Zenon DEF Counted
<1>2. CASE UndoCheck  BY <1>2, Zenon DEF UndoCheck, UnInv, Ending
<1>3. CASE UndoRestore \/ UndoRestored
  <2>1. pc = "urestore" /\ disk' = disk
    BY <1>0, <1>3, Zenon DEF UndoRestore, Extract, UndoRestored
  <2>2. disk[To[Cset]] \in {None, New(Cset)}
    BY <2>1, Distinct, Places, Zenon DEF Sound, Undoing
  <2>3. disk' \in {OldDisk, NewDisk}  BY <1>0, Zenon DEF Sound, Resting, OldRepo
  <2> QED  BY <2>1, <2>2, <2>3, OldIsNotNew, Zenon
<1>4. CASE Clean  BY <1>4, Zenon DEF Clean, disk4, UnInv, Failing
<1> QED  BY <1>1, <1>2, <1>3, <1>4, Zenon

(* resolve and undo leave the repository as they found it when they do not *)
(* get through, and with the other files when they do, for any number of   *)
(* files and any renames, whichever step fails: unlink, link, sfio, strip, *)
(* names or the check.                                                     *)
THEOREM RolledBackHolds == ~SfioFails => (UnSpec => RolledBack)
<1> SUFFICES ASSUME ~SfioFails PROVE UnSpec => RolledBack  BY Zenon
<1>1. TypeInv /\ NoFault /\ UnInv /\ NoFault' /\ [UnNext]_uvars
      => [faults' = 0 =>
             /\ pc \in Pass4 /\ pc' \notin Pass4 =>
                   disk' = IF pc = "done" THEN NewDisk ELSE OldDisk
             /\ UndoExit => disk' = IF pc = "ucheck" THEN OldDisk ELSE NewDisk]_uvars
  <2> SUFFICES ASSUME TypeInv, NoFault, UnInv, NoFault', UnNext, faults' = 0
               PROVE  /\ pc \in Pass4 /\ pc' \notin Pass4 =>
                            disk' = IF pc = "done" THEN NewDisk ELSE OldDisk
                      /\ UndoExit => disk' = IF pc = "ucheck" THEN OldDisk ELSE NewDisk
    BY Zenon
  <2>1. faults \in Nat  BY DEF TypeInv, UnTypeOK, ApTypeOK
  <2>2. faults = 0  BY <2>1, FaultsStep
  <2>3. Sound /\ Sound'  BY <2>2, Zenon DEF NoFault
  <2> QED  BY <2>1, <2>2, <2>3, Pass4Ends, UndoLeaves, Zenon
<1> QED  BY <1>1, NoFaultAlways, UnInvariant, PTL DEF UnSpec, RolledBack
============================================================================
