-------------------------------- MODULE Undo --------------------------------
(***************************************************************************)
(* bk undo beside the update of Apply: it takes the update out of the      *)
(* repository again.  The s.files are moved to RESYNC and archived on the  *)
(* way, stripped and renamed there, and moved back; an error on the way is *)
(* rolled back from the archive.                                           *)
(*                                                                         *)
(* Undo and resolve use the same RESYNC and the same BACKUP_SFIO, and what *)
(* one of them leaves behind is what the other one finds.  An undo of a    *)
(* repository that is not all new fails before it has touched a file.      *)
(***************************************************************************)
EXTENDS Apply

CONSTANT SfioFails   \* the archive may end up without all of its files

ASSUME UndoSfio == SfioFails \in BOOLEAN

VARIABLE tree        \* the s.file at each path of RESYNC, while it is undo's

uvars == <<vars, tree>>

NoTree == [p \in Path |-> None]

UnTypeOK ==
    /\ ApTypeOK
    /\ tree \in [Path -> Sfile \cup {None}]

UnInit == Init /\ tree = NoTree

-----------------------------------------------------------------------------

(* The write lock needs a repository without RESYNC.  An old backup goes   *)
(* before undo knows what there is to do; then undo exits, for one of many *)
(* reasons, or moveAndSave() makes RESYNC.                                 *)
Begin ==
    /\ pc = "idle"
    /\ resync = "none"
    /\ tries' = 2
    /\ \/ disk = NewDisk /\ resync' = "undo" /\ backup' = << >> /\ Goto("umove")
       \/ backup' = None /\ UNCHANGED <<resync, pc, i>>
    /\ UNCHANGED <<disk4, rhere, list, applied, faults, tree>>

(* Fault: every file is linked, as the ChangeSet file is.                  *)
LinkOut ==
    /\ pc = "umove"
    /\ LET k == Order[i]
       IN  /\ tree' = [tree EXCEPT ![To[k]] = disk[To[k]]]
           /\ IF i = Len(Order) THEN Goto("uclose") ELSE i' = i + 1 /\ UNCHANGED pc
    /\ UNCHANGED <<disk4, resync, rhere, temp, applied, faults, tries>>

(* fileLink() of the ChangeSet file, fileMove() of every other one.        *)
MoveOut ==
    /\ pc = "umove"
    /\ LET k == Order[i]
       IN  \/ /\ disk' = IF k = Cset THEN disk ELSE [disk EXCEPT ![To[k]] = None]
              /\ tree' = [tree EXCEPT ![To[k]] = disk[To[k]]]
              /\ IF i = Len(Order) THEN Goto("uclose") ELSE i' = i + 1 /\ UNCHANGED pc
           \/ Goto("ufail") /\ UNCHANGED <<disk, tree>>
    /\ UNCHANGED <<id, here, resync, rhere, temp, applied, faults, tries>>

(* sfio -o archives, in their order, the files that have been moved; their *)
(* names reach it when undo's buffer is flushed.                           *)
Archived == {backup[n].file.key : n \in DOMAIN backup}
Pending == {n \in DOMAIN Order :
               Order[n] \notin Archived \cup {Cset} /\ tree[To[Order[n]]] # None}

Archive ==
    /\ pc \in {"umove", "ufail", "uclose"}
    /\ \E n \in Pending :
          /\ \A m \in Pending : n <= m
          /\ LET k == Order[n]
             IN  backup' = Append(backup, [path |-> To[k], file |-> tree[To[k]]])
    /\ UNCHANGED <<disk4, resync, rhere, list, pc, i, applied, faults, tries, tree>>

(* Fault: nobody waits for sfio before the files are stripped.             *)
CloseAtOnce ==
    /\ pc \in {"uclose", "ufail"}
    /\ pc = "ufail" => Pending = {} \/ SfioFails
    /\ Goto(IF pc = "uclose" THEN "ustrip" ELSE "uerr")
    /\ UNCHANGED <<disk4, resync, rhere, temp, applied, faults, tries, tree>>

(* pclose() waits for sfio; its exit status is not looked at.              *)
Close ==
    /\ pc \in {"uclose", "ufail"}
    /\ Pending = {} \/ SfioFails
    /\ Goto(IF pc = "uclose" THEN "ustrip" ELSE "uerr")
    /\ UNCHANGED <<disk4, resync, rhere, temp, applied, faults, tries, tree>>

(* stripdel takes the deltas of the update out of one file after another;  *)
(* a file that has no other deltas goes.                                   *)
Strip ==
    /\ pc = "ustrip"
    /\ LET k == Order[i]
       IN  \/ /\ tree' = [tree EXCEPT ![To[k]] = IF From[k] = None THEN None ELSE Old(k)]
              /\ IF i = Len(Order) THEN Goto("unames") ELSE i' = i + 1 /\ UNCHANGED pc
           \/ Goto("uerr") /\ UNCHANGED tree
    /\ UNCHANGED <<disk4, resync, rhere, temp, applied, faults, tries>>

(* bk names puts the files where their last delta says; move_file() looks  *)
(* for a name conflict before it moves anything.                           *)
Conflict(files) == \E p \in Path \ {To[Cset]} : files[p] # None /\ disk[p] # None
Names ==
    /\ pc = "unames"
    /\ \/ tree' = OldDisk /\ Goto(IF Conflict(OldDisk) THEN "uerr" ELSE "uback")
       \/ Goto("uerr") /\ UNCHANGED tree
    /\ UNCHANGED <<disk4, resync, rhere, temp, applied, faults, tries>>

(* fileMove() back, over the ChangeSet file that is still there.  After an *)
(* error here some of the files are old ones and the ChangeSet file, which *)
(* is in no archive, may be.                                               *)
Back == {n \in DOMAIN Order : n >= i /\ From[Order[n]] # None}
MoveBack ==
    /\ pc = "uback"
    /\ \E n \in Back : LET p == From[Order[n]] IN
          /\ \A m \in Back : n <= m
          /\ \/ /\ disk' = [disk EXCEPT ![p] = tree[p]]
                /\ tree' = [tree EXCEPT ![p] = None]
                /\ IF Back = {n} THEN Goto("uid") ELSE i' = n + 1 /\ UNCHANGED pc
                /\ UNCHANGED faults
             \/ /\ faults < MaxFaults
                /\ faults' = faults + 1
                /\ Goto("uerr")
                /\ UNCHANGED <<disk, tree>>
    /\ UNCHANGED <<id, here, resync, rhere, temp, applied, tries>>

(* idcache_update() of the files that were moved; what has gone stays in.  *)
IdUpdate ==
    /\ pc = "uid"
    /\ id' = [k \in Key |-> IF From[k] = None THEN id[k] ELSE From[k]]
    /\ Goto("urmtree")
    /\ UNCHANGED <<disk, here, resync, rhere, temp, applied, faults, tries, tree>>

UndoRmtree ==
    /\ pc = "urmtree"
    /\ resync' = "none"
    /\ tree' = NoTree
    /\ Goto("ucheck")
    /\ UNCHANGED <<disk4, rhere, temp, applied, faults, tries>>

(* run_check() of the files that were moved, or of all; the backup stays   *)
(* if it fails.                                                            *)
UndoCheck ==
    /\ pc = "ucheck"
    /\ id' \in Written \cup {id}
    /\ backup' = None \/ UNCHANGED backup
    /\ tries' = 0
    /\ Goto("idle")
    /\ UNCHANGED <<disk, here, resync, rhere, list, applied, faults, tree>>

(* err: an archive of some size is restored; one without a file in it may  *)
(* still have its header.                                                  *)
Err ==
    /\ pc = "uerr"
    /\ \/ Goto("urestore") /\ UNCHANGED backup
       \/ backup = << >> /\ backup' = None /\ Goto("uclean")
    /\ UNCHANGED <<disk4, resync, rhere, list, applied, faults, tries, tree>>

UndoRestore ==
    /\ pc = "urestore"
    /\ Extract
    /\ UNCHANGED tree

(* Fault: the result of the check after the restore is not looked at.      *)
RestoredAnyhow ==
    /\ pc = "urestore"
    /\ i > Len(backup)
    /\ id' \in Written
    /\ backup' = None
    /\ Goto("uclean")
    /\ UNCHANGED <<disk, here, resync, rhere, list, applied, faults, tries, tree>>

(* The full check after the restore: backup and RESYNC stay if it fails.   *)
UndoRestored ==
    /\ pc = "urestore"
    /\ i > Len(backup)
    /\ id' \in Written
    /\ \/ disk = NewDisk /\ backup' = None /\ Goto("uclean")
       \/ Goto("idle") /\ UNCHANGED backup
    /\ UNCHANGED <<disk, here, resync, rhere, list, applied, faults, tries, tree>>

Clean ==
    /\ pc = "uclean"
    /\ resync' = "none"
    /\ tree' = NoTree
    /\ Goto("idle")
    /\ UNCHANGED <<disk4, rhere, temp, applied, faults, tries>>

(* The commands of Apply; abort removes the RESYNC of an undo, too, and a  *)
(* command that is killed in an rmtree() has begun to.                     *)
ApplyNext ==
    \/ Work /\ UNCHANGED tree
    \/ Rmtree /\ tree' = NoTree
    \/ Killed /\ tree' = IF resync' = resync THEN tree ELSE NoTree

UnNext ==
    \/ ApplyNext
    \/ Begin \/ MoveOut \/ Archive \/ Close \/ Strip \/ Names \/ MoveBack
    \/ IdUpdate \/ UndoRmtree \/ UndoCheck
    \/ Err \/ UndoRestore \/ UndoRestored \/ Clean

UnSpec == UnInit /\ [][UnNext]_uvars

-----------------------------------------------------------------------------

(* Wherever undo fails or is killed, and until its result is checked or    *)
(* RESYNC is removed, every s.file other than the ChangeSet file is still  *)
(* whole: in its place, in RESYNC or in the archive.                       *)
WholeSomewhere(k) ==
    \/ New(k) \in {disk[To[k]], tree[To[k]]}
    \/ backup # None /\ \E n \in DOMAIN backup : backup[n].file = New(k)
UndoSaved == resync = "undo" => \A k \in Key \ {Cset} : WholeSomewhere(k)

(* "This should never happen if the repo is in a sane state": no file that *)
(* move_file() wants to put back finds its name taken, though two of them  *)
(* swap their names.                                                       *)
UndoNoConflict == pc = "unames" => ~Conflict(OldDisk)

(* An undo that ends by itself leaves a repository that is all old or all  *)
(* new and no RESYNC, or else it leaves RESYNC, which keeps others out,    *)
(* together with the backup.                                               *)
UndoExit == pc \in UndoLabels /\ pc' = "idle" /\ faults' = faults
Settled ==
    \/ resync = "none" /\ disk \in {OldDisk, NewDisk}
    \/ resync = "undo" /\ backup # None
UndoEnds == [][UndoExit => Settled']_uvars

(* A command that does not get through leaves what it found, if none was   *)
(* killed: a resolve that fails in pass 4 all the old files, an undo that  *)
(* goes to err all the new ones.  One that gets through leaves the others. *)
Pass4 == {"trigger", "list", "save", "sfio", "remove", "link", "here", "move", "check",
          "unapply", "restore", "done"}
RolledBack ==
    [][faults' = 0 =>
          /\ pc \in Pass4 /\ pc' \notin Pass4 => disk' = IF pc = "done" THEN NewDisk ELSE OldDisk
          /\ UndoExit => disk' = IF pc = "ucheck" THEN OldDisk ELSE NewDisk]_uvars

(* "a failed undo should not have deleted any files" (t/t.undo): there is  *)
(* an s.file of every key when an undo has come to an end by itself.       *)
Kept(k) ==
    \/ \E p \in Path : \E f \in {Old(k), New(k)} : f \in {disk[p], tree[p]}
    \/ backup # None /\ k \in Archived
AllKept == \A k \in Key : From[k] # None => Kept(k)
FailedUndoKeepsFiles == [][UndoExit => AllKept']_uvars
=============================================================================
