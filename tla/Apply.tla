------------------------------- MODULE Apply -------------------------------
(***************************************************************************)
(* How an update reaches the repository: takepatch builds RESYNC, pass 4   *)
(* of resolve replaces the s.files of the repository by those of RESYNC,   *)
(* and a failure on the way is rolled back from a backup.                  *)
(*                                                                         *)
(* One command runs at a time, as the write lock of RepoLock sees to.  A   *)
(* file has a key that never changes and a path that may.  Passes 1 to 3   *)
(* work inside RESYNC only and are one choice here: reach pass 4 or quit.  *)
(***************************************************************************)
EXTENDS Naturals, Sequences

CONSTANTS Key,       \* the files of the update
          Path,      \* where s.files can be
          None,      \* no such file
          Cset,      \* the key of the ChangeSet file
          Order,     \* the keys in the order bk sfiles -r RESYNC prints them
          Home,      \* where each file was created, which its key says
          From,      \* where each file is before the update; None if new
          To,        \* where the update wants it
          MaxFaults  \* bound: commands killed, and failures of a roll back

ASSUME ApplyKeys ==
    /\ Cset \in Key /\ From[Cset] = To[Cset]
    /\ From \in [Key -> Path \cup {None}] /\ To \in [Key -> Path]
    /\ \A k, l \in Key : k # l => To[k] # To[l] /\ (From[k] # From[l] \/ From[k] = None)
    /\ Home \in [Key -> Path]
ASSUME ApplyOrder ==
    /\ Order \in Seq(Key)
    /\ \A k \in Key : \E n \in DOMAIN Order : Order[n] = k
    /\ \A m, n \in DOMAIN Order : Order[m] = Order[n] => m = n
ASSUME ApplyFaults == MaxFaults \in Nat

VARIABLES
    disk,     \* the s.file at each path of the repository
    id,       \* BitKeeper/log/x.id_cache: where each key is said to be
    here,     \* BitKeeper/log/HERE: "old", "new", "none"
    resync,   \* RESYNC: "none", "bare" of RESYNC/BitKeeper, "partial", "full",
              \* or "undo" if it is that of bk undo
    rhere,    \* RESYNC/BitKeeper/log/HERE exists
    list,     \* BACKUP_LIST: the paths to save and remove
    backup,   \* BACKUP_SFIO: the saved s.files, None if there is no archive
    pc,       \* where the running command is, "idle" if there is none
    i,        \* its position in the list it works through
    applied,  \* the paths it has linked so far
    faults,   \* commands killed and failures of a roll back so far
    tries     \* history: how often a resolve has begun to save a backup

disk4 == <<disk, id, here>>
temp == <<list, backup>>
vars == <<disk4, resync, rhere, temp, pc, i, applied, faults, tries>>

Sfile == [key : Key, ver : {"old", "new"}]
Old(k) == [key |-> k, ver |-> "old"]
New(k) == [key |-> k, ver |-> "new"]
Saves == Seq([path : Path, file : Sfile])

ASSUME ApplyNone == None \notin Path /\ None \notin Sfile /\ None \notin Saves

(* The repository before and after the update.                             *)
Place(where, file(_)) ==
    [p \in Path |-> IF \E k \in Key : where[k] = p
                    THEN file(CHOOSE k \in Key : where[k] = p) ELSE None]
OldDisk == Place(From, Old)
NewDisk == Place(To, New)

(* Where bk undo can be; its steps are those of the module Undo.           *)
UndoLabels == {"umove", "ufail", "uclose", "ustrip", "unames", "uback", "uid",
               "urmtree", "ucheck", "uerr", "urestore", "uclean"}

ApTypeOK ==
    /\ disk \in [Path -> Sfile \cup {None}]
    /\ id \in [Key -> Path]
    /\ here \in {"old", "new", "none"}
    /\ resync \in {"none", "bare", "partial", "full", "undo"}
    /\ rhere \in BOOLEAN
    /\ list \in Seq(Path)
    /\ backup \in Saves \cup {None}
    /\ pc \in {"idle", "take", "trigger", "list", "save", "sfio", "remove", "link",
               "here", "move", "check", "unapply", "restore", "done", "rmtree"} \cup UndoLabels
    /\ i \in 1 .. Len(Order) + 1
    /\ applied \subseteq Path
    /\ faults \in 0 .. MaxFaults
    /\ tries \in 0 .. 2

Init ==
    /\ disk = OldDisk
    /\ id = [k \in Key |-> IF From[k] = None THEN Home[k] ELSE From[k]]
    /\ here = "old"
    /\ resync = "none"
    /\ rhere = FALSE
    /\ list = << >>
    /\ backup = None
    /\ pc = "idle"
    /\ i = 1
    /\ applied = {}
    /\ faults = 0
    /\ tries = 0

-----------------------------------------------------------------------------

Has(p, k) == disk[p] # None /\ disk[p].key = k

(* sccs_keyinit: the id cache, which a repository without a ChangeSet file *)
(* does not have, says where to look; the file there must be the right one.*)
Lookup(k) == IF disk[To[Cset]] = None THEN Home[k] ELSE id[k]
Found(k) == Has(Lookup(k), k)

(* The id cache a check writes, errors or not, from the files it has read; *)
(* without a ChangeSet file it does not get that far.                      *)
Written ==
    IF disk[To[Cset]] = None THEN {id}
    ELSE {f \in [Key -> Path] : \A k \in Key :
              IF \E p \in Path : Has(p, k) THEN Has(f[k], k) ELSE f[k] = Home[k]}

Goto(label) == pc' = label /\ i' = 1

(* resync_lock(): RESYNC must not be there.                                *)
TakeLock ==
    /\ pc = "idle"
    /\ resync = "none"
    /\ disk[To[Cset]] # None
    /\ resync' = "partial"
    /\ rhere' = FALSE
    /\ Goto("take")
    /\ UNCHANGED <<disk4, temp, applied, faults, tries>>

(* takepatch builds RESYNC; it needs every file that it has deltas for.    *)
TakeDone ==
    /\ pc = "take"
    /\ disk[To[Cset]] = Old(Cset)
    /\ \A k \in Key : From[k] # None => Found(k)
    /\ resync' = "full"
    /\ rhere' \in BOOLEAN
    /\ Goto("idle")
    /\ UNCHANGED <<disk4, temp, applied, faults, tries>>

(* cleanup(CLEAN_RESYNC): a bad patch, or one with nothing new in it.      *)
TakeFails ==
    /\ pc = "take"
    /\ resync' = "none"
    /\ Goto("idle")
    /\ UNCHANGED <<disk4, rhere, temp, applied, faults, tries>>

(* resolve reaches pass 4: locks held, nothing unfinished.                 *)
Resolve ==
    /\ pc = "idle"
    /\ resync = "full"
    /\ Goto("trigger")
    /\ UNCHANGED <<disk4, resync, rhere, temp, applied, faults, tries>>

(* The pre-apply trigger lets the update go on, or has it aborted; resolve *)
(* --auto-only leaves RESYNC alone instead.                                *)
Trigger ==
    /\ pc = "trigger"
    /\ Goto("list") \/ Goto("rmtree") \/ Goto("idle")
    /\ UNCHANGED <<disk4, resync, rhere, temp, applied, faults, tries>>

(* Pass 4a: list the files that the update replaces, one after another, or *)
(* find a bad file, an edited one, or a directory that cannot be written.  *)
List ==
    /\ pc = "list"
    /\ LET k == Order[i]
           before == IF i = 1 THEN << >> ELSE list
           after == IF Found(k) THEN Append(before, Lookup(k)) ELSE before
       IN  \/ /\ list' = after
              /\ IF i = Len(Order) THEN Goto(IF after = << >> THEN "link" ELSE "save")
                                   ELSE i' = i + 1 /\ UNCHANGED pc
           \/ list' \in {before, after} /\ Goto("idle")
    /\ UNCHANGED <<disk4, resync, rhere, backup, applied, faults, tries>>

(* Pass 4b: the backup of an earlier run goes ...                          *)
Save ==
    /\ pc = "save"
    /\ backup' = None
    /\ tries' = IF tries = 2 THEN 2 ELSE tries + 1
    /\ Goto("sfio")
    /\ UNCHANGED <<disk4, resync, rhere, list, applied, faults>>

(* Fault: the exit status of sfio -o is not looked at.                     *)
SfioIgnored ==
    /\ pc = "sfio"
    /\ backup' = << >>
    /\ Goto("remove")
    /\ UNCHANGED <<disk4, resync, rhere, list, applied, faults, tries>>

(* ... and sfio -o writes a new one, or fails.                             *)
Sfio ==
    /\ pc = "sfio"
    /\ \/ /\ backup' = [n \in DOMAIN list |-> [path |-> list[n], file |-> disk[list[n]]]]
          /\ Goto("remove")
       \/ backup' = << >> /\ Goto("idle")
    /\ UNCHANGED <<disk4, resync, rhere, list, applied, faults, tries>>

(* Fault: the last file on the list is not removed.                        *)
RemoveShort ==
    /\ pc = "remove"
    /\ disk' = [disk EXCEPT ![list[i]] = None]
    /\ IF i + 1 >= Len(list) THEN Goto("link") ELSE i' = i + 1 /\ UNCHANGED pc
    /\ UNCHANGED <<id, here, resync, rhere, temp, applied, faults, tries>>

(* rm_sfile() of each file on the list; a failure rolls back.              *)
Remove ==
    /\ pc = "remove"
    /\ \/ /\ disk' = [disk EXCEPT ![list[i]] = None]
          /\ IF i = Len(list) THEN Goto("link") ELSE i' = i + 1 /\ UNCHANGED pc
       \/ Goto("restore") /\ UNCHANGED disk
    /\ UNCHANGED <<id, here, resync, rhere, temp, applied, faults, tries>>

(* Fault: a file in the way is taken for one that is applied already.      *)
LinkSkips ==
    /\ pc = "link"
    /\ LET k == Order[i]
       IN  /\ disk' = IF disk[To[k]] = None THEN [disk EXCEPT ![To[k]] = New(k)] ELSE disk
           /\ applied' = applied \cup {To[k]}
           /\ IF i = Len(Order) THEN Goto("here") ELSE i' = i + 1 /\ UNCHANGED pc
    /\ UNCHANGED <<id, here, resync, rhere, temp, faults, tries>>

(* Pass 4c: fileLink() each file of RESYNC into the repository, unless     *)
(* something is in the way or the link fails.                              *)
Link ==
    /\ pc = "link"
    /\ LET k == Order[i]
       IN  \/ /\ disk[To[k]] = None
              /\ disk' = [disk EXCEPT ![To[k]] = New(k)]
              /\ applied' = applied \cup {To[k]}
              /\ IF i = Len(Order) THEN Goto("here") ELSE i' = i + 1 /\ UNCHANGED pc
           \/ Goto("unapply") /\ UNCHANGED <<disk, applied>>
    /\ UNCHANGED <<id, here, resync, rhere, temp, faults, tries>>

(* A HERE in RESYNC replaces the one there is, if that can be unlinked ... *)
Here ==
    /\ pc = "here"
    /\ \/ ~rhere /\ Goto("check") /\ UNCHANGED here
       \/ rhere /\ here # "none" /\ here' = "none" /\ Goto("move")
       \/ rhere /\ Goto("unapply") /\ UNCHANGED here
    /\ UNCHANGED <<disk, id, resync, rhere, temp, applied, faults, tries>>

(* ... and fileMove() takes it out of RESYNC.                              *)
Move ==
    /\ pc = "move"
    /\ \/ here' = "new" /\ rhere' = FALSE /\ Goto("check")
       \/ Goto("unapply") /\ UNCHANGED <<here, rhere>>
    /\ UNCHANGED <<disk, id, resync, temp, applied, faults, tries>>

(* Fault: resolve exits when the check fails.                              *)
CheckExits ==
    /\ pc = "check"
    /\ \/ id' \in Written /\ Goto("done")
       \/ id' \in Written \cup {id} /\ Goto("idle")
    /\ UNCHANGED <<disk, here, resync, rhere, temp, applied, faults, tries>>

(* chkCaseChg() and run_check() on the result; a check that fails may have *)
(* written the id cache.                                                   *)
Check ==
    /\ pc = "check"
    /\ \/ id' \in Written /\ Goto("done")
       \/ id' \in Written \cup {id} /\ Goto("unapply")
    /\ UNCHANGED <<disk, here, resync, rhere, temp, applied, faults, tries>>

(* Fault: the backup is restored over the files that were applied.         *)
UnapplyNothing ==
    /\ pc = "unapply"
    /\ applied' = {}
    /\ Goto("restore")
    /\ UNCHANGED <<disk4, resync, rhere, temp, faults, tries>>

(* unapply(): what was linked goes; nobody looks whether its unlink fails. *)
Unapply ==
    /\ pc = "unapply"
    /\ IF applied = {}
       THEN Goto("restore") /\ UNCHANGED <<disk, applied, faults>>
       ELSE \E p \in applied :
            /\ \/ disk' = [disk EXCEPT ![p] = None] /\ UNCHANGED faults
               \/ faults < MaxFaults /\ faults' = faults + 1 /\ UNCHANGED disk
            /\ applied' = applied \ {p}
            /\ UNCHANGED <<pc, i>>
    /\ UNCHANGED <<id, here, resync, rhere, temp, tries>>

(* restore_backup(): sfio -i skips a file that is there already and stops  *)
(* at one that is different ...                                            *)
Extract ==
    /\ backup # None
    /\ i <= Len(backup)
    /\ LET b == backup[i]
       IN  \/ /\ disk[b.path] \in {None, b.file}
              /\ disk' = [disk EXCEPT ![b.path] = b.file]
              /\ i' = i + 1
              /\ UNCHANGED pc
           \/ /\ disk[b.path] \notin {None, b.file}
              /\ Goto("idle")
              /\ UNCHANGED disk
    /\ UNCHANGED <<id, here, resync, rhere, temp, applied, faults, tries>>

Restore ==
    /\ pc = "restore"
    /\ Extract

(* ... then a full check writes the id cache.                              *)
Restored ==
    /\ pc = "restore"
    /\ backup = None \/ i > Len(backup)
    /\ id' \in (IF backup = None THEN {id} ELSE Written)
    /\ Goto("idle")
    /\ UNCHANGED <<disk, here, resync, rhere, temp, applied, faults, tries>>

(* The backup is not needed any more ...                                   *)
Done ==
    /\ pc = "done"
    /\ list' = << >>
    /\ backup' = None
    /\ applied' = {}
    /\ Goto("rmtree")
    /\ UNCHANGED <<disk4, resync, rhere, faults, tries>>

(* ... and RESYNC goes: cleanup of resolve, or abort_patch(), which leaves *)
(* BACKUP_SFIO alone.                                                      *)
Rmtree ==
    /\ pc = "rmtree"
    /\ resync' = "none"
    /\ rhere' = FALSE
    /\ list' = << >>
    /\ Goto("idle")
    /\ UNCHANGED <<disk4, backup, applied, faults, tries>>

(* bk abort; a bare RESYNC is "no RESYNC directory".                       *)
Abort ==
    /\ pc = "idle"
    /\ resync \notin {"none", "bare"}
    /\ Goto("rmtree")
    /\ UNCHANGED <<disk4, resync, rhere, temp, applied, faults, tries>>

(* Where RESYNC is being removed.                                          *)
Removing == {"rmtree", "urmtree", "uclean"}

(* The command is killed; inside rmtree() a part of RESYNC is gone.  A     *)
(* command that a second error stops in its roll back leaves the same.     *)
Killed ==
    /\ pc # "idle"
    /\ faults < MaxFaults
    /\ faults' = faults + 1
    /\ \/ UNCHANGED resync
       \/ pc \in Removing /\ resync' = "partial"
       \/ pc \in Removing \cup {"take"} /\ resync' = "bare"
    /\ applied' = {}
    /\ Goto("idle")
    /\ UNCHANGED <<disk4, rhere, temp, tries>>

(* What leaves the contents of RESYNC alone, HERE apart.                   *)
Work ==
    \/ TakeLock \/ TakeDone \/ TakeFails
    \/ Resolve \/ Trigger \/ List \/ Save \/ Sfio \/ Remove \/ Link \/ Here \/ Move \/ Check
    \/ Unapply \/ Restore \/ Restored \/ Done
    \/ Abort

Next == Work \/ Rmtree \/ Killed

Spec == Init /\ [][Next]_vars

-----------------------------------------------------------------------------

(* Whichever step of pass 4 fails, the roll back leaves all the files of   *)
(* the repository as they were: old, or new if the update went through.    *)
AllOrNothing == faults = 0 /\ pc = "idle" => disk \in {OldDisk, NewDisk}

(* "resolve: failed to remove conflict": pass 4b has made room for every   *)
(* file that pass 4c links, renames that swap names included.              *)
NoConflict == faults = 0 /\ pc = "link" => disk[To[Order[i]]] = None

(* Until all of the update is in place every old s.file is in its own      *)
(* place or in the backup, wherever the command is killed, as long as pass *)
(* 4 was begun once.                                                       *)
AllNew == \A k \in Key : disk[To[k]] = New(k)
Saved(k) ==
    \/ disk[From[k]] = Old(k)
    \/ backup # None /\ \E n \in DOMAIN backup : backup[n] = [path |-> From[k], file |-> Old(k)]
OldRecoverable ==
    tries <= 1 /\ ~AllNew => \A k \in Key : From[k] # None => Saved(k)

(* The backup is given up only for a repository with all the new files and *)
(* the HERE of the update, if it has one.  It has no other file, either,   *)
(* unless a command was killed: a resolve that finds no ChangeSet file     *)
(* takes every file to be where it was created, and does not see an old    *)
(* one that is elsewhere.                                                  *)
CompleteWhenDone ==
    pc = "done" => ~rhere /\ AllNew /\ (faults = 0 => disk = NewDisk)

(* "There is no harm in aborting and trying again": bk abort leaves a      *)
(* repository with all of its files.                                       *)
AbortHarmless == [][Rmtree => disk \in {OldDisk, NewDisk}]_vars

=============================================================================
