------------------------------ MODULE Transfer ------------------------------
(***************************************************************************)
(* push.c, pull.c, bkd_push.c and bkd_pull.c: clients that push changesets *)
(* to a server and pull them from it.                                      *)
(*                                                                         *)
(* A push has two parts, three if there is BAM data: the keys (part 1),    *)
(* the patch (part 2: takepatch, and then resolve) and the BAM data (part  *)
(* 3, which then resolves).  Over bk:// one process of the server does all *)
(* of them under one lock.  Over http each part is a process with a lock   *)
(* of its own, and between two of them anything may happen to the server.  *)
(*                                                                         *)
(* The repository lock is what RWLock promises.  Which keys a side lacks   *)
(* is what KeySync shows that synckeys.c finds out.  How an update is      *)
(* applied file by file is in Apply; here it is one step.                  *)
(***************************************************************************)
EXTENDS Naturals, Sequences, FiniteSets

CONSTANTS Clients,
          Bam,       \* the values of bp_hasBAM() to look at
          MaxCsets   \* bound: changesets in the world

ASSUME TransferBounds == MaxCsets \in Nat \ {0} /\ Bam \subseteq BOOLEAN

Server == "server"
None == "none"
Repos == Clients \cup {Server}

ASSUME TransferNames == Server \notin Clients /\ None \notin Clients

VARIABLES
    parents,  \* the parents of every changeset there is
    repo,     \* the changesets of each repository
    bam,      \* bp_hasBAM(): every changeset comes with BAM data
    pool,     \* the changesets whose BAM data the server has
    resync,   \* the changesets that are new in the server's RESYNC; none: there is no RESYNC
    owner,    \* history: the client whose push made it
    writer,   \* the client whose bkd has the write lock of the server
    readers,  \* the clients whose bkd has a read lock of it
    pc, conn, \* what each client is about to do, over http or bk
    sent,     \* the changesets of its patch
    robbed,   \* history: clients of whose push somebody else removed something
    stray     \* history: the push that made the RESYNC left it behind

world == <<parents, bam>>
server == <<pool, resync, owner>>
locks == <<writer, readers>>
client == <<pc, conn, sent>>
vars == <<world, repo, server, locks, client, robbed, stray>>

Csets == DOMAIN parents
Tips(S) == S \ UNION {parents[x] : x \in S}
Closed(S) == \A x \in S : parents[x] \subseteq S
Whole(S) == S # {} /\ Closed(S) /\ Cardinality(Tips(S)) = 1

TrTypeOK ==
    /\ parents \in Seq(SUBSET (1 .. MaxCsets)) /\ Len(parents) \in 1 .. MaxCsets
    /\ repo \in [Repos -> SUBSET Csets]
    /\ bam \in BOOLEAN
    /\ pool \subseteq Csets
    /\ resync \subseteq Csets \ repo[Server]                \* nothing in a RESYNC is old
    /\ owner \in Clients \cup {None}
    /\ writer \in Clients \cup {None} /\ readers \subseteq Clients
    /\ writer # None => readers = {}
    /\ pc \in [Clients -> {"idle", "ok", "part2", "part3", "resolve", "pull2"}]
    /\ conn \in [Clients -> {"http", "bk", None}]
    /\ sent \in [Clients -> SUBSET Csets]
    /\ robbed \subseteq Clients /\ stray \in BOOLEAN

Init ==
    /\ parents = <<{}>>
    /\ repo = [r \in Repos |-> {1}]
    /\ bam \in Bam
    /\ pool = {1}
    /\ resync = {} /\ owner = None
    /\ writer = None /\ readers = {}
    /\ pc = [c \in Clients |-> "idle"]
    /\ conn = [c \in Clients |-> None]
    /\ sent = [c \in Clients |-> {}]
    /\ robbed = {} /\ stray = FALSE

-----------------------------------------------------------------------------

(* rdlock() and wrlock(): a RESYNC is in the way of writers only.          *)
CanRead == writer = None
Unlocked == writer = None /\ readers = {}
CanWrite == Unlocked /\ resync = {}

Idle(c) == pc[c] \in {"idle", "ok"}

(* A push has a read lock of the client's repository and a pull a write    *)
(* lock, so that nothing else changes it in between.                       *)
Quiet(r) == IF r = Server THEN CanWrite ELSE Idle(r)

(* The clients to whose push the removal of S is news.                     *)
Robbed(S) == {c \in Clients : pc[c] \in {"part3", "resolve"} /\ sent[c] \cap S # {}}

(* bk commit, and what a resolve of two tips commits.                      *)
NewCset(S) == parents' = Append(parents, Tips(S))
Next1 == Len(parents) + 1

Commit(r) ==
    /\ Quiet(r)
    /\ Len(parents) < MaxCsets
    /\ NewCset(repo[r])
    /\ repo' = [repo EXCEPT ![r] = @ \cup {Next1}]
    /\ pool' = IF r = Server THEN pool \cup {Next1} ELSE pool
    /\ UNCHANGED <<bam, resync, owner, locks, client, robbed, stray>>

(* bk undo; the BAM data stays in the pool.                                *)
Undo(r) ==
    /\ Quiet(r)
    /\ \E S \in SUBSET repo[r] :
          /\ S # repo[r] /\ Whole(S)
          /\ repo' = [repo EXCEPT ![r] = S]
          /\ robbed' = IF r = Server THEN robbed \cup Robbed(repo[r] \ S) ELSE robbed
    /\ UNCHANGED <<world, server, locks, client, stray>>

-----------------------------------------------------------------------------

(* The end of a connection, for which the bkd may have removed S from the  *)
(* server: the bkd releases what it has.                                   *)
Leave(c, state, S) ==
    /\ pc' = [pc EXCEPT ![c] = state]
    /\ sent' = [sent EXCEPT ![c] = {}]
    /\ writer' = IF writer = c THEN None ELSE writer
    /\ readers' = readers \ {c}
    /\ conn' = [conn EXCEPT ![c] = None]
    /\ robbed' = (robbed \cup Robbed(S)) \ {c}

(* Part 1: the keys.  With changesets that the client lacks, or without    *)
(* any to send, the push ends here.                                        *)
PushPart1(c) ==
    /\ Idle(c)
    /\ CanWrite
    /\ repo[Server] \subseteq repo[c] /\ repo[Server] # repo[c]
    /\ \E how \in {"http", "bk"} :
          /\ conn' = [conn EXCEPT ![c] = how]
          /\ writer' = IF how = "bk" THEN c ELSE None
    /\ sent' = [sent EXCEPT ![c] = repo[c] \ repo[Server]]
    /\ pc' = [pc EXCEPT ![c] = "part2"]
    /\ UNCHANGED <<world, repo, server, readers, robbed, stray>>

New(c) == sent[c] \ repo[Server]
After(c) == repo[Server] \cup sent[c]

(* Fault: the parents of what comes are not looked for.                    *)
AheadNever(c) == FALSE

(* "tp_ahead": a parent of the patch is missing.                           *)
Ahead(c) == ~ Closed(After(c))

(* Fault: takepatch without -c.                                            *)
ConflictsNever(c) == FALSE

(* "tp_noconflicts", of takepatch -c: there would be two tips.             *)
Conflicts(c) == Cardinality(Tips(After(c))) # 1

(* A patch that is refused, or that is all there, makes no RESYNC.         *)
Refused(c) == Ahead(c) \/ Conflicts(c)

(* Part 2: over http the lock that it has stays until the resolve, or,     *)
(* with BAM data to come, ends here.                                       *)
PushPart2(c) ==
    /\ pc[c] = "part2"
    /\ writer = c \/ CanWrite
    /\ \/ /\ Refused(c)
          /\ Leave(c, "idle", {})
          /\ UNCHANGED <<resync, owner>>
       \/ /\ ~ Refused(c)
          /\ resync' = New(c)
          /\ owner' = c
          /\ pc' = [pc EXCEPT ![c] = IF bam THEN "part3" ELSE "resolve"]
          /\ writer' = IF bam /\ conn[c] = "http" THEN None ELSE c
          /\ UNCHANGED <<conn, sent, readers, robbed>>
    /\ UNCHANGED <<world, repo, pool, stray>>

(* The RESYNC is removed, or the client c gives it up.                     *)
RmResync == resync' = {} /\ owner' = None /\ stray' = FALSE
LeaveResync(c) ==
    /\ stray' = (stray \/ (owner = c /\ resync # {}))
    /\ UNCHANGED <<resync, owner>>

(* BAM data goes into the pool as it comes; if that fails, bk abort -f     *)
(* removes whatever RESYNC there is.                                       *)
BamData(c) ==
    \/ /\ pool' = pool \cup sent[c]
       /\ pc' = [pc EXCEPT ![c] = "resolve"]
       /\ writer' = c
       /\ UNCHANGED <<resync, owner, conn, sent, readers, robbed, stray>>
    \/ /\ \E S \in SUBSET sent[c] : pool' = pool \cup S
       /\ RmResync
       /\ Leave(c, "idle", resync)

(* Fault: the lock of part 3 does not ignore the RESYNC of part 2.         *)
PushPart3Blocked(c) ==
    /\ pc[c] = "part3"
    /\ writer = c \/ CanWrite
    /\ BamData(c)
    /\ UNCHANGED <<world, repo>>

(* Fault: part 3 is done with the BAM data.                                *)
PushPart3Early(c) ==
    /\ pc[c] = "part3"
    /\ writer = c \/ Unlocked
    /\ pool' = pool \cup sent[c]
    /\ LeaveResync(c)
    /\ Leave(c, "ok", {})
    /\ UNCHANGED <<world, repo>>

(* Part 3: the lock ignores the RESYNC, whoever made it.                   *)
PushPart3(c) ==
    /\ pc[c] = "part3"
    /\ writer = c \/ Unlocked
    /\ BamData(c)
    /\ UNCHANGED <<world, repo>>

(* Fault: check does not look for BAM data.                                *)
CheckedNot == TRUE

(* check: BAM data that is missing fails the resolve.                      *)
Checked == bam => resync \subseteq pool

Apply ==
    /\ Checked
    /\ repo' = [repo EXCEPT ![Server] = @ \cup resync]
    /\ RmResync

(* bkd_doResolve: without a RESYNC there is nothing to resolve.  A trigger *)
(* may abort the update; any other failure leaves the RESYNC there.        *)
Resolve(c) ==
    /\ pc[c] = "resolve"
    /\ \/ Apply /\ Leave(c, "ok", {})
       \/ /\ resync # {}
          /\ RmResync
          /\ Leave(c, "idle", resync)
          /\ UNCHANGED repo
       \/ /\ resync # {}
          /\ LeaveResync(c)
          /\ Leave(c, "idle", {})
          /\ UNCHANGED repo
    /\ UNCHANGED <<world, pool>>

(* Fault: a pull does not wait for a writer.                               *)
PullPart1Anyway(c) ==
    /\ Idle(c)
    /\ conn' = [conn EXCEPT ![c] = "bk"]
    /\ readers' = readers \cup {c}
    /\ pc' = [pc EXCEPT ![c] = "pull2"]
    /\ UNCHANGED <<world, repo, server, writer, sent, robbed, stray>>

(* Pull: the keys of the server, and then what the client lacks.  Two tips *)
(* are merged in the client.                                               *)
PullPart1(c) ==
    /\ Idle(c)
    /\ CanRead
    /\ \E how \in {"http", "bk"} :
          /\ conn' = [conn EXCEPT ![c] = how]
          /\ readers' = IF how = "bk" THEN readers \cup {c} ELSE readers
    /\ pc' = [pc EXCEPT ![c] = "pull2"]
    /\ UNCHANGED <<world, repo, server, writer, sent, robbed, stray>>

PullPart2(c) ==
    /\ pc[c] = "pull2"
    /\ CanRead
    /\ LET all == repo[c] \cup repo[Server]
       IN  \/ /\ Cardinality(Tips(all)) = 1
              /\ repo' = [repo EXCEPT ![c] = all]
              /\ UNCHANGED parents
           \/ /\ Cardinality(Tips(all)) = 2
              /\ Len(parents) < MaxCsets
              /\ NewCset(all)
              /\ repo' = [repo EXCEPT ![c] = all \cup {Next1}]
    /\ Leave(c, "idle", {})
    /\ UNCHANGED <<bam, server, stray>>

(* A part over http that does not get its lock: the push begins again, and *)
(* the pull fails.                                                         *)
LockedOut(c) ==
    /\ \/ pc[c] = "part2" /\ writer # c /\ ~ CanWrite
       \/ pc[c] = "part3" /\ writer # c /\ ~ Unlocked
       \/ pc[c] = "pull2" /\ ~ CanRead
    /\ LeaveResync(c)
    /\ Leave(c, "idle", {})
    /\ UNCHANGED <<world, repo, pool>>

(* The client is killed, or the connection lost, between two parts.        *)
Lost(c) ==
    /\ pc[c] \in {"part2", "part3", "pull2"}
    /\ LeaveResync(c)
    /\ Leave(c, "idle", {})
    /\ UNCHANGED <<world, repo, pool>>

-----------------------------------------------------------------------------

(* bk abort and bk resolve by somebody at the server.                      *)
LocalAbort ==
    /\ Unlocked
    /\ resync # {}
    /\ RmResync
    /\ robbed' = robbed \cup Robbed(resync)
    /\ UNCHANGED <<world, repo, pool, locks, client>>

LocalResolve ==
    /\ Unlocked
    /\ resync # {}
    /\ Apply
    /\ UNCHANGED <<world, pool, locks, client, robbed>>

Local == LocalAbort \/ LocalResolve \/ \E r \in Repos : Commit(r) \/ Undo(r)

(* What a client's program goes on to do by itself.                        *)
Goes(c) == PushPart2(c) \/ PushPart3(c) \/ Resolve(c) \/ PullPart2(c) \/ LockedOut(c)

Next == Local \/ \E c \in Clients : PushPart1(c) \/ PullPart1(c) \/ Goes(c) \/ Lost(c)

Spec == Init /\ [][Next]_vars
FairSpec == Spec /\ \A c \in Clients : WF_vars(Goes(c))

-----------------------------------------------------------------------------

(* However the parts of pushes, pulls, undos and aborts interleave, every  *)
(* repository has whatever is behind a changeset of it, and one tip.       *)
AllWhole == \A r \in Repos : Whole(repo[r])

(* A push is of a repository that has all that the server has, also at the *)
(* time that its patch is taken, not just when the keys were compared.     *)
OnlySupersets ==
    resync # {} /\ pc[owner] \in {"part3", "resolve"} =>
        repo[Server] \cup resync \subseteq repo[owner]

(* The server never has a changeset without its BAM data, whoever resolves *)
(* the RESYNC that waits for part 3.                                       *)
BamComplete == bam => repo[Server] \subseteq pool

(* A push that reports success has its changesets in the server, unless    *)
(* somebody there removed them while it waited for part 3.                 *)
PushedIsThere ==
    [][\A c \in Clients : pc[c] # "ok" /\ pc'[c] = "ok" =>
          c \in robbed \/ sent[c] \subseteq repo'[Server]]_vars

(* A RESYNC is resolved or aborted by the push that made it, unless that   *)
(* push failed, was cut off, or did not get the lock for its part 3.       *)
ResyncSettles == resync # {} ~> resync = {} \/ stray
=============================================================================
