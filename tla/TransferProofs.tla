--------------------------- MODULE TransferProofs ---------------------------
(***************************************************************************)
(* What pushes and pulls keep, for any number of clients and changesets.   *)
(***************************************************************************)
EXTENDS Transfer, Integers, FiniteSetTheorems, WellFoundedInduction, TLAPS

(* The graph g in the place of parents, whose next value is another one.   *)
TipsIn(g, S) == S \ UNION {g[x] : x \in S}
ClosedIn(g, S) == \A x \in S : g[x] \subseteq S
WholeIn(g, S) == S # {} /\ ClosedIn(g, S) /\ Cardinality(TipsIn(g, S)) = 1

(* Every changeset comes after its parents.                                *)
Graph(g) == g \in Seq(SUBSET Nat) /\ \A x \in DOMAIN g : g[x] \subseteq 1 .. x - 1

-----------------------------------------------------------------------------

(* A set of changesets has a newest one.                                   *)
LEMMA Newest ==
    ASSUME NEW N \in Nat, NEW S, S \subseteq 1 .. N, S # {}
    PROVE  \E m \in S : \A x \in S : x <= m
<1> DEFINE T == {N - x : x \in S}
           Less == OpToRel(<, Nat)
<1>1. T \subseteq Nat /\ T # {}
  <2> \A x \in S : N - x \in Nat  OBVIOUS
  <2> HIDE DEF Less
  <2> QED  BY Zenon
<1>2. PICK y \in T : \A z \in T : <<z, y>> \notin Less
  <2> HIDE DEF T
  <2> QED  BY <1>1, WFMin, NatLessThanWellFounded, Zenon
<1>3. \A z \in T : ~ (z < y)  BY <1>1, <1>2, Zenon DEF OpToRel
<1>4. PICK m \in S : y = N - m  BY Zenon
<1>5. \A x \in S : N - x \in T  BY Zenon
<1> HIDE DEF T
<1> QED  BY <1>1, <1>3, <1>4, <1>5

(* A closed set leaves a tip in whatever goes beyond it.                   *)
LEMMA TipBeyond ==
    ASSUME NEW g, Graph(g), NEW S, S \subseteq DOMAIN g,
           NEW C, ClosedIn(g, C), S \ C # {}
    PROVE  \E m \in S \ C : m \in TipsIn(g, S)
<1>1. Len(g) \in Nat /\ DOMAIN g = 1 .. Len(g)  BY DEF Graph
<1>2. PICK m \in S \ C : \A x \in S \ C : x <= m
  BY <1>1, Newest, Zenon
<1>3. \A x \in S : m \notin g[x]
  BY <1>1, <1>2 DEF Graph, ClosedIn
<1> QED  BY <1>2, <1>3, Zenon DEF TipsIn

(* One tip.                                                                *)
LEMMA OneTip ==
    ASSUME NEW g, Graph(g), NEW S, S \subseteq DOMAIN g
    PROVE  Cardinality(TipsIn(g, S)) = 1 <=> \E t : TipsIn(g, S) = {t}
<1>1. Len(g) \in Nat /\ DOMAIN g = 1 .. Len(g)  BY DEF Graph
<1>2. TipsIn(g, S) \in SUBSET (1 .. Len(g))  BY <1>1, Zenon DEF TipsIn
<1>3. IsFiniteSet(1 .. Len(g))  BY <1>1, FS_Interval
<1>4. IsFiniteSet(TipsIn(g, S))  BY <1>2, <1>3, FS_Subset, Zenon
<1> QED  BY <1>4, FS_Singleton, Zenon

(* A new changeset on all the tips of a closed set is its one tip.         *)
LEMMA Grow ==
    ASSUME NEW g, Graph(g), NEW S, S \subseteq DOMAIN g, ClosedIn(g, S)
    PROVE  LET h == Append(g, TipsIn(g, S))
               n == Len(g) + 1
           IN  Graph(h) /\ WholeIn(h, S \cup {n})
<1> DEFINE h == Append(g, TipsIn(g, S))
           n == Len(g) + 1
<1>1. Len(g) \in Nat /\ DOMAIN g = 1 .. Len(g)  BY DEF Graph
<1>2. TipsIn(g, S) \subseteq S  BY Zenon DEF TipsIn
<1>3. h \in Seq(SUBSET Nat)  BY <1>1, <1>2 DEF Graph
<1>4. DOMAIN h = 1 .. n /\ h[n] = TipsIn(g, S) /\ \A x \in DOMAIN g : h[x] = g[x]
  BY <1>1 DEF Graph
<1>5. Graph(h)
  <2> SUFFICES ASSUME NEW x \in DOMAIN h PROVE h[x] \subseteq 1 .. x - 1
    BY <1>3, Zenon DEF Graph
  <2>1. CASE x = n  BY <2>1, <1>1, <1>2, <1>4
  <2>2. CASE x # n
    <3>1. x \in DOMAIN g  BY <2>2, <1>1, <1>4
    <3> QED  BY <3>1, <1>4, Zenon DEF Graph
  <2> QED  BY <2>1, <2>2, Zenon
<1>6. ClosedIn(h, S \cup {n})  BY <1>2, <1>4, Zenon DEF ClosedIn
<1>7. n \notin DOMAIN g /\ \A x \in DOMAIN g : n \notin g[x]  BY <1>1 DEF Graph
<1>8. TipsIn(h, S \cup {n}) = {n}
  <2> HIDE DEF h, n
  <2>1. \A x \in S : h[x] = g[x]  BY <1>4, Zenon
  <2>2. n \notin TipsIn(g, S)  BY <1>2, <1>7, Zenon
  <2>3. n \in TipsIn(h, S \cup {n})  BY <2>1, <2>2, <1>4, <1>7 DEF TipsIn
  <2>4. \A y \in S : y \in TipsIn(g, S) \/ \E x \in S : y \in g[x]  BY Zenon DEF TipsIn
  <2>5. \A y \in S : \E x \in S \cup {n} : y \in h[x]  BY <2>1, <2>4, <1>4, Zenon
  <2> QED  BY <2>3, <2>5, Zenon DEF TipsIn
<1> HIDE DEF h, n
<1>9. Cardinality(TipsIn(h, S \cup {n})) = 1  BY <1>8, FS_Singleton, Zenon
<1>10. QED  BY <1>5, <1>6, <1>9, Zenon DEF WholeIn, h, n

(* What is older than the newest changeset is as whole as it was.          *)
LEMMA Older ==
    ASSUME NEW g, Graph(g), NEW P, NEW S, S \subseteq DOMAIN g
    PROVE  WholeIn(Append(g, P), S) <=> WholeIn(g, S)
<1> DEFINE h == Append(g, P)
<1>1. \A x \in S : h[x] = g[x]  BY DEF Graph
<1> HIDE DEF h
<1>2. {h[x] : x \in S} = {g[x] : x \in S}  BY <1>1, Zenon
<1>3. ClosedIn(h, S) <=> ClosedIn(g, S)  BY <1>1, Zenon DEF ClosedIn
<1> QED  BY <1>2, <1>3, Zenon DEF WholeIn, TipsIn, h

-----------------------------------------------------------------------------

(* Every repository is whole, and so is the server with what is in RESYNC. *)
History ==
    /\ Graph(parents)
    /\ \A r \in Repos : WholeIn(parents, repo[r])
    /\ resync # {} => owner \in Clients /\ WholeIn(parents, repo[Server] \cup resync)

(* A push sends what its client has and, once it is taken, what it sent is *)
(* in the server or in RESYNC.  Whoever resolves has the write lock, and   *)
(* the write lock over bk:// was taken without a RESYNC.                   *)
Pushes(c) ==
    /\ pc[c] \in {"part2", "part3", "resolve"} => sent[c] \subseteq repo[c]
    /\ pc[c] = "resolve" => writer = c
    /\ pc[c] = "part2" /\ writer = c => resync = {}
    /\ pc[c] \in {"part3", "resolve"} =>
          c \in robbed \/ sent[c] \subseteq repo[Server] \cup resync

TrInv ==
    /\ TrTypeOK
    /\ History
    /\ \A c \in Clients : Pushes(c)
    /\ OnlySupersets
    /\ BamComplete

(* The types, those of the repositories and those of the clients.          *)
World ==
    /\ parents \in Seq(SUBSET (1 .. MaxCsets)) /\ Len(parents) \in 1 .. MaxCsets
    /\ repo \in [Repos -> SUBSET Csets]
    /\ bam \in BOOLEAN
    /\ pool \subseteq Csets
    /\ resync \subseteq Csets \ repo[Server]
    /\ owner \in Clients \cup {None}
    /\ stray \in BOOLEAN
Talks ==
    /\ writer \in Clients \cup {None} /\ readers \subseteq Clients
    /\ writer # None => readers = {}
    /\ pc \in [Clients -> {"idle", "ok", "part2", "part3", "resolve", "pull2"}]
    /\ conn \in [Clients -> {"http", "bk", None}]
    /\ sent \in [Clients -> SUBSET Csets]
    /\ robbed \subseteq Clients

LEMMA Types == TrTypeOK <=> World /\ Talks
BY Zenon DEF TrTypeOK, World, Talks

LEMMA InitInv == Init => TrInv
<1> SUFFICES ASSUME Init PROVE TrInv  BY Zenon
<1>1. parents = <<{}>> /\ DOMAIN parents = {1} /\ parents[1] = {}  BY DEF Init
<1>2. Graph(parents)  BY <1>1 DEF Graph
<1>3. TipsIn(parents, {1}) = {1}  BY <1>1, Zenon DEF TipsIn
<1>4. WholeIn(parents, {1})  BY <1>1, <1>3, FS_Singleton, Zenon DEF WholeIn, ClosedIn
<1>5. History  BY <1>2, <1>4, Zenon DEF History, Init
<1>6. World
  <2>1. parents \in Seq(SUBSET (1 .. MaxCsets)) /\ Len(parents) \in 1 .. MaxCsets
    BY <1>1, TransferBounds
  <2> QED  BY <2>1, <1>1, TransferBounds, Zenon DEF Init, World, Csets
<1>7. Talks  BY <1>1, Zenon DEF Init, Talks, Csets
<1>8. \A c \in Clients : Pushes(c)  BY Zenon DEF Init, Pushes
<1>9. OnlySupersets  BY Zenon DEF Init, OnlySupersets
<1>10. BamComplete  BY Zenon DEF Init, BamComplete, Repos
<1> QED  BY <1>5, <1>6, <1>7, <1>8, <1>9, <1>10, Types, Zenon DEF TrInv

(* The end of a connection, as the other clients see it.                   *)
LEMMA LeaveOthers ==
    ASSUME Talks, NEW c \in Clients, NEW st \in {"idle", "ok"}, NEW S, Leave(c, st, S),
           Csets \subseteq Csets'
    PROVE  /\ Talks'
           /\ pc'[c] = st
           /\ \A k \in Clients \ {c} :
                 /\ pc'[k] = pc[k] /\ sent'[k] = sent[k]
                 /\ writer = k <=> writer' = k
                 /\ k \in robbed => k \in robbed'
                 /\ pc[k] \in {"part3", "resolve"} /\ sent[k] \cap S # {} => k \in robbed'
BY TransferNames, Zenon DEF Leave, Talks, Robbed

(* What is left to show of a step that ends a connection: what it does to  *)
(* the repositories, and that S is all that it takes from the server.      *)
LEMMA LeaveInv ==
    ASSUME TrInv, NEW c \in Clients, NEW st \in {"idle", "ok"}, NEW S, Leave(c, st, S),
           World', History', BamComplete', Csets \subseteq Csets',
           \A k \in Clients \ {c} : repo'[k] = repo[k],
           (repo[Server] \cup resync) \ S \subseteq repo'[Server] \cup resync',
           resync' # {} => resync' = resync /\ repo'[Server] = repo[Server] /\ owner' = owner
    PROVE  TrInv'
<1>1. Talks  BY Types, Zenon DEF TrInv
<1>2. /\ Talks'
      /\ pc'[c] = st
      /\ \A k \in Clients \ {c} :
            /\ pc'[k] = pc[k] /\ sent'[k] = sent[k]
            /\ writer = k <=> writer' = k
            /\ k \in robbed => k \in robbed'
            /\ pc[k] \in {"part3", "resolve"} /\ sent[k] \cap S # {} => k \in robbed'
  BY <1>1, LeaveOthers
<1>3. TrTypeOK'  BY <1>2, Types, Zenon DEF TrTypeOK, World, Talks
<1>4. ASSUME NEW k \in Clients PROVE Pushes(k)'
  <2>1. CASE k = c  BY <2>1, <1>2, Zenon DEF Pushes
  <2>2. CASE k # c
    <3>1. Pushes(k)  BY Zenon DEF TrInv
    <3>2. /\ pc'[k] = pc[k] /\ sent'[k] = sent[k] /\ repo'[k] = repo[k]
          /\ writer = k <=> writer' = k
          /\ k \in robbed => k \in robbed'
          /\ pc[k] \in {"part3", "resolve"} /\ sent[k] \cap S # {} => k \in robbed'
      BY <2>2, <1>2, Zenon
    <3> QED  BY <3>1, <3>2, Zenon DEF Pushes
  <2> QED  BY <2>1, <2>2, Zenon
<1>5. OnlySupersets'
  <2> SUFFICES ASSUME resync' # {}, pc'[owner'] \in {"part3", "resolve"}
               PROVE  repo'[Server] \cup resync' \subseteq repo'[owner']
    BY Zenon DEF OnlySupersets
  <2>1. resync = resync' /\ repo'[Server] = repo[Server] /\ owner' = owner  BY Zenon
  <2>2. owner \in Clients \ {c}  BY <2>1, <1>2, Zenon DEF TrInv, History
  <2> QED  BY <2>1, <2>2, <1>2, Zenon DEF TrInv, OnlySupersets
<1> QED  BY <1>3, <1>4, <1>5, Zenon DEF TrInv

(* A step that leaves the repositories as they are.                        *)
LEMMA Still ==
    ASSUME TrInv, UNCHANGED <<parents, bam, repo>>,
           pool \subseteq pool', pool' \subseteq Csets, stray' \in BOOLEAN,
           \/ resync' = {} /\ owner' = None
           \/ UNCHANGED <<resync, owner>>
    PROVE  World' /\ History' /\ BamComplete' /\ Csets' = Csets
<1>1. World /\ History /\ BamComplete  BY Types, Zenon DEF TrInv
<1>2. Csets' = Csets  BY Zenon DEF Csets
<1>3. World'  BY <1>1, <1>2, Zenon DEF World
<1>4. History'  BY <1>1, Zenon DEF History
<1>5. BamComplete'  BY <1>1, Zenon DEF BamComplete
<1> QED  BY <1>2, <1>3, <1>4, <1>5, Zenon

(* A commit on top of S, a closed set, in the repository r.                *)
LEMMA NewCsetHistory ==
    ASSUME TrInv, NEW r \in Repos, NEW S, S \subseteq Csets, Closed(S),
           NewCset(S), Len(parents) < MaxCsets,
           repo' = [repo EXCEPT ![r] = S \cup {Next1}],
           r = Server => resync = {}, UNCHANGED <<bam, resync, owner, stray>>,
           pool' \subseteq pool \cup {Next1}
    PROVE  World' /\ History' /\ Csets \subseteq Csets' /\ Next1 \in Csets'
<1>1. World /\ History  BY Types, Zenon DEF TrInv
<1>2. Len(parents) \in Nat /\ Csets = 1 .. Len(parents) /\ MaxCsets \in Nat
  BY <1>1, TransferBounds DEF World, Csets
<1>3. Graph(parents) /\ ClosedIn(parents, S) /\ Tips(S) = TipsIn(parents, S) /\ Next1 = Len(parents) + 1
  BY <1>1, Zenon DEF History, Closed, ClosedIn, Tips, TipsIn, Next1
<1>4. parents' = Append(parents, TipsIn(parents, S))  BY <1>3, Zenon DEF NewCset
<1>5. Graph(parents') /\ WholeIn(parents', S \cup {Next1})
  BY <1>3, <1>4, Grow, Zenon DEF Csets
<1>6. \A T : T \subseteq Csets => (WholeIn(parents', T) <=> WholeIn(parents, T))
  BY <1>3, <1>4, Older, Zenon DEF Csets
<1>7. /\ Csets' = Csets \cup {Next1}
      /\ Len(parents') = Len(parents) + 1
      /\ parents' \in Seq(SUBSET (1 .. MaxCsets))
  <2>1. TipsIn(parents, S) \in SUBSET (1 .. MaxCsets)
    <3>1. 1 .. Len(parents) \subseteq 1 .. MaxCsets  BY <1>2
    <3> QED  BY <3>1, <1>2, Zenon DEF TipsIn
  <2>2. parents \in Seq(SUBSET (1 .. MaxCsets))  BY <1>1, Zenon DEF World
  <2>3. Len(parents') = Len(parents) + 1 /\ parents' \in Seq(SUBSET (1 .. MaxCsets))
    BY <1>4, <2>1, <2>2
  <2>4. Csets' = 1 .. Len(parents) + 1  BY <2>3 DEF Csets
  <2> QED  BY <2>3, <2>4, <1>2, <1>3
<1>8. /\ repo \in [Repos -> SUBSET Csets] /\ Server \in Repos
      /\ Next1 \notin Csets
  BY <1>1, <1>2, <1>3 DEF World, Repos
<1>9. repo'[r] = S \cup {Next1} /\ \A q \in Repos \ {r} : repo'[q] = repo[q]  BY <1>8, Zenon
<1>10. World'
  <2>1. repo' \in [Repos -> SUBSET Csets']  BY <1>7, <1>8, Zenon
  <2>2. Len(parents') \in 1 .. MaxCsets  BY <1>2, <1>7
  <2>3. resync' \subseteq Csets' \ repo'[Server]  BY <1>1, <1>7, <1>8, <1>9, Zenon DEF World
  <2> QED  BY <2>1, <2>2, <2>3, <1>1, <1>7, Zenon DEF World
<1>11. History'
  <2>1. \A q \in Repos : WholeIn(parents', repo'[q])
    <3> SUFFICES ASSUME NEW q \in Repos PROVE WholeIn(parents', repo'[q])  BY Zenon
    <3>1. CASE q = r  BY <3>1, <1>5, <1>9, Zenon
    <3>2. CASE q # r  BY <3>2, <1>1, <1>6, <1>8, <1>9, Zenon DEF History
    <3> QED  BY <3>1, <3>2, Zenon
  <2>2. resync' # {} => owner' \in Clients /\ WholeIn(parents', repo'[Server] \cup resync')
    <3> SUFFICES ASSUME resync # {}
                 PROVE  owner \in Clients /\ WholeIn(parents', repo'[Server] \cup resync)
      BY Zenon
    <3>1. repo'[Server] = repo[Server]  BY <1>8, <1>9, Zenon
    <3>2. repo[Server] \cup resync \subseteq Csets  BY <1>1, <1>8, Zenon DEF World
    <3> QED  BY <3>1, <3>2, <1>1, <1>6, Zenon DEF History
  <2> QED  BY <2>1, <2>2, <1>5, Zenon DEF History
<1> QED  BY <1>7, <1>10, <1>11, Zenon

LEMMA CommitInv == ASSUME TrInv, NEW r \in Repos, Commit(r) PROVE TrInv'
<1>1. World /\ Talks /\ History  BY Types, Zenon DEF TrInv
<1>2. repo \in [Repos -> SUBSET Csets] /\ Server \in Repos /\ \A c \in Clients : c \in Repos /\ c # Server
  BY <1>1, TransferNames, Zenon DEF World, Repos
<1>3. /\ repo' = [repo EXCEPT ![r] = repo[r] \cup {Next1}]
      /\ pool' = IF r = Server THEN pool \cup {Next1} ELSE pool
      /\ UNCHANGED <<bam, resync, owner, writer, readers, pc, conn, sent, robbed, stray>>
      /\ NewCset(repo[r]) /\ Len(parents) < MaxCsets /\ Quiet(r)
  BY Zenon DEF Commit, locks, client
<1>4. /\ r = Server => resync = {}
      /\ r # Server => pc[r] \in {"idle", "ok"}
  BY <1>3, Zenon DEF Quiet, CanWrite, Idle
<1>5. Closed(repo[r])  BY <1>1, Zenon DEF History, WholeIn, ClosedIn, Closed
<1>6. World' /\ History' /\ Csets \subseteq Csets' /\ Next1 \in Csets'
  BY <1>2, <1>3, <1>4, <1>5, NewCsetHistory, Zenon
<1>7. Talks'  BY <1>1, <1>3, <1>6, Zenon DEF Talks
<1>8. /\ repo'[r] = repo[r] \cup {Next1}
      /\ \A q \in Repos \ {r} : repo'[q] = repo[q]
  BY <1>2, <1>3, Zenon
<1>9. BamComplete'
  <2>1. BamComplete  BY Zenon DEF TrInv
  <2> QED  BY <2>1, <1>2, <1>3, <1>8, Zenon DEF BamComplete
<1>10. ASSUME NEW k \in Clients PROVE Pushes(k)'
  <2>1. Pushes(k)  BY Zenon DEF TrInv
  <2>2. repo[k] \subseteq repo'[k] /\ repo[Server] \subseteq repo'[Server]  BY <1>2, <1>8, Zenon
  <2> QED  BY <2>1, <2>2, <1>3, Zenon DEF Pushes
<1>11. OnlySupersets'
  <2> SUFFICES ASSUME resync # {}, pc[owner] \in {"part3", "resolve"}
               PROVE  repo'[Server] \cup resync \subseteq repo'[owner]
    BY <1>3, Zenon DEF OnlySupersets
  <2>1. owner \in Clients /\ r # Server  BY <1>1, <1>4, Zenon DEF History
  <2>2. r # owner  BY <2>1, <1>4, Zenon
  <2> QED  BY <2>1, <2>2, <1>2, <1>8, Zenon DEF TrInv, OnlySupersets
<1> QED  BY <1>6, <1>7, <1>9, <1>10, <1>11, Types, Zenon DEF TrInv, TrTypeOK, World, Talks

LEMMA UndoInv == ASSUME TrInv, NEW r \in Repos, Undo(r) PROVE TrInv'
<1>1. World /\ Talks /\ History  BY Types, Zenon DEF TrInv
<1>2. repo \in [Repos -> SUBSET Csets] /\ Server \in Repos /\ \A c \in Clients : c \in Repos /\ c # Server
  BY <1>1, TransferNames, Zenon DEF World, Repos
<1>3. PICK S \in SUBSET repo[r] :
         /\ Whole(S)
         /\ repo' = [repo EXCEPT ![r] = S]
         /\ robbed' = IF r = Server THEN robbed \cup Robbed(repo[r] \ S) ELSE robbed
  BY Zenon DEF Undo
<1>4. /\ UNCHANGED <<parents, bam, pool, resync, owner, writer, readers, pc, conn, sent, stray>>
      /\ Quiet(r)
  BY Zenon DEF Undo, world, server, locks, client
<1>5. /\ r = Server => resync = {}
      /\ r # Server => pc[r] \in {"idle", "ok"}
  BY <1>4, Zenon DEF Quiet, CanWrite, Idle
<1>6. repo'[r] = S /\ (\A q \in Repos \ {r} : repo'[q] = repo[q]) /\ Csets' = Csets
  BY <1>2, <1>3, <1>4, Zenon DEF Csets
<1>7. World'
  <2>1. repo' \in [Repos -> SUBSET Csets]  BY <1>2, <1>3, Zenon
  <2>2. resync \subseteq Csets \ repo'[Server]  BY <1>1, <1>2, <1>5, <1>6, Zenon DEF World
  <2> QED  BY <2>1, <2>2, <1>1, <1>4, <1>6, Zenon DEF World
<1>8. Robbed(repo[r] \ S) \subseteq Clients  BY Zenon DEF Robbed
<1>9. Talks'  BY <1>1, <1>3, <1>4, <1>6, <1>8, Zenon DEF Talks
<1>10. History'
  <2>1. WholeIn(parents, S)  BY <1>3, Zenon DEF Whole, Closed, Tips, WholeIn, ClosedIn, TipsIn
  <2> QED  BY <2>1, <1>1, <1>2, <1>4, <1>5, <1>6, Zenon DEF History
<1>11. BamComplete'
  <2>1. BamComplete /\ repo'[Server] \subseteq repo[Server]  BY <1>2, <1>6 DEF TrInv
  <2> QED  BY <2>1, <1>4, Zenon DEF BamComplete
<1>12. ASSUME NEW k \in Clients PROVE Pushes(k)'
  <2>1. Pushes(k)  BY Zenon DEF TrInv
  <2>2. CASE r = Server
    <3>1. repo'[k] = repo[k] /\ repo'[Server] = S /\ resync = {}  BY <2>2, <1>2, <1>5, <1>6, Zenon
    <3>2. k \in robbed => k \in robbed'  BY <1>3, Zenon
    <3>3. pc[k] \in {"part3", "resolve"} /\ sent[k] \cap (repo[Server] \ S) # {} => k \in robbed'
      BY <2>2, <1>3, Zenon DEF Robbed
    <3> QED  BY <2>1, <3>1, <3>2, <3>3, <1>4, Zenon DEF Pushes
  <2>3. CASE r # Server
    <3>1. repo'[Server] = repo[Server] /\ robbed' = robbed  BY <2>3, <1>2, <1>3, <1>6, Zenon
    <3>2. pc[k] \in {"part2", "part3", "resolve"} => repo'[k] = repo[k]
      BY <2>3, <1>2, <1>5, <1>6, Zenon
    <3> QED  BY <2>1, <3>1, <3>2, <1>4, Zenon DEF Pushes
  <2> QED  BY <2>2, <2>3, Zenon
<1>13. OnlySupersets'
  <2> SUFFICES ASSUME resync # {}, pc[owner] \in {"part3", "resolve"}
               PROVE  repo'[Server] \cup resync \subseteq repo'[owner]
    BY <1>4, Zenon DEF OnlySupersets
  <2>1. owner \in Clients /\ r # Server  BY <1>1, <1>5, Zenon DEF History
  <2>2. r # owner  BY <2>1, <1>5, Zenon
  <2> QED  BY <2>1, <2>2, <1>2, <1>6, Zenon DEF TrInv, OnlySupersets
<1> QED  BY <1>7, <1>9, <1>10, <1>11, <1>12, <1>13, Types, Zenon DEF TrInv, TrTypeOK, World, Talks

LEMMA PushPart1Inv == ASSUME TrInv, NEW c \in Clients, PushPart1(c) PROVE TrInv'
<1>1. World /\ Talks /\ History  BY Types, Zenon DEF TrInv
<1>2. /\ UNCHANGED <<parents, bam, repo, pool, resync, owner, readers, robbed, stray>>
      /\ pc' = [pc EXCEPT ![c] = "part2"]
      /\ sent' = [sent EXCEPT ![c] = repo[c] \ repo[Server]]
      /\ writer = None /\ readers = {} /\ resync = {}
  BY Zenon DEF PushPart1, world, server, CanWrite, Unlocked
<1>3. /\ conn' \in [Clients -> {"http", "bk", None}]
      /\ writer' \in {c, None}
  BY <1>1, Zenon DEF PushPart1, Talks
<1>4. World' /\ History' /\ BamComplete' /\ Csets' = Csets  BY <1>1, <1>2, Still, Zenon DEF World
<1>5. repo[c] \subseteq Csets  BY <1>1, Zenon DEF World, Repos
<1>6. Talks'  BY <1>1, <1>2, <1>3, <1>4, <1>5, Zenon DEF Talks
<1>7. /\ pc'[c] = "part2" /\ sent'[c] \subseteq repo[c]
      /\ \A k \in Clients \ {c} : pc'[k] = pc[k] /\ sent'[k] = sent[k]
  BY <1>1, <1>2, Zenon DEF Talks
<1>8. ASSUME NEW k \in Clients PROVE Pushes(k)'
  <2>1. Pushes(k) /\ pc[k] # "resolve"  BY <1>2, TransferNames, Zenon DEF TrInv, Pushes
  <2>2. CASE k = c  BY <2>2, <1>2, <1>7, Zenon DEF Pushes
  <2>3. CASE k # c  BY <2>1, <2>3, <1>2, <1>7, Zenon DEF Pushes
  <2> QED  BY <2>2, <2>3, Zenon
<1>9. OnlySupersets'  BY <1>2, Zenon DEF OnlySupersets
<1> QED  BY <1>4, <1>6, <1>8, <1>9, Types, Zenon DEF TrInv, TrTypeOK, World, Talks

(* Whatever happened since part 1: the client has all that the server has, *)
(* or nothing that it sent is new.                                         *)
LEMMA PushPart2Inv == ASSUME TrInv, NEW c \in Clients, PushPart2(c) PROVE TrInv'
<1>1. World /\ Talks /\ History /\ Pushes(c)  BY Types, Zenon DEF TrInv
<1>2. /\ UNCHANGED <<parents, bam, repo, pool, stray>>
      /\ pc[c] = "part2" /\ sent[c] \subseteq repo[c]
      /\ writer = c \/ (writer = None /\ readers = {})
      /\ resync = {}
  <2>1. UNCHANGED <<parents, bam, repo, pool, stray>> /\ pc[c] = "part2"
    BY Zenon DEF PushPart2, world
  <2>2. writer = c \/ CanWrite  BY Zenon DEF PushPart2
  <2> QED  BY <1>1, <2>1, <2>2, Zenon DEF CanWrite, Unlocked, Pushes
<1>3. CASE Refused(c)
  <2>1. Leave(c, "idle", {}) /\ UNCHANGED <<resync, owner>>  BY <1>3, Zenon DEF PushPart2
  <2>2. World' /\ History' /\ BamComplete' /\ Csets' = Csets
    BY <1>1, <1>2, <2>1, Still, Zenon DEF World
  <2> QED  BY <1>2, <2>1, <2>2, LeaveInv, Zenon
<1>4. CASE ~ Refused(c)
  <2>1. /\ resync' = sent[c] \ repo[Server] /\ owner' = c
        /\ pc' = [pc EXCEPT ![c] = IF bam THEN "part3" ELSE "resolve"]
        /\ writer' = IF bam /\ conn[c] = "http" THEN None ELSE c
        /\ UNCHANGED <<conn, sent, readers, robbed>>
    BY <1>4, Zenon DEF PushPart2, New
  <2>2. /\ Server \in Repos /\ c \in Repos /\ repo[Server] \subseteq Csets
        /\ repo[c] \subseteq Csets /\ sent[c] \subseteq Csets /\ Csets' = Csets
    BY <1>1, <1>2, Zenon DEF World, Talks, Repos, Csets
  <2> DEFINE All == repo[Server] \cup sent[c]
  <2>3. WholeIn(parents, All)
    <3>1. repo[Server] # {}  BY <1>1, <2>2, Zenon DEF History, WholeIn
    <3> QED
      BY <1>4, <3>1, Zenon
         DEF Refused, Ahead, Conflicts, After, Closed, Tips, WholeIn, ClosedIn, TipsIn
  <2>4. World'  BY <1>1, <1>2, <2>1, <2>2, Zenon DEF World
  <2>5. Talks'  BY <1>1, <1>2, <2>1, <2>2, Zenon DEF Talks
  <2>6. repo[Server] \cup resync' = All  BY <2>1, Zenon
  <2>7. History'  BY <1>1, <1>2, <2>1, <2>3, <2>6, Zenon DEF History
  <2>8. BamComplete'  BY <1>2, Zenon DEF TrInv, BamComplete
  <2>9. pc'[c] \in {"part3", "resolve"} /\ \A k \in Clients \ {c} : pc'[k] = pc[k]
    BY <1>1, <2>1, Zenon DEF Talks
  <2>10. ASSUME NEW k \in Clients PROVE Pushes(k)'
    <3>1. CASE k = c
      <4>1. pc'[c] = "resolve" => writer' = c
        <5>1. pc'[c] = "resolve" => ~ bam  BY <1>1, <2>1, Zenon DEF Talks
        <5> QED  BY <5>1, <2>1, Zenon
      <4> QED  BY <3>1, <4>1, <1>2, <2>1, <2>6, <2>9, Zenon DEF Pushes
    <3>2. CASE k # c
      <4>1. Pushes(k) /\ pc'[k] = pc[k] /\ pc[k] # "resolve" /\ writer' # k
        BY <3>2, <1>2, <2>1, <2>9, TransferNames DEF TrInv, Pushes
      <4> QED  BY <4>1, <1>2, <2>1, Zenon DEF Pushes
    <3> QED  BY <3>1, <3>2, Zenon
  <2>11. resync' # {} => All \subseteq repo[c]
    <3> SUFFICES ASSUME resync' # {} PROVE All \subseteq repo[c]  BY Zenon
    <3>1. PICK m \in All \ repo[Server] : m \in TipsIn(parents, All)
      BY <1>1, <2>1, <2>2, TipBeyond DEF History, WholeIn, Csets
    <3>2. ASSUME All \ repo[c] # {} PROVE FALSE
      <4>1. PICK n \in All \ repo[c] : n \in TipsIn(parents, All)
        BY <3>2, <1>1, <2>2, TipBeyond DEF History, WholeIn, Csets
      <4>2. PICK t : TipsIn(parents, All) = {t}
        BY <1>1, <2>2, <2>3, OneTip, Zenon DEF History, WholeIn, Csets
      <4>3. m \in repo[c]  BY <1>2, Zenon
      <4> QED  BY <3>1, <4>1, <4>2, <4>3, Zenon
    <3> QED  BY <3>2, Zenon
  <2>12. OnlySupersets'  BY <1>2, <2>1, <2>6, <2>11, Zenon DEF OnlySupersets
  <2> QED  BY <2>4, <2>5, <2>7, <2>8, <2>10, <2>12, Types, Zenon DEF TrInv, TrTypeOK, World, Talks
<1> QED  BY <1>3, <1>4, Zenon

LEMMA PushPart3Inv == ASSUME TrInv, NEW c \in Clients, PushPart3(c) PROVE TrInv'
<1>1. World /\ Talks /\ Pushes(c)  BY Types, Zenon DEF TrInv
<1>2. /\ UNCHANGED <<parents, bam, repo>>
      /\ pc[c] = "part3"
      /\ writer = c \/ (writer = None /\ readers = {})
      /\ BamData(c)
  BY Zenon DEF PushPart3, world, Unlocked
<1>3. sent[c] \subseteq Csets  BY <1>1, Zenon DEF Talks
<1>4. CASE /\ pool' = pool \cup sent[c]
           /\ pc' = [pc EXCEPT ![c] = "resolve"]
           /\ writer' = c
           /\ UNCHANGED <<resync, owner, conn, sent, readers, robbed, stray>>
  <2>1. World' /\ History' /\ BamComplete' /\ Csets' = Csets
    BY <1>1, <1>2, <1>3, <1>4, Still, Zenon DEF World
  <2>2. Talks'  BY <1>1, <1>2, <1>4, <2>1, Zenon DEF Talks
  <2>3. pc'[c] = "resolve" /\ \A k \in Clients \ {c} : pc'[k] = pc[k]
    BY <1>1, <1>4, Zenon DEF Talks
  <2>4. ASSUME NEW k \in Clients PROVE Pushes(k)'
    <3>1. CASE k = c  BY <3>1, <1>1, <1>2, <1>4, <2>3, Zenon DEF Pushes
    <3>2. CASE k # c
      <4>1. Pushes(k) /\ pc'[k] = pc[k] /\ pc[k] # "resolve"
        BY <3>2, <1>2, <2>3, TransferNames DEF TrInv, Pushes
      <4> QED  BY <3>2, <4>1, <1>2, <1>4, Zenon DEF Pushes
    <3> QED  BY <3>1, <3>2, Zenon
  <2>5. OnlySupersets'
    <3>1. resync # {} => owner \in Clients  BY Zenon DEF TrInv, History
    <3> QED  BY <3>1, <1>2, <1>4, <2>3, Zenon DEF TrInv, OnlySupersets
  <2> QED  BY <2>1, <2>2, <2>4, <2>5, Types, Zenon DEF TrInv, TrTypeOK, World, Talks
<1>5. CASE /\ \E S \in SUBSET sent[c] : pool' = pool \cup S
           /\ RmResync
           /\ Leave(c, "idle", resync)
  <2>1. resync' = {} /\ owner' = None /\ stray' = FALSE  BY <1>5, Zenon DEF RmResync
  <2>2. World' /\ History' /\ BamComplete' /\ Csets' = Csets
    BY <1>1, <1>2, <1>3, <1>5, <2>1, Still, Zenon DEF World
  <2> QED  BY <1>2, <1>5, <2>1, <2>2, LeaveInv, Zenon
<1> QED  BY <1>2, <1>4, <1>5, Zenon DEF BamData

(* Pass 4, of whoever resolves.                                            *)
LEMMA ApplyHistory ==
    ASSUME TrInv, Apply, UNCHANGED <<parents, bam, pool>>
    PROVE  /\ World' /\ History' /\ BamComplete' /\ Csets' = Csets
           /\ resync' = {} /\ repo'[Server] = repo[Server] \cup resync
           /\ \A k \in Clients : repo'[k] = repo[k]
<1>1. World /\ History /\ BamComplete  BY Types, Zenon DEF TrInv
<1>2. /\ resync' = {} /\ owner' = None /\ stray' = FALSE
      /\ repo' = [repo EXCEPT ![Server] = repo[Server] \cup resync]
      /\ bam => resync \subseteq pool
  BY Zenon DEF Apply, RmResync, Checked
<1>3. repo \in [Repos -> SUBSET Csets] /\ Server \in Repos /\ \A c \in Clients : c \in Repos /\ c # Server
  BY <1>1, TransferNames, Zenon DEF World, Repos
<1>4. /\ repo'[Server] = repo[Server] \cup resync /\ Csets' = Csets
      /\ \A q \in Repos \ {Server} : repo'[q] = repo[q]
  BY <1>2, <1>3, Zenon DEF Csets
<1>5. World'
  <2>1. repo' \in [Repos -> SUBSET Csets]  BY <1>1, <1>2, <1>3, Zenon DEF World
  <2> QED  BY <2>1, <1>1, <1>2, <1>4, Zenon DEF World
<1>6. WholeIn(parents, repo[Server] \cup resync)
  <2>1. CASE resync = {}
    <3>1. repo[Server] \cup resync = repo[Server]  BY <2>1, Zenon
    <3> QED  BY <3>1, <1>1, <1>3, Zenon DEF History
  <2>2. CASE resync # {}  BY <2>2, <1>1, Zenon DEF History
  <2> QED  BY <2>1, <2>2, Zenon
<1>7. History'  BY <1>1, <1>2, <1>4, <1>6, Zenon DEF History
<1>8. BamComplete'  BY <1>1, <1>2, <1>4, Zenon DEF BamComplete
<1> QED  BY <1>2, <1>3, <1>4, <1>5, <1>7, <1>8, Zenon

LEMMA ResolveInv == ASSUME TrInv, NEW c \in Clients, Resolve(c) PROVE TrInv'
<1>1. UNCHANGED <<parents, bam, pool>>  BY Zenon DEF Resolve, world
<1>2. CASE Apply /\ Leave(c, "ok", {})
  <2>1. /\ World' /\ History' /\ BamComplete' /\ Csets' = Csets
        /\ resync' = {} /\ repo'[Server] = repo[Server] \cup resync
        /\ \A k \in Clients : repo'[k] = repo[k]
    BY <1>1, <1>2, ApplyHistory, Zenon
  <2> QED  BY <1>2, <2>1, LeaveInv, Zenon
<1>3. CASE RmResync /\ Leave(c, "idle", resync) /\ UNCHANGED repo
  <2>1. resync' = {} /\ owner' = None /\ stray' = FALSE  BY <1>3, Zenon DEF RmResync
  <2>2. World' /\ History' /\ BamComplete' /\ Csets' = Csets
    BY <1>1, <1>3, <2>1, Types, Still, Zenon DEF TrInv, World
  <2> QED  BY <1>3, <2>1, <2>2, LeaveInv, Zenon
<1>4. CASE LeaveResync(c) /\ Leave(c, "idle", {}) /\ UNCHANGED repo
  <2>1. UNCHANGED <<resync, owner>> /\ stray' \in BOOLEAN
    BY <1>4, Types, Zenon DEF LeaveResync, TrInv, World
  <2>2. World' /\ History' /\ BamComplete' /\ Csets' = Csets
    BY <1>1, <1>4, <2>1, Types, Still, Zenon DEF TrInv, World
  <2> QED  BY <1>4, <2>1, <2>2, LeaveInv, Zenon
<1> QED  BY <1>2, <1>3, <1>4, Zenon DEF Resolve

LEMMA PullPart1Inv == ASSUME TrInv, NEW c \in Clients, PullPart1(c) PROVE TrInv'
<1>1. World /\ Talks  BY Types, Zenon DEF TrInv
<1>2. /\ UNCHANGED <<parents, bam, repo, pool, resync, owner, writer, sent, robbed, stray>>
      /\ pc' = [pc EXCEPT ![c] = "pull2"] /\ pc[c] \in {"idle", "ok"}
      /\ writer = None
  BY Zenon DEF PullPart1, world, server, CanRead, Idle
<1>3. /\ conn' \in [Clients -> {"http", "bk", None}]
      /\ readers' \subseteq Clients
  BY <1>1, Zenon DEF PullPart1, Talks
<1>4. World' /\ History' /\ BamComplete' /\ Csets' = Csets  BY <1>1, <1>2, Still, Zenon DEF World
<1>5. Talks'  BY <1>1, <1>2, <1>3, <1>4, Zenon DEF Talks
<1>6. pc'[c] = "pull2" /\ \A k \in Clients \ {c} : pc'[k] = pc[k]
  BY <1>1, <1>2, Zenon DEF Talks
<1>7. ASSUME NEW k \in Clients PROVE Pushes(k)'
  <2>1. Pushes(k)  BY Zenon DEF TrInv
  <2> QED  BY <2>1, <1>2, <1>6, Zenon DEF Pushes
<1>8. OnlySupersets'
  <2>1. resync # {} => owner \in Clients  BY Zenon DEF TrInv, History
  <2> QED  BY <2>1, <1>2, <1>6, Zenon DEF TrInv, OnlySupersets
<1> QED  BY <1>4, <1>5, <1>7, <1>8, Types, Zenon DEF TrInv, TrTypeOK, World, Talks

LEMMA PullPart2Inv == ASSUME TrInv, NEW c \in Clients, PullPart2(c) PROVE TrInv'
<1>1. World /\ History  BY Types, Zenon DEF TrInv
<1>2. /\ UNCHANGED <<bam, pool, resync, owner, stray>>
      /\ Leave(c, "idle", {})
  BY Zenon DEF PullPart2, server
<1>3. /\ repo \in [Repos -> SUBSET Csets] /\ Server \in Repos
      /\ \A k \in Clients : k \in Repos /\ k # Server
  BY <1>1, TransferNames, Zenon DEF World, Repos
<1> DEFINE All == repo[c] \cup repo[Server]
<1>4. All \subseteq Csets /\ All # {} /\ Closed(All)
  BY <1>1, <1>3, Zenon DEF History, WholeIn, ClosedIn, Closed
<1>5. CASE /\ Cardinality(Tips(All)) = 1
           /\ repo' = [repo EXCEPT ![c] = All]
           /\ UNCHANGED parents
  <2>1. /\ repo'[c] = All /\ Csets' = Csets
        /\ \A q \in Repos \ {c} : repo'[q] = repo[q]
    BY <1>3, <1>5, Zenon DEF Csets
  <2>2. WholeIn(parents, All)
    BY <1>4, <1>5, Zenon DEF Closed, Tips, WholeIn, ClosedIn, TipsIn
  <2>3. World'
    <3>1. repo' \in [Repos -> SUBSET Csets]  BY <1>3, <1>4, <1>5, Zenon
    <3> QED  BY <3>1, <1>1, <1>2, <1>3, <1>5, <2>1, Zenon DEF World
  <2> HIDE DEF All
  <2>4. History'
    <3>1. repo'[Server] = repo[Server]  BY <1>3, <2>1, Zenon
    <3> QED  BY <3>1, <1>1, <1>2, <1>5, <2>1, <2>2, Zenon DEF History
  <2>5. BamComplete'  BY <1>2, <1>3, <2>1, Zenon DEF TrInv, BamComplete
  <2> QED  BY <1>2, <1>3, <2>1, <2>3, <2>4, <2>5, LeaveInv
<1>6. CASE /\ Len(parents) < MaxCsets
           /\ NewCset(All)
           /\ repo' = [repo EXCEPT ![c] = All \cup {Next1}]
  <2>1. World' /\ History' /\ Csets \subseteq Csets'
    BY <1>2, <1>3, <1>4, <1>6, NewCsetHistory, Zenon
  <2>2. \A q \in Repos \ {c} : repo'[q] = repo[q]  BY <1>3, <1>6, Zenon
  <2>3. BamComplete'  BY <1>2, <1>3, <2>2, Zenon DEF TrInv, BamComplete
  <2> QED  BY <1>2, <1>3, <2>1, <2>2, <2>3, LeaveInv
<1> QED  BY <1>5, <1>6, Zenon DEF PullPart2

(* A push or a pull that ends early.                                       *)
LEMMA EndInv ==
    ASSUME TrInv, NEW c \in Clients, LeaveResync(c), Leave(c, "idle", {}),
           UNCHANGED <<world, repo, pool>>
    PROVE  TrInv'
<1>1. UNCHANGED <<parents, bam, repo, pool, resync, owner>> /\ stray' \in BOOLEAN
  BY Types, Zenon DEF LeaveResync, TrInv, World, world
<1>2. World' /\ History' /\ BamComplete' /\ Csets' = Csets
  BY <1>1, Types, Still, Zenon DEF TrInv, World
<1> QED  BY <1>1, <1>2, LeaveInv, Zenon

LEMMA LocalAbortInv == TrInv /\ LocalAbort => TrInv'
<1> SUFFICES ASSUME TrInv, LocalAbort PROVE TrInv'  BY Zenon
<1>1. /\ UNCHANGED <<parents, bam, repo, pool, writer, readers, pc, conn, sent>>
      /\ resync' = {} /\ owner' = None /\ stray' = FALSE
      /\ robbed' = robbed \cup Robbed(resync)
  BY Zenon DEF LocalAbort, RmResync, world, locks, client
<1>2. World' /\ History' /\ BamComplete' /\ Csets' = Csets
  BY <1>1, Types, Still, Zenon DEF TrInv, World
<1>3. Talks'  BY <1>1, <1>2, Types, Zenon DEF TrInv, Talks, Robbed
<1>4. ASSUME NEW k \in Clients PROVE Pushes(k)'
  <2>1. Pushes(k)  BY Zenon DEF TrInv
  <2> QED  BY <2>1, <1>1, Zenon DEF Pushes, Robbed
<1>5. OnlySupersets'  BY <1>1, Zenon DEF OnlySupersets
<1> QED  BY <1>2, <1>3, <1>4, <1>5, Types, Zenon DEF TrInv, TrTypeOK, World, Talks

LEMMA LocalResolveInv == TrInv /\ LocalResolve => TrInv'
<1> SUFFICES ASSUME TrInv, LocalResolve PROVE TrInv'  BY Zenon
<1>1. UNCHANGED <<parents, bam, pool, writer, readers, pc, conn, sent, robbed>> /\ Apply
  BY Zenon DEF LocalResolve, world, locks, client
<1>2. /\ World' /\ History' /\ BamComplete' /\ Csets' = Csets
      /\ resync' = {} /\ repo'[Server] = repo[Server] \cup resync
      /\ \A k \in Clients : repo'[k] = repo[k]
  BY <1>1, ApplyHistory, Zenon
<1>3. Talks'  BY <1>1, <1>2, Types, Zenon DEF TrInv, Talks
<1>4. ASSUME NEW k \in Clients PROVE Pushes(k)'
  <2>1. Pushes(k)  BY Zenon DEF TrInv
  <2> QED  BY <2>1, <1>1, <1>2, Zenon DEF Pushes
<1>5. OnlySupersets'  BY <1>2, Zenon DEF OnlySupersets
<1> QED  BY <1>2, <1>3, <1>4, <1>5, Types, Zenon DEF TrInv, TrTypeOK, World, Talks

LEMMA NextInv == TrInv /\ [Next]_vars => TrInv'
<1> SUFFICES ASSUME TrInv, [Next]_vars PROVE TrInv'  BY Zenon
<1>1. CASE Local
  BY <1>1, LocalAbortInv, LocalResolveInv, CommitInv, UndoInv, Zenon DEF Local
<1>2. ASSUME NEW c \in Clients, PushPart1(c) \/ PullPart1(c) \/ Goes(c) \/ Lost(c) PROVE TrInv'
  <2>1. CASE LockedOut(c)  BY <2>1, EndInv, Zenon DEF LockedOut
  <2>2. CASE Lost(c)  BY <2>2, EndInv, Zenon DEF Lost
  <2> QED
    BY <1>2, <2>1, <2>2, PushPart1Inv, PushPart2Inv, PushPart3Inv, ResolveInv, PullPart1Inv,
       PullPart2Inv, Zenon DEF Goes
<1>3. CASE UNCHANGED vars
  <2>1. /\ UNCHANGED <<parents, bam, repo, pool, resync, owner, writer, readers>>
        /\ UNCHANGED <<pc, conn, sent, robbed, stray>>
    BY <1>3, Zenon DEF vars, world, server, locks, client
  <2>2. World' /\ History' /\ BamComplete' /\ Csets' = Csets
    BY <2>1, Types, Still, Zenon DEF TrInv, World
  <2>3. Talks'  BY <2>1, <2>2, Types, Zenon DEF TrInv, Talks
  <2>4. \A k \in Clients : Pushes(k)'  BY <2>1, Zenon DEF TrInv, Pushes
  <2>5. OnlySupersets'  BY <2>1, Zenon DEF TrInv, OnlySupersets
  <2> QED  BY <2>2, <2>3, <2>4, <2>5, Types, Zenon DEF TrInv, TrTypeOK, World, Talks
<1> QED  BY <1>1, <1>2, <1>3, Zenon DEF Next

(* The invariant of pushes and pulls: repositories and RESYNC are whole,   *)
(* whoever resolves has the lock, and what was sent has arrived or was     *)
(* removed by somebody.                                                    *)
THEOREM TrInvariant == Spec => []TrInv
BY InitInv, NextInv, PTL DEF Spec

(* Types, for any number of clients and changesets.                        *)
THEOREM TrTypeCorrect == Spec => []TrTypeOK
<1>1. TrInv => TrTypeOK  BY Zenon DEF TrInv
<1> QED  BY <1>1, TrInvariant, PTL

(* No interleaving of http requests leaves a repository with a hole in its *)
(* history or with two tips.                                               *)
THEOREM TrAllWhole == Spec => []AllWhole
<1>1. TrInv => AllWhole
  BY Zenon DEF TrInv, History, AllWhole, Whole, Closed, Tips, WholeIn, ClosedIn, TipsIn
<1> QED  BY <1>1, TrInvariant, PTL

(* takepatch takes only a patch of a client that has all of the server.    *)
THEOREM TrOnlySupersets == Spec => []OnlySupersets
<1>1. TrInv => OnlySupersets  BY Zenon DEF TrInv
<1> QED  BY <1>1, TrInvariant, PTL

(* The server has the BAM data of all of its changesets.                   *)
THEOREM TrBamComplete == Spec => []BamComplete
<1>1. TrInv => BamComplete  BY Zenon DEF TrInv
<1> QED  BY <1>1, TrInvariant, PTL

(* Only a resolve ends in success.                                         *)
LEMMA OkOnlyResolved ==
    ASSUME Talks, Next, NEW c \in Clients, pc[c] # "ok", pc'[c] = "ok"
    PROVE  Resolve(c) /\ Apply
<1>1. ~ Local
  BY Zenon DEF Local, LocalAbort, LocalResolve, Commit, Undo, client
<1>2. PICK k \in Clients : PushPart1(k) \/ PullPart1(k) \/ Goes(k) \/ Lost(k)
  BY <1>1, Zenon DEF Next
<1>3. ~ (PushPart1(k) \/ PullPart1(k) \/ Lost(k) \/ LockedOut(k) \/ PullPart2(k))
  BY Zenon DEF Talks, PushPart1, PullPart1, Lost, LockedOut, PullPart2, Leave
<1>4. ~ PushPart2(k)  BY Zenon DEF Talks, PushPart2, Leave
<1>5. ~ PushPart3(k)  BY Zenon DEF Talks, PushPart3, BamData, Leave
<1>6. Resolve(k)  BY <1>2, <1>3, <1>4, <1>5, Zenon DEF Goes
<1> QED  BY <1>6, Zenon DEF Talks, Resolve, Leave

(* A push that says OK has arrived, unless somebody at the server removed  *)
(* what it brought between part 2 and part 3.                              *)
THEOREM TrPushedIsThere == Spec => PushedIsThere
<1>1. TrInv /\ [Next]_vars =>
         [\A c \in Clients : pc[c] # "ok" /\ pc'[c] = "ok" =>
              c \in robbed \/ sent[c] \subseteq repo'[Server]]_vars
  <2> SUFFICES ASSUME TrInv, Next, NEW c \in Clients, pc[c] # "ok", pc'[c] = "ok"
               PROVE  c \in robbed \/ sent[c] \subseteq repo'[Server]
    BY Zenon
  <2>1. Talks /\ Pushes(c)  BY Types, Zenon DEF TrInv
  <2>2. Resolve(c) /\ Apply  BY <2>1, OkOnlyResolved, Zenon
  <2>3. pc[c] = "resolve" /\ UNCHANGED <<parents, bam, pool>>  BY <2>2, Zenon DEF Resolve, world
  <2>4. repo'[Server] = repo[Server] \cup resync  BY <2>2, <2>3, ApplyHistory, Zenon
  <2> QED  BY <2>1, <2>3, <2>4, Zenon DEF Pushes
<1> QED  BY <1>1, TrInvariant, PTL DEF Spec, PushedIsThere
=============================================================================
