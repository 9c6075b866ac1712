------------------------------ MODULE KeySync ------------------------------
(***************************************************************************)
(* synckeys.c: how two repositories find out which deltas of the ChangeSet *)
(* file one of them has and the other one lacks.                           *)
(*                                                                         *)
(* The prober sends some keys of its own (probekey), the lister answers    *)
(* with the first one that it knows and with all of its keys that are not  *)
(* behind that one (listkey), and the prober works out the difference      *)
(* (prunekey).  In a push the client probes.  In a pull the server does,   *)
(* and over http it holds no lock between its probe and its prune.         *)
(*                                                                         *)
(* A delta is a changeset, a tag, or both.  Its number is its place in the *)
(* order of time, which is the order of the delta table.                   *)
(***************************************************************************)
EXTENDS Naturals, Sequences, FiniteSets

CONSTANTS MaxDeltas,   \* bound: deltas in the world
          MaxTags,     \* bound: those of them that are in the tag graph
          MaxMerges,   \* bound: those of them that are merges of changesets
          MaxElsewhere \* bound: those of them that neither repository has

ASSUME KeySyncBounds == MaxDeltas \in Nat \ {0} /\ {MaxTags, MaxMerges, MaxElsewhere} \subseteq Nat

VARIABLES
    graph,    \* every delta there is, in either repository
    mine,     \* the deltas of the prober
    theirs,   \* the deltas of the lister; none of these if it is of another package
    pc,       \* how far the two are
    top,      \* the loop of a probe: where it began,
    d, n,     \* at which delta it is, and how far to go back
    lod,      \* the keys after @LOD PROBE@
    tag,      \* the keys after @TAG PROBE@
    match,    \* the keys after @LOD MATCH@ and @TAG MATCH@
    tagMatch,
    list,     \* the keys after @END MATCHES@
    local,    \* prunekey: what the prober alone has
    remote,   \* prunekey: what the lister alone has
    since     \* history: the prober has "same", "grown" or "shrunk" since its probe

probing == <<top, d, n, lod, tag>>
answer == <<match, tagMatch, list>>
result == <<local, remote>>
vars == <<graph, mine, theirs, pc, probing, answer, result, since>>

(* PARENT and MERGE of a changeset, the changeset that a mere tag is on    *)
(* (its PARENT in the code), PTAG and MTAG of a delta in the tag graph; 0  *)
(* is none.                                                                *)
Delta == [cset : BOOLEAN, parent : Nat, merge : Nat, on : Nat,
          symbol : BOOLEAN, ptag : Nat, mtag : Nat]

Deltas == DOMAIN graph
Root == 1                                                   \* TREE(s)
Csets == {x \in Deltas : graph[x].cset}
Tags == {x \in Deltas : graph[x].symbol}

Up(x) == {graph[x].parent, graph[x].merge} \ {0}
TagUp(x) == {graph[x].ptag, graph[x].mtag} \ {0}
Behind(x) == Up(x) \cup TagUp(x) \cup ({graph[x].on} \ {0})

(* What can be reached from x along the edges up.                          *)
ClosedSets(up(_)) == {S \in SUBSET Deltas : \A z \in S : up(z) \subseteq S}
Reach(x, up(_)) == Deltas \ UNION {Deltas \ S : S \in {C \in ClosedSets(up) : x \in C}}

Line(x) == {graph[x].parent} \ {0}
TagLine(x) == {graph[x].ptag} \ {0}

(* A repository at rest: whatever is behind a delta, one tip, one tag tip. *)
Tips(S, up(_)) == S \ UNION {up(x) : x \in S}
Repository(S) ==
    /\ Root \in S
    /\ \A x \in S : Behind(x) \subseteq S
    /\ Cardinality(Tips(S \cap Csets, Up)) = 1
    /\ Cardinality(Tips(S \cap Tags, TagUp)) <= 1

Repositories == {S \in SUBSET Deltas : Repository(S)}

KSTypeOK ==
    /\ graph \in Seq(Delta) /\ Len(graph) \in 1 .. MaxDeltas
    /\ mine \subseteq Deltas /\ theirs \subseteq Deltas
    /\ pc \in {"history", "lod", "tag", "probed", "listed", "pruned", "unrelated", "died"}
    /\ top \in Csets \cup {0} /\ d \in Deltas \cup {0} /\ n \in 1 .. 4 * MaxDeltas
    /\ lod \in Seq(Csets) /\ tag \in Seq(Tags)
    /\ match \in Csets \cup {0} /\ tagMatch \in Tags \cup {0}
    /\ list \subseteq Deltas /\ local \subseteq Deltas /\ remote \subseteq Deltas
    /\ since \in {"same", "grown", "shrunk"}

Init ==
    /\ graph = <<[cset |-> TRUE, parent |-> 0, merge |-> 0, on |-> 0,
                  symbol |-> FALSE, ptag |-> 0, mtag |-> 0]>>
    /\ mine = {} /\ theirs = {}
    /\ pc = "history"
    /\ top = 0 /\ d = 0 /\ n = 1
    /\ lod = << >> /\ tag = << >>
    /\ match = 0 /\ tagMatch = 0 /\ list = {}
    /\ local = {} /\ remote = {}
    /\ since = "same"

-----------------------------------------------------------------------------

IsNewest(x, S) == x \in S /\ \A y \in S : y <= x

(* The pairs of edges that a delta can have in one of the two graphs: to   *)
(* one delta, or to two of which neither is behind the other.              *)
Apart(x, y, closed) == \E C \in closed : x \in C /\ y \notin C
Edges(S, closed) ==
    {e \in S \X (S \cup {0}) : e[2] # 0 => Apart(e[1], e[2], closed) /\ Apart(e[2], e[1], closed)}
Merges == {x \in Csets : graph[x].merge # 0}

(* Somebody somewhere commits, merges, or tags the newest changeset.       *)
NewDelta ==
    /\ pc = "history"
    /\ Len(graph) < MaxDeltas
    /\ \E c \in Edges(Csets, ClosedSets(Up)) \cup {<<0, 0>>},
          t \in Edges(Tags, ClosedSets(TagUp)) \cup {<<0, 0>>},
          on \in Csets \cup {0}, symbol \in BOOLEAN :
          /\ c[1] = 0 <=> on # 0                            \* a changeset or a tag on one
          /\ on # 0 => IsNewest(on, Csets)
          /\ on # 0 \/ t # <<0, 0>> => symbol
          /\ symbol => Cardinality(Tags) < MaxTags
          /\ c[2] # 0 => Cardinality(Merges) < MaxMerges
          /\ graph' = Append(graph, [cset |-> on = 0, parent |-> c[1], merge |-> c[2], on |-> on,
                                     symbol |-> symbol, ptag |-> t[1], mtag |-> t[2]])
    /\ UNCHANGED <<mine, theirs, pc, probing, answer, result, since>>

(* Two repositories, or two of different packages, get in touch.           *)
Meet ==
    /\ pc = "history"
    /\ \E S, T \in Repositories \cup {{}} :
          /\ S # {}
          /\ Cardinality(Deltas \ (S \cup T)) <= MaxElsewhere
          /\ mine' = S
          /\ theirs' = T
          /\ top' \in Tips(S \cap Csets, Up)                \* sccs_top()
    /\ d' = top'
    /\ pc' = "lod"
    /\ UNCHANGED <<graph, n, lod, tag, answer, result, since>>

Serial(x) == Cardinality({y \in mine : y <= x})
Below(x) == Serial(top) - Serial(x)

(* Fault: every changeset on the way back is probed.                       *)
LodKeyEach ==
    /\ pc = "lod"
    /\ d \notin {0, Root}
    /\ lod' = Append(lod, d)
    /\ d' = graph[d].parent
    /\ UNCHANGED <<graph, mine, theirs, pc, top, n, tag, answer, result, since>>

(* lod_probekey: back along PARENT to a changeset that is n - 1 or more    *)
(* serials below the tip, where n doubles.                                 *)
LodKey ==
    /\ pc = "lod"
    /\ d \notin {0, Root}
    /\ n - 1 <= Serial(top)
    /\ LET far == {x \in Reach(d, Line) : Below(x) >= n - 1}
       IN  \/ far = {} /\ d' = 0 /\ UNCHANGED lod
           \/ \E key \in far :
                 /\ IsNewest(key, far)
                 /\ lod' = Append(lod, key)
                 /\ d' = graph[key].parent
    /\ n' = 2 * n
    /\ UNCHANGED <<graph, mine, theirs, pc, top, tag, answer, result, since>>

(* The root key always; then the newest tag that has a tag before it.      *)
RootKey ==
    /\ pc = "lod"
    /\ d \in {0, Root} \/ n - 1 > Serial(top)
    /\ lod' = Append(lod, Root)
    /\ LET later == {x \in mine : graph[x].ptag # 0}
       IN  \/ later = {} /\ d' = 0 /\ pc' = "probed"
           \/ \E x \in later : IsNewest(x, later) /\ d' = x /\ pc' = "tag"
    /\ n' = 1
    /\ UNCHANGED <<graph, mine, theirs, top, tag, answer, result, since>>

(* Fault: the probe of the tags does not stop at the first one.            *)
TagKeyOnAndOn ==
    /\ pc = "tag"
    /\ tag' = Append(tag, d)
    /\ d' = IF graph[d].ptag = 0 THEN d ELSE graph[d].ptag
    /\ n' = 2 * n
    /\ UNCHANGED <<graph, mine, theirs, pc, top, lod, answer, result, since>>

(* tag_probekey: n - 1 tags back along PTAG, or as far as that goes.       *)
TagKey ==
    /\ pc = "tag"
    /\ LET line == Reach(d, TagLine)
           Newer(x) == Cardinality({y \in line : y > x})
       IN  \E key \in line :
              /\ Newer(key) = n - 1 \/ (Newer(key) < n - 1 /\ graph[key].ptag = 0)
              /\ tag' = Append(tag, key)
              /\ d' = key
              /\ pc' = IF graph[key].ptag = 0 THEN "probed" ELSE pc
    /\ n' = 2 * n
    /\ UNCHANGED <<graph, mine, theirs, top, lod, answer, result, since>>

(* Fault: the first key of a probe is taken for the match.                 *)
IsFirstOfAll(x, keys) == x = IF keys # << >> /\ theirs # {} THEN keys[1] ELSE 0

(* sccs_findKey() of one key after the other, until one is found.          *)
IsFirst(x, keys) ==
    \/ x = 0 /\ \A j \in DOMAIN keys : keys[j] \notin theirs
    \/ \E j \in DOMAIN keys :
          x = keys[j] /\ x \in theirs /\ \A k \in 1 .. j - 1 : keys[k] \notin theirs

(* sccs_tagcolor() and, beside it, sccs_color(); a delta may be behind     *)
(* both ways.                                                              *)
TagColored(t) == IF t = 0 THEN {} ELSE Reach(t, TagUp)
Colored(x, t) == (IF x = 0 THEN {} ELSE Reach(x, Up)) \cup TagColored(t)

(* Fault: tags are not listed.                                             *)
ListCsets ==
    /\ pc = "probed"
    /\ match' \in Deltas \cup {0} /\ IsFirst(match', lod)
    /\ tagMatch' \in Deltas \cup {0} /\ IsFirst(tagMatch', tag)
    /\ \/ match' = 0 /\ pc' = "unrelated" /\ UNCHANGED list
       \/ match' # 0 /\ pc' = "listed" /\ list' = (theirs \cap Csets) \ Colored(match', tagMatch')
    /\ UNCHANGED <<graph, mine, theirs, probing, result, since>>

(* Fault: the lister names a tag of its own as the match.                   *)
ListOwnTag ==
    /\ pc = "probed"
    /\ match' \in Deltas \cup {0} /\ IsFirst(match', lod)
    /\ tagMatch' \in Deltas \cup {0} /\ tagMatch' \in theirs \cap Tags
    /\ \/ match' = 0 /\ pc' = "unrelated" /\ UNCHANGED list
       \/ match' # 0 /\ pc' = "listed" /\ list' = theirs \ Colored(match', tagMatch')
    /\ UNCHANGED <<graph, mine, theirs, probing, result, since>>

(* listkey: no match, or the matches and all keys that are not behind them *)
ListKey ==
    /\ pc = "probed"
    /\ match' \in Deltas \cup {0} /\ IsFirst(match', lod)
    /\ tagMatch' \in Deltas \cup {0} /\ IsFirst(tagMatch', tag)
    /\ \/ match' = 0 /\ pc' = "unrelated" /\ UNCHANGED list
       \/ match' # 0 /\ pc' = "listed" /\ list' = theirs \ Colored(match', tagMatch')
    /\ UNCHANGED <<graph, mine, theirs, probing, result, since>>

(* A server that is not locked takes a push, or somebody runs undo there.  *)
Change ==
    /\ pc = "listed"
    /\ since = "same"
    /\ \/ /\ mine' \in {S \in SUBSET Deltas : mine \subseteq S /\ S # mine /\ Repository(S)}
          /\ since' = "grown"
       \/ /\ mine' \in {S \in SUBSET mine : S # mine /\ Repository(S)}
          /\ since' = "shrunk"
    /\ UNCHANGED <<graph, theirs, pc, probing, answer, result>>

(* prunekey: a match that is not there is a bad key and skipped, but a tag *)
(* match that is not there fails an assertion.                             *)
PruneKey ==
    /\ pc = "listed"
    /\ IF tagMatch \notin mine \cup {0}
       THEN pc' = "died" /\ UNCHANGED result
       ELSE /\ local' = mine \ (Colored(IF match \in mine THEN match ELSE 0, tagMatch) \cup list)
            /\ remote' = list \ mine
            /\ pc' = "pruned"
    /\ UNCHANGED <<graph, mine, theirs, probing, answer, since>>

Next ==
    \/ NewDelta \/ Meet
    \/ LodKey \/ RootKey \/ TagKey \/ ListKey
    \/ Change \/ PruneKey

Spec == Init /\ [][Next]_vars

-----------------------------------------------------------------------------

(* Whatever happened to the prober between its probe and its prune, every  *)
(* delta that the lister lacks is among those to send: no patch leaves a   *)
(* hole in the history of the receiver.                                    *)
NothingMissed == pc = "pruned" => mine \ theirs \subseteq local

(* Unless the prober lost deltas in between, the two counts that decide    *)
(* between sending, "nothing to send" and a conflict are exact.            *)
Exact == pc = "pruned" /\ since # "shrunk" => local = mine \ theirs /\ remote = theirs \ mine

(* prunekey's assertion that it knows the tag match holds unless a tag was *)
(* undone in between.                                                      *)
TagMatchKnown == pc = "died" => since = "shrunk"

(* 2 ^ k                                                                   *)
Power2[k \in Nat] == IF k = 0 THEN 1 ELSE 2 * Power2[k - 1]

(* The number of keys in a probe grows with the logarithm of the history.  *)
ProbeIsShort == pc = "probed" => Power2[Len(lod)] <= 4 * (Serial(top) + 1)
=============================================================================
