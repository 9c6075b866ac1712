--------------------------- MODULE KeySyncProofs ---------------------------
(***************************************************************************)
(* What the exchange of keys finds out, for every history of changesets,   *)
(* merges and tags, and every way of probing that sends keys of its own.   *)
(***************************************************************************)
EXTENDS KeySync, FiniteSetTheorems, WellFoundedInduction, TLAPS

(* Whatever is behind a delta along the edges of either graph is there.    *)
Closed(S) == \A x \in S : Up(x) \subseteq S /\ TagUp(x) \subseteq S

Keys(seq) == {seq[j] : j \in DOMAIN seq}

(* The prober sends only keys that it has, the list is what the lister has *)
(* beyond the matches, and a match is a key of both.                       *)
KSInv ==
    /\ graph \in Seq(Delta)
    /\ mine \subseteq Deltas /\ Closed(mine)
    /\ theirs \subseteq Deltas /\ Closed(theirs)
    /\ pc = "history" => mine = {} /\ theirs = {} /\ d = 0 /\ lod = << >> /\ tag = << >>
    /\ pc # "history" => Root \in mine
    /\ pc \in {"history", "lod", "tag", "probed"} => since = "same"
    /\ since = "same" => d \in mine \cup {0}
    /\ pc = "tag" => d # 0
    /\ lod \in Seq(Deltas) /\ tag \in Seq(Deltas)
    /\ since # "shrunk" => Keys(lod) \cup Keys(tag) \subseteq mine
    /\ pc \in {"listed", "pruned", "died"} =>
          /\ match \in theirs /\ tagMatch \in theirs \cup {0}
          /\ list = theirs \ Colored(match, tagMatch)
          /\ since # "shrunk" => match \in mine /\ tagMatch \in mine \cup {0}
    /\ NothingMissed /\ Exact /\ TagMatchKnown

(* The parent of a changeset is one, and only tags have a tag before them. *)
Grown ==
    /\ Root \in Csets
    /\ \A x \in Csets : Line(x) \subseteq Csets
    /\ \A x \in Deltas : graph[x].ptag # 0 => x \in Tags /\ graph[x].ptag \in Tags

(* Each probe stays in its graph, and that of the tags doubles its stride  *)
(* at most once beyond the number of deltas.                               *)
KSTypes ==
    /\ KSTypeOK /\ Grown
    /\ pc = "lod" => d \in Csets \cup {0}
    /\ pc = "tag" => d \in Tags /\ n <= 2 * MaxDeltas

-----------------------------------------------------------------------------

(* What is reached from a delta of a closed set is in that set.            *)
LEMMA ReachInside ==
    ASSUME NEW S, S \subseteq Deltas, Closed(S), NEW x \in S
    PROVE  /\ Reach(x, Up) \subseteq S
           /\ Reach(x, TagUp) \subseteq S
           /\ Reach(x, Line) \subseteq S
           /\ Reach(x, TagLine) \subseteq S
<1>1. \A z \in S : Line(z) \subseteq S  BY Zenon DEF Closed, Up, Line
<1>2. \A z \in S : TagLine(z) \subseteq S  BY Zenon DEF Closed, TagUp, TagLine
<1>3. Reach(x, Up) \subseteq S  BY DEF Reach, ClosedSets, Closed
<1>4. Reach(x, TagUp) \subseteq S  BY DEF Reach, ClosedSets, Closed
<1>5. Reach(x, Line) \subseteq S  BY <1>1 DEF Reach, ClosedSets
<1>6. Reach(x, TagLine) \subseteq S  BY <1>2 DEF Reach, ClosedSets
<1> QED  BY <1>3, <1>4, <1>5, <1>6, Zenon

LEMMA ColoredInside ==
    ASSUME NEW S, S \subseteq Deltas, Closed(S), NEW x \in S \cup {0}, NEW t \in S \cup {0}
    PROVE  Colored(x, t) \subseteq S
<1>1. x # 0 => Reach(x, Up) \subseteq S  BY ReachInside, Zenon
<1>2. t # 0 => Reach(t, TagUp) \subseteq S  BY ReachInside, Zenon
<1> QED  BY <1>1, <1>2, Zenon DEF Colored, TagColored

(* Repositories are closed, and closed sets stay so when a delta is added  *)
(* to the world.                                                           *)
LEMMA RepositoryClosed ==
    ASSUME NEW S, Repository(S)
    PROVE  Closed(S) /\ Root \in S
BY Zenon DEF Repository, Closed, Behind

LEMMA InitInv == Init => KSInv
<1> SUFFICES ASSUME Init PROVE KSInv  BY Zenon
<1>1. lod = << >> /\ tag = << >>  BY Zenon DEF Init
<1>2. Keys(lod) = {} /\ Keys(tag) = {}  BY <1>1 DEF Keys
<1>3. lod \in Seq(Deltas) /\ tag \in Seq(Deltas)  BY <1>1
<1>4. graph \in Seq(Delta)  BY DEF Init, Delta
<1> QED
  BY <1>2, <1>3, <1>4, Zenon DEF Init, KSInv, Closed, NothingMissed, Exact, TagMatchKnown

(* A probe that is one key longer.                                         *)
LEMMA AppendKeys ==
    ASSUME NEW S, NEW seq \in Seq(S), NEW x \in S
    PROVE  /\ Append(seq, x) \in Seq(S)
           /\ Keys(Append(seq, x)) = Keys(seq) \cup {x}
<1>1. Append(seq, x) \in Seq(S)  OBVIOUS
<1>2. /\ DOMAIN Append(seq, x) = DOMAIN seq \cup {Len(seq) + 1}
      /\ \A j \in DOMAIN seq : Append(seq, x)[j] = seq[j]
      /\ Append(seq, x)[Len(seq) + 1] = x
  OBVIOUS
<1> QED  BY <1>1, <1>2, Zenon DEF Keys

(* What a delta of the history is like.                                     *)
LEMMA Appended ==
    NewDelta =>
    \E c \in Edges(Csets, ClosedSets(Up)) \cup {<<0, 0>>},
       t \in Edges(Tags, ClosedSets(TagUp)) \cup {<<0, 0>>},
       on \in Csets \cup {0}, symbol \in BOOLEAN :
       /\ c[1] = 0 <=> on # 0
       /\ on # 0 \/ t # <<0, 0>> => symbol
       /\ graph' = Append(graph, [cset |-> on = 0, parent |-> c[1], merge |-> c[2], on |-> on,
                                  symbol |-> symbol, ptag |-> t[1], mtag |-> t[2]])
<1> SUFFICES ASSUME NewDelta
    PROVE  \E c \in Edges(Csets, ClosedSets(Up)) \cup {<<0, 0>>},
              t \in Edges(Tags, ClosedSets(TagUp)) \cup {<<0, 0>>},
              on \in Csets \cup {0}, symbol \in BOOLEAN :
              /\ c[1] = 0 <=> on # 0
              /\ on # 0 \/ t # <<0, 0>> => symbol
              /\ graph' = Append(graph, [cset |-> on = 0, parent |-> c[1], merge |-> c[2], on |-> on,
                                         symbol |-> symbol, ptag |-> t[1], mtag |-> t[2]])
  BY Zenon
<1>1. PICK c \in Edges(Csets, ClosedSets(Up)) \cup {<<0, 0>>},
           t \in Edges(Tags, ClosedSets(TagUp)) \cup {<<0, 0>>},
           on \in Csets \cup {0}, symbol \in BOOLEAN :
         /\ c[1] = 0 <=> on # 0
         /\ on # 0 => IsNewest(on, Csets)
         /\ on # 0 \/ t # <<0, 0>> => symbol
         /\ symbol => Cardinality(Tags) < MaxTags
         /\ c[2] # 0 => Cardinality(Merges) < MaxMerges
         /\ graph' = Append(graph, [cset |-> on = 0, parent |-> c[1], merge |-> c[2], on |-> on,
                                    symbol |-> symbol, ptag |-> t[1], mtag |-> t[2]])
  BY Zenon DEF NewDelta
<1> QED  BY <1>1, Zenon

LEMMA HistoryInv == KSInv /\ NewDelta => KSInv'
<1> SUFFICES ASSUME KSInv, NewDelta PROVE KSInv'  BY Zenon
<1>1. /\ pc = "history" /\ pc' = pc /\ since' = since /\ d' = d
      /\ mine' = {} /\ theirs' = {} /\ lod' = << >> /\ tag' = << >>
  BY Zenon DEF NewDelta, KSInv, probing
<1>2. Keys(lod)' = {} /\ Keys(tag)' = {}  BY <1>1 DEF Keys
<1>3. (lod \in Seq(Deltas) /\ tag \in Seq(Deltas))'  BY <1>1
<1>4. (graph \in Seq(Delta))'
  <2>1. Csets \subseteq Nat /\ Tags \subseteq Nat  BY DEF KSInv, Csets, Tags, Deltas
  <2>2. PICK c \in Edges(Csets, ClosedSets(Up)) \cup {<<0, 0>>},
             t \in Edges(Tags, ClosedSets(TagUp)) \cup {<<0, 0>>},
             on \in Csets \cup {0}, symbol \in BOOLEAN :
           /\ c[1] = 0 <=> on # 0
           /\ on # 0 \/ t # <<0, 0>> => symbol
           /\ graph' = Append(graph, [cset |-> on = 0, parent |-> c[1], merge |-> c[2], on |-> on,
                                      symbol |-> symbol, ptag |-> t[1], mtag |-> t[2]])
    BY Appended, Zenon
  <2>3. c[1] \in Nat /\ c[2] \in Nat
    <3>1. CASE c = <<0, 0>>  BY <3>1, Zenon
    <3>2. CASE c \in Edges(Csets, ClosedSets(Up))
      <4>1. c \in Csets \X (Csets \cup {0})  BY <3>2, Zenon DEF Edges
      <4>2. PICK a \in Csets, b \in Csets \cup {0} : c = <<a, b>>  BY <4>1
      <4> QED  BY <2>1, <4>2
    <3> QED  BY <2>2, <3>1, <3>2, Zenon
  <2>4. t[1] \in Nat /\ t[2] \in Nat
    <3>1. CASE t = <<0, 0>>  BY <3>1, Zenon
    <3>2. CASE t \in Edges(Tags, ClosedSets(TagUp))
      <4>1. t \in Tags \X (Tags \cup {0})  BY <3>2, Zenon DEF Edges
      <4>2. PICK a \in Tags, b \in Tags \cup {0} : t = <<a, b>>  BY <4>1
      <4> QED  BY <2>1, <4>2
    <3> QED  BY <2>2, <3>1, <3>2, Zenon
  <2>5. [cset |-> on = 0, parent |-> c[1], merge |-> c[2], on |-> on,
         symbol |-> symbol, ptag |-> t[1], mtag |-> t[2]] \in Delta
    BY <2>1, <2>3, <2>4 DEF Delta
  <2> QED  BY <2>2, <2>5 DEF KSInv
<1> QED
  BY <1>1, <1>2, <1>3, <1>4, Zenon DEF KSInv, Closed, NothingMissed, Exact, TagMatchKnown

LEMMA MeetInv == KSInv /\ Meet => KSInv'
<1> SUFFICES ASSUME KSInv, Meet PROVE KSInv'  BY Zenon
<1>1. PICK S \in Repositories, T \in Repositories \cup {{}} :
         mine' = S /\ theirs' = T /\ d' \in Tips(S \cap Csets, Up)
  BY Zenon DEF Meet
<1>2. S \subseteq Deltas /\ Closed(S) /\ Root \in S
  BY <1>1, RepositoryClosed, Zenon DEF Repositories
<1>3. T \subseteq Deltas /\ Closed(T)
  BY <1>1, RepositoryClosed, Zenon DEF Repositories, Closed
<1>4. /\ pc = "history" /\ pc' = "lod" /\ since' = "same" /\ graph' = graph
      /\ lod' = << >> /\ tag' = << >>
  BY Zenon DEF Meet, KSInv
<1>5. (Closed(mine) /\ Closed(theirs))'
  BY <1>1, <1>2, <1>3, <1>4, Zenon DEF Closed, Up, TagUp
<1>6. d' \in S  BY <1>1, Zenon DEF Tips
<1>7. Keys(lod)' = {} /\ Keys(tag)' = {}  BY <1>4 DEF Keys
<1> QED
  BY <1>1, <1>2, <1>3, <1>4, <1>5, <1>6, <1>7, Zenon
     DEF KSInv, Deltas, NothingMissed, Exact, TagMatchKnown

(* A step of a probe adds a key that the prober has, or none.              *)
LEMMA ProbeStep ==
    ASSUME KSInv, pc \in {"lod", "tag"}, pc' \in {"lod", "tag", "probed"},
           UNCHANGED <<graph, mine, theirs, since>>,
           d' \in mine \cup {0}, pc' = "tag" => d' # 0,
           lod' = lod \/ \E x \in mine : lod' = Append(lod, x),
           tag' = tag \/ \E x \in mine : tag' = Append(tag, x)
    PROVE  KSInv'
<1>1. since = "same" /\ mine \subseteq Deltas /\ lod \in Seq(Deltas) /\ tag \in Seq(Deltas)
      /\ Keys(lod) \subseteq mine /\ Keys(tag) \subseteq mine
  BY Zenon DEF KSInv
<1>2. lod' \in Seq(Deltas) /\ Keys(lod') \subseteq mine
  <2>1. CASE lod' = lod  BY <1>1, <2>1, Zenon
  <2>2. CASE \E x \in mine : lod' = Append(lod, x)
    <3>1. PICK x \in mine : lod' = Append(lod, x)  BY <2>2, Zenon
    <3>2. x \in Deltas  BY <1>1, Zenon
    <3> QED  BY <1>1, <3>1, <3>2, AppendKeys
  <2> QED  BY <2>1, <2>2, Zenon
<1>3. tag' \in Seq(Deltas) /\ Keys(tag') \subseteq mine
  <2>1. CASE tag' = tag  BY <1>1, <2>1, Zenon
  <2>2. CASE \E x \in mine : tag' = Append(tag, x)
    <3>1. PICK x \in mine : tag' = Append(tag, x)  BY <2>2, Zenon
    <3>2. x \in Deltas  BY <1>1, Zenon
    <3> QED  BY <1>1, <3>1, <3>2, AppendKeys
  <2> QED  BY <2>1, <2>2, Zenon
<1>4. (Closed(mine) /\ Closed(theirs))'  BY Zenon DEF KSInv, Closed, Up, TagUp
<1>5. Keys(lod)' = Keys(lod') /\ Keys(tag)' = Keys(tag') /\ Deltas' = Deltas
  BY Zenon DEF Keys, Deltas
<1> QED
  BY <1>1, <1>2, <1>3, <1>4, <1>5, Zenon DEF KSInv, NothingMissed, Exact, TagMatchKnown

LEMMA LodKeyInv == KSInv /\ LodKey => KSInv'
<1> SUFFICES ASSUME KSInv, LodKey PROVE KSInv'  BY Zenon
<1>1. /\ pc = "lod" /\ pc' = "lod" /\ tag' = tag /\ d # 0
      /\ UNCHANGED <<graph, mine, theirs, since>>
  BY Zenon DEF LodKey
<1>2. mine \subseteq Deltas /\ Closed(mine) /\ d \in mine  BY <1>1, Zenon DEF KSInv
<1>3. Reach(d, Line) \subseteq mine  BY <1>2, ReachInside, Zenon
<1>4. CASE d' = 0 /\ lod' = lod  BY <1>1, <1>4, ProbeStep, Zenon
<1>5. CASE \E key \in Reach(d, Line) : lod' = Append(lod, key) /\ d' = graph[key].parent
  <2>1. PICK key \in mine : lod' = Append(lod, key) /\ d' = graph[key].parent  BY <1>3, <1>5, Zenon
  <2>2. d' \in mine \cup {0}  BY <1>2, <2>1, Zenon DEF Closed, Up
  <2> QED  BY <1>1, <2>1, <2>2, ProbeStep, Zenon
<1> QED  BY <1>4, <1>5, Zenon DEF LodKey

LEMMA RootKeyInv == KSInv /\ RootKey => KSInv'
<1> SUFFICES ASSUME KSInv, RootKey PROVE KSInv'  BY Zenon
<1>1. /\ pc = "lod" /\ pc' \in {"tag", "probed"} /\ tag' = tag /\ lod' = Append(lod, Root)
      /\ UNCHANGED <<graph, mine, theirs, since>>
  BY Zenon DEF RootKey
<1>2. Root \in mine /\ mine \subseteq Deltas  BY <1>1, Zenon DEF KSInv
<1>3. d' \in mine \cup {0}  BY Zenon DEF RootKey
<1>4. 0 \notin mine  BY <1>2 DEF KSInv, Deltas
<1>5. pc' = "tag" => d' # 0  BY <1>4, Zenon DEF RootKey
<1> QED  BY <1>1, <1>2, <1>3, <1>5, ProbeStep, Zenon

LEMMA TagKeyInv == KSInv /\ TagKey => KSInv'
<1> SUFFICES ASSUME KSInv, TagKey PROVE KSInv'  BY Zenon
<1>1. /\ pc = "tag" /\ pc' \in {"tag", "probed"} /\ lod' = lod
      /\ UNCHANGED <<graph, mine, theirs, since>>
  BY Zenon DEF TagKey
<1>2. mine \subseteq Deltas /\ Closed(mine) /\ d \in mine  BY <1>1, Zenon DEF KSInv
<1>3. Reach(d, TagLine) \subseteq mine  BY <1>2, ReachInside, Zenon
<1>4. PICK key \in Reach(d, TagLine) : tag' = Append(tag, key) /\ d' = key
  BY Zenon DEF TagKey
<1>5. d' # 0
  <2>1. 0 \notin mine  BY <1>2 DEF KSInv, Deltas
  <2> QED  BY <1>3, <1>4, <2>1, Zenon
<1> QED  BY <1>1, <1>3, <1>4, <1>5, ProbeStep, Zenon

LEMMA ListKeyInv == KSInv /\ ListKey => KSInv'
<1> SUFFICES ASSUME KSInv, ListKey PROVE KSInv'  BY Zenon
<1>1. /\ pc = "probed" /\ pc' \in {"unrelated", "listed"}
      /\ UNCHANGED <<graph, mine, theirs, d, lod, tag, since>>
      /\ pc' = "listed" => match' # 0 /\ list' = theirs \ Colored(match', tagMatch')
  BY Zenon DEF ListKey, probing
<1>2. since = "same" /\ Keys(lod) \subseteq mine /\ Keys(tag) \subseteq mine
  BY <1>1, Zenon DEF KSInv
<1>3. match' # 0 => match' \in theirs /\ match' \in mine
  BY <1>2, Zenon DEF ListKey, IsFirst, Keys
<1>4. tagMatch' # 0 => tagMatch' \in theirs /\ tagMatch' \in mine
  BY <1>2, Zenon DEF ListKey, IsFirst, Keys
<1>5. (Closed(mine) /\ Closed(theirs))'  BY <1>1, Zenon DEF KSInv, Closed, Up, TagUp
<1>6. Colored(match, tagMatch)' = Colored(match', tagMatch')
  BY <1>1 DEF Colored, TagColored, Reach, ClosedSets, Up, TagUp, Deltas
<1>7. Keys(lod)' = Keys(lod) /\ Keys(tag)' = Keys(tag) /\ Deltas' = Deltas
  BY <1>1, Zenon DEF Keys, Deltas
<1> QED
  BY <1>1, <1>2, <1>3, <1>4, <1>5, <1>6, <1>7, Zenon
     DEF KSInv, NothingMissed, Exact, TagMatchKnown

LEMMA ChangeInv == KSInv /\ Change => KSInv'
<1> SUFFICES ASSUME KSInv, Change PROVE KSInv'  BY Zenon
<1>1. /\ pc = "listed" /\ pc' = pc /\ since = "same" /\ since' \in {"grown", "shrunk"}
      /\ UNCHANGED <<graph, theirs, d, lod, tag, match, tagMatch, list>>
      /\ since' = "grown" => mine \subseteq mine'
      /\ mine' \subseteq Deltas
  BY Zenon DEF Change, probing, answer, KSInv
<1>2. Closed(mine') /\ Root \in mine'  BY RepositoryClosed, Zenon DEF Change
<1>3. (Closed(mine) /\ Closed(theirs))'  BY <1>1, <1>2, Zenon DEF KSInv, Closed, Up, TagUp
<1>4. Colored(match, tagMatch)' = Colored(match, tagMatch)
  BY <1>1 DEF Colored, TagColored, Reach, ClosedSets, Up, TagUp, Deltas
<1>5. Keys(lod)' = Keys(lod) /\ Keys(tag)' = Keys(tag) /\ Deltas' = Deltas
  BY <1>1, Zenon DEF Keys, Deltas
<1> QED
  BY <1>1, <1>2, <1>3, <1>4, <1>5, Zenon DEF KSInv, NothingMissed, Exact, TagMatchKnown

(* The matches are common to both, so what is coloured is; the rest of     *)
(* what is common is on the list.                                          *)
LEMMA PruneKeyInv == KSInv /\ PruneKey => KSInv'
<1> SUFFICES ASSUME KSInv, PruneKey PROVE KSInv'  BY Zenon
<1> DEFINE known == IF match \in mine THEN match ELSE 0
<1>1. /\ pc = "listed" /\ pc' \in {"pruned", "died"}
      /\ UNCHANGED <<graph, mine, theirs, d, lod, tag, match, tagMatch, list, since>>
  BY Zenon DEF PruneKey, probing, answer
<1>2. /\ match \in theirs /\ tagMatch \in theirs \cup {0}
      /\ list = theirs \ Colored(match, tagMatch)
      /\ since # "shrunk" => match \in mine /\ tagMatch \in mine \cup {0}
      /\ mine \subseteq Deltas /\ Closed(mine) /\ theirs \subseteq Deltas /\ Closed(theirs)
  BY <1>1, Zenon DEF KSInv
<1>3. pc' = "pruned" => /\ local' = mine \ (Colored(known, tagMatch) \cup list)
                        /\ remote' = list \ mine
  BY Zenon DEF PruneKey
<1>4. Colored(match, tagMatch) \subseteq theirs /\ Colored(known, tagMatch) \subseteq theirs
  BY <1>2, ColoredInside, Zenon
<1>5. since # "shrunk" => known = match /\ Colored(match, tagMatch) \subseteq mine
  BY <1>2, ColoredInside, Zenon
<1>6. NothingMissed'  BY <1>1, <1>2, <1>3, <1>4, Zenon DEF NothingMissed
<1>7. Exact'
  <2> SUFFICES ASSUME pc' = "pruned", since # "shrunk"
               PROVE  local' = mine \ theirs /\ remote' = theirs \ mine
    BY <1>1, Zenon DEF Exact
  <2> HIDE DEF known
  <2> QED  BY <1>2, <1>3, <1>4, <1>5, Zenon
<1>8. TagMatchKnown'  BY <1>1, <1>2, Zenon DEF TagMatchKnown, PruneKey
<1>9. (Closed(mine) /\ Closed(theirs))'  BY <1>1, <1>2, Zenon DEF Closed, Up, TagUp
<1>10. Colored(match, tagMatch)' = Colored(match, tagMatch)
  BY <1>1 DEF Colored, TagColored, Reach, ClosedSets, Up, TagUp, Deltas
<1>11. Keys(lod)' = Keys(lod) /\ Keys(tag)' = Keys(tag) /\ Deltas' = Deltas
  BY <1>1, Zenon DEF Keys, Deltas
<1> QED
  BY <1>1, <1>2, <1>6, <1>7, <1>8, <1>9, <1>10, <1>11, Zenon DEF KSInv

LEMMA NextInv == KSInv /\ [Next]_vars => KSInv'
<1> SUFFICES ASSUME KSInv, [Next]_vars PROVE KSInv'  BY Zenon
<1>1. CASE Next
  BY <1>1, HistoryInv, MeetInv, LodKeyInv, RootKeyInv, TagKeyInv, ListKeyInv, ChangeInv,
     PruneKeyInv, Zenon DEF Next
<1>2. CASE UNCHANGED vars
  <2>1. /\ UNCHANGED <<graph, mine, theirs, pc, d, lod, tag, since>>
        /\ UNCHANGED <<match, tagMatch, list, local, remote>>
    BY <1>2, Zenon DEF vars, probing, answer, result
  <2>2. (Closed(mine) /\ Closed(theirs))'  BY <2>1, Zenon DEF KSInv, Closed, Up, TagUp
  <2>3. Colored(match, tagMatch)' = Colored(match, tagMatch)
    BY <2>1 DEF Colored, TagColored, Reach, ClosedSets, Up, TagUp, Deltas
  <2>4. Keys(lod)' = Keys(lod) /\ Keys(tag)' = Keys(tag) /\ Deltas' = Deltas
    BY <2>1, Zenon DEF Keys, Deltas
  <2> QED  BY <2>1, <2>2, <2>3, <2>4, Zenon DEF KSInv, NothingMissed, Exact, TagMatchKnown
<1> QED  BY <1>1, <1>2, Zenon

-----------------------------------------------------------------------------

(* There are no more deltas in a set than in the world, and fewer if one   *)
(* is not in it.                                                           *)
LEMMA Counted ==
    ASSUME KSTypeOK, NEW S, S \subseteq Deltas
    PROVE  /\ Cardinality(S) \in 0 .. MaxDeltas
           /\ \A x \in Deltas \ S : Cardinality(S) + 1 <= MaxDeltas
<1>1. Len(graph) \in Nat /\ Deltas = 1 .. Len(graph) /\ Len(graph) <= MaxDeltas /\ MaxDeltas \in Nat
  BY KeySyncBounds DEF KSTypeOK, Deltas
<1>2. IsFiniteSet(Deltas) /\ Cardinality(Deltas) = Len(graph)
  <2>1. PICK l \in Nat : l = Len(graph) /\ Deltas = 1 .. l  BY <1>1, Zenon
  <2>2. /\ IsFiniteSet(1 .. l)
        /\ Cardinality(1 .. l) = IF 1 > l THEN 0 ELSE l - 1 + 1
    BY FS_Interval
  <2> QED  BY <2>1, <2>2
<1>3. /\ IsFiniteSet(S) /\ Cardinality(S) <= Cardinality(Deltas)
      /\ Cardinality(S) = Cardinality(Deltas) => S = Deltas
  BY <1>2, FS_Subset, Zenon
<1>4. Cardinality(S) \in Nat  BY <1>3, FS_CardinalityType, Zenon
<1>5. \A x \in Deltas \ S : Cardinality(S) # Cardinality(Deltas)  BY <1>3, Zenon
<1> QED  BY <1>1, <1>2, <1>3, <1>4, <1>5

(* From a changeset only changesets are reached, from a tag only tags.     *)
LEMMA ReachKind ==
    ASSUME KSTypes
    PROVE  /\ \A x \in Csets : Reach(x, Line) \subseteq Csets
           /\ \A x \in Tags : Reach(x, TagLine) \subseteq Tags
<1>1. Csets \subseteq Deltas /\ Tags \subseteq Deltas  BY Zenon DEF Csets, Tags
<1>2. \A x \in Csets : Line(x) \subseteq Csets  BY Zenon DEF KSTypes, Grown
<1>3. \A x \in Tags : TagLine(x) \subseteq Tags  BY <1>1, Zenon DEF KSTypes, Grown, TagLine
<1>4. \A x \in Csets : Reach(x, Line) \subseteq Csets  BY <1>1, <1>2 DEF Reach, ClosedSets
<1>5. \A x \in Tags : Reach(x, TagLine) \subseteq Tags  BY <1>1, <1>3 DEF Reach, ClosedSets
<1> QED  BY <1>4, <1>5, Zenon

LEMMA InitTypes == Init => KSTypes
<1> SUFFICES ASSUME Init PROVE KSTypes  BY Zenon
<1>1. PICK g : /\ g = [cset |-> TRUE, parent |-> 0, merge |-> 0, on |-> 0,
                       symbol |-> FALSE, ptag |-> 0, mtag |-> 0]
               /\ graph = <<g>>
  BY Zenon DEF Init
<1>2. g \in Delta /\ g.cset /\ g.parent = 0 /\ g.ptag = 0  BY <1>1, Zenon DEF Delta
<1>3. /\ graph \in Seq(Delta) /\ Len(graph) = 1
      /\ Deltas = {1} /\ \A x \in Deltas : graph[x] = g
  <2>1. graph = <<g>> /\ g \in Delta  BY <1>1, <1>2, Zenon
  <2>2. graph \in Seq(Delta) /\ Len(graph) = 1 /\ graph[1] = g  BY <2>1
  <2>3. Deltas = 1 .. 1  BY <2>2 DEF Deltas
  <2> QED  BY <2>2, <2>3
<1>4. Len(graph) \in 1 .. MaxDeltas /\ 1 \in 1 .. 4 * MaxDeltas  BY <1>3, KeySyncBounds
<1>5. Grown  BY <1>2, <1>3, Zenon DEF Grown, Csets, Root, Line
<1>6. lod \in Seq(Csets) /\ tag \in Seq(Tags)  BY DEF Init
<1> QED  BY <1>3, <1>4, <1>5, <1>6, Zenon DEF Init, KSTypes, KSTypeOK

(* A new delta has its parents among the old ones of its kind.             *)
LEMMA HistoryTypes == KSInv /\ KSTypes /\ NewDelta => KSTypes'
<1> SUFFICES ASSUME KSInv, KSTypes, NewDelta PROVE KSTypes'  BY Zenon
<1>1. PICK c \in Edges(Csets, ClosedSets(Up)) \cup {<<0, 0>>},
           t \in Edges(Tags, ClosedSets(TagUp)) \cup {<<0, 0>>},
           on \in Csets \cup {0}, symbol \in BOOLEAN :
         /\ c[1] = 0 <=> on # 0
         /\ on # 0 \/ t # <<0, 0>> => symbol
         /\ graph' = Append(graph, [cset |-> on = 0, parent |-> c[1], merge |-> c[2], on |-> on,
                                    symbol |-> symbol, ptag |-> t[1], mtag |-> t[2]])
  BY Appended, Zenon
<1>2. PICK g : /\ graph' = Append(graph, g)
               /\ g.cset = (on = 0) /\ g.parent = c[1] /\ g.symbol = symbol /\ g.ptag = t[1]
  BY <1>1
<1>3. on = 0 => c[1] \in Csets
  <2>1. CASE c = <<0, 0>>  BY <1>1, <2>1, Zenon
  <2>2. CASE c \in Edges(Csets, ClosedSets(Up))
    <3>1. c \in Csets \X (Csets \cup {0})  BY <2>2, Zenon DEF Edges
    <3> QED  BY <3>1, Zenon
  <2> QED  BY <1>1, <2>1, <2>2, Zenon
<1>4. t[1] # 0 => symbol /\ t[1] \in Tags
  <2>1. CASE t = <<0, 0>>  BY <2>1, Zenon
  <2>2. CASE t # <<0, 0>>
    <3>1. t \in Edges(Tags, ClosedSets(TagUp)) /\ symbol  BY <1>1, <2>2, Zenon
    <3>2. t \in Tags \X (Tags \cup {0})  BY <3>1, Zenon DEF Edges
    <3> QED  BY <3>1, <3>2, Zenon
  <2> QED  BY <2>1, <2>2, Zenon
<1>5. /\ pc = "history" /\ pc' = pc /\ Len(graph) < MaxDeltas
      /\ UNCHANGED <<top, n, d, match, tagMatch, list, local, remote, since>>
      /\ mine' = {} /\ theirs' = {} /\ lod' = << >> /\ tag' = << >>
  BY Zenon DEF NewDelta, KSInv, probing, answer, result
<1>6. graph \in Seq(Delta) /\ Len(graph) \in 1 .. MaxDeltas /\ MaxDeltas \in Nat
  BY KeySyncBounds, Zenon DEF KSTypes, KSTypeOK
<1>7. PICK m : m = Len(graph) + 1  BY Zenon
<1>8. /\ Len(graph') = m /\ Deltas' = Deltas \cup {m} /\ m \notin Deltas
      /\ graph'[m] = g /\ \A x \in Deltas : graph'[x] = graph[x]
  BY <1>2, <1>6, <1>7 DEF Deltas
<1>9. /\ Csets \subseteq Csets' /\ Csets' \subseteq Csets \cup {m} /\ (m \in Csets' => on = 0)
      /\ Tags \subseteq Tags' /\ (symbol => m \in Tags')
  BY <1>2, <1>8, Zenon DEF Csets, Tags
<1>10. Grown'
  <2>1. Root \in Csets'  BY <1>9, Zenon DEF KSTypes, Grown
  <2>2. \A x \in Csets' : Line(x)' \subseteq Csets'
    <3> SUFFICES ASSUME NEW x \in Csets' PROVE {graph'[x].parent} \ {0} \subseteq Csets'
      BY Zenon DEF Line
    <3>1. CASE x = m  BY <1>2, <1>3, <1>8, <1>9, <3>1
    <3>2. CASE x # m
      <4>1. x \in Csets /\ x \in Deltas  BY <1>9, <3>2, Zenon DEF Csets
      <4>2. {graph[x].parent} \ {0} \subseteq Csets  BY <4>1, Zenon DEF KSTypes, Grown, Line
      <4> QED  BY <1>8, <1>9, <4>1, <4>2, Zenon
    <3> QED  BY <3>1, <3>2, Zenon
  <2>3. \A x \in Deltas' : graph'[x].ptag # 0 => x \in Tags' /\ graph'[x].ptag \in Tags'
    <3> SUFFICES ASSUME NEW x \in Deltas', graph'[x].ptag # 0
                 PROVE  x \in Tags' /\ graph'[x].ptag \in Tags'
      BY Zenon
    <3>1. CASE x = m  BY <1>2, <1>4, <1>8, <1>9, <3>1, Zenon
    <3>2. CASE x # m
      <4>1. x \in Deltas /\ graph'[x] = graph[x]  BY <1>8, <3>2, Zenon
      <4>2. x \in Tags /\ graph[x].ptag \in Tags  BY <4>1, Zenon DEF KSTypes, Grown
      <4> QED  BY <1>9, <4>1, <4>2, Zenon
    <3> QED  BY <3>1, <3>2, Zenon
  <2> QED  BY <2>1, <2>2, <2>3, Zenon DEF Grown
<1>11. (graph \in Seq(Delta))' /\ Len(graph') \in 1 .. MaxDeltas
  <2>1. (graph \in Seq(Delta))'  BY HistoryInv, Zenon DEF KSInv
  <2> QED  BY <2>1, <1>5, <1>6, <1>7, <1>8
<1>12. KSTypeOK'
  <2>1. (lod \in Seq(Csets) /\ tag \in Seq(Tags))'  BY <1>5
  <2> QED  BY <1>5, <1>8, <1>9, <1>11, <2>1, Zenon DEF KSTypes, KSTypeOK
<1> QED  BY <1>5, <1>10, <1>12, Zenon DEF KSTypes

(* The world is the same, then, and its kinds of deltas are.               *)
LEMMA SameWorld ==
    ASSUME KSTypes, graph' = graph
    PROVE  /\ Deltas' = Deltas /\ Csets' = Csets /\ Tags' = Tags /\ Grown'
           /\ (graph \in Seq(Delta) /\ Len(graph) \in 1 .. MaxDeltas)'
<1>1. Deltas' = Deltas /\ Csets' = Csets /\ Tags' = Tags  BY Zenon DEF Deltas, Csets, Tags
<1>2. Grown'  BY <1>1, Zenon DEF KSTypes, Grown, Line, Root
<1> QED  BY <1>1, <1>2, Zenon DEF KSTypes, KSTypeOK

(* Every step keeps the types: the strides of both probes are bounded, and *)
(* matches are keys of the probe that they answer.                         *)
LEMMA NextTypes == KSInv /\ KSTypes /\ [Next]_vars => KSTypes'
<1> SUFFICES ASSUME KSInv, KSTypes, [Next]_vars PROVE KSTypes'  BY Zenon
<1>1. /\ KSTypeOK /\ MaxDeltas \in Nat \ {0} /\ n \in 1 .. 4 * MaxDeltas
      /\ Csets \subseteq Deltas /\ Tags \subseteq Deltas
      /\ mine \subseteq Deltas /\ lod \in Seq(Csets) /\ tag \in Seq(Tags)
  BY KeySyncBounds, Zenon DEF KSTypes, KSTypeOK, Csets, Tags
<1>2. CASE NewDelta  BY <1>2, HistoryTypes, Zenon
<1>3. CASE Meet
  <2>1. PICK S \in Repositories \cup {{}}, T \in Repositories \cup {{}} :
           mine' = S /\ theirs' = T /\ top' \in Tips(S \cap Csets, Up)
    BY <1>3, Zenon DEF Meet
  <2>2. S \subseteq Deltas /\ T \subseteq Deltas /\ top' \in Csets
    BY <2>1, Zenon DEF Repositories, Tips
  <2>3. /\ UNCHANGED <<graph, n, lod, tag, match, tagMatch, list, local, remote, since>>
        /\ pc' = "lod" /\ d' = top'
    BY <1>3, Zenon DEF Meet, answer, result
  <2> QED  BY <1>1, <2>1, <2>2, <2>3, SameWorld, Zenon DEF KSTypes, KSTypeOK
<1>4. CASE LodKey
  <2>1. /\ UNCHANGED <<graph, mine, theirs, top, tag, match, tagMatch, list, local, remote, since>>
        /\ pc = "lod" /\ pc' = "lod" /\ d # 0 /\ n - 1 <= Serial(top) /\ n' = 2 * n
    BY <1>4, Zenon DEF LodKey, answer, result
  <2>2. n' \in 1 .. 4 * MaxDeltas
    <3>1. Serial(top) \in 0 .. MaxDeltas  BY <1>1, Counted, Zenon DEF Serial
    <3> QED  BY <1>1, <2>1, <3>1
  <2>3. d \in Csets /\ Reach(d, Line) \subseteq Csets  BY <2>1, ReachKind, Zenon DEF KSTypes
  <2>4. lod' \in Seq(Csets) /\ d' \in Csets \cup {0}
    <3>1. CASE d' = 0 /\ lod' = lod  BY <1>1, <3>1, Zenon
    <3>2. CASE \E key \in Csets : lod' = Append(lod, key) /\ d' = graph[key].parent
      <4>1. PICK key \in Csets : lod' = Append(lod, key) /\ d' = graph[key].parent  BY <3>2, Zenon
      <4>2. d' \in Csets \cup {0}  BY <4>1, Zenon DEF KSTypes, Grown, Line
      <4> QED  BY <1>1, <4>1, <4>2
    <3> QED  BY <1>4, <2>3, <3>1, <3>2, Zenon DEF LodKey
  <2> QED  BY <1>1, <2>1, <2>2, <2>4, SameWorld, Zenon DEF KSTypes, KSTypeOK
<1>5. CASE RootKey
  <2>1. /\ UNCHANGED <<graph, mine, theirs, top, tag, match, tagMatch, list, local, remote, since>>
        /\ lod' = Append(lod, Root) /\ n' = 1
        /\ \/ d' = 0 /\ pc' = "probed"
           \/ \E x \in mine : graph[x].ptag # 0 /\ d' = x /\ pc' = "tag"
    BY <1>5, Zenon DEF RootKey, answer, result
  <2>2. pc' = "tag" => d' \in Tags  BY <1>1, <2>1, Zenon DEF KSTypes, Grown
  <2>3. lod' \in Seq(Csets)
    <3>1. Root \in Csets  BY Zenon DEF KSTypes, Grown
    <3> QED  BY <1>1, <2>1, <3>1
  <2>4. n' \in 1 .. 4 * MaxDeltas /\ n' <= 2 * MaxDeltas  BY <1>1, <2>1
  <2> QED  BY <1>1, <2>1, <2>2, <2>3, <2>4, SameWorld, Zenon DEF KSTypes, KSTypeOK
<1>6. CASE TagKey
  <2>1. /\ UNCHANGED <<graph, mine, theirs, top, lod, match, tagMatch, list, local, remote, since>>
        /\ pc = "tag" /\ n' = 2 * n
    BY <1>6, Zenon DEF TagKey, answer, result
  <2>2. d \in Tags /\ n <= 2 * MaxDeltas /\ Reach(d, TagLine) \subseteq Tags
    BY <2>1, ReachKind, Zenon DEF KSTypes
  <2>3. PICK key \in Tags :
           /\ \/ Cardinality({y \in Reach(d, TagLine) : y > key}) = n - 1
              \/ graph[key].ptag = 0
           /\ tag' = Append(tag, key) /\ d' = key
           /\ pc' = IF graph[key].ptag = 0 THEN "probed" ELSE pc
    BY <1>6, <2>2, Zenon DEF TagKey
  <2>4. tag' \in Seq(Tags)  BY <1>1, <2>3
  <2>5. n' \in 1 .. 4 * MaxDeltas  BY <1>1, <2>1, <2>2
  <2>6. pc' \in {"tag", "probed"} /\ (pc' = "tag" => graph[key].ptag # 0)  BY <2>1, <2>3, Zenon
  <2>7. pc' = "tag" => n' <= 2 * MaxDeltas
    <3> SUFFICES ASSUME pc' = "tag" PROVE n' <= 2 * MaxDeltas  BY Zenon
    <3>1. PICK S : S = {y \in Reach(d, TagLine) : y > key}  BY Zenon
    <3>2. Cardinality(S) = n - 1  BY <2>3, <2>6, <3>1, Zenon
    <3>3. key \in Nat  BY <1>1 DEF KSTypeOK, Deltas
    <3>4. S \subseteq Deltas /\ key \in Deltas \ S
      <4>1. ~ (key > key)  BY <3>3
      <4> QED  BY <1>1, <2>2, <3>1, <4>1, Zenon
    <3>5. Cardinality(S) + 1 <= MaxDeltas  BY <1>1, <3>4, Counted, Zenon
    <3> QED  BY <1>1, <2>1, <3>2, <3>5
  <2> QED
    BY <1>1, <2>1, <2>3, <2>4, <2>5, <2>6, <2>7, SameWorld, Zenon DEF KSTypes, KSTypeOK
<1>7. CASE ListKey
  <2>1. /\ UNCHANGED <<graph, mine, theirs, top, d, n, lod, tag, local, remote, since>>
        /\ pc' \in {"unrelated", "listed"}
        /\ IsFirst(match', lod) /\ IsFirst(tagMatch', tag)
        /\ list' = list \/ list' \subseteq theirs
    BY <1>7, Zenon DEF ListKey, probing, result
  <2>2. match' \in Csets \cup {0}
    <3>1. \A j \in DOMAIN lod : lod[j] \in Csets  BY <1>1
    <3> QED  BY <2>1, <3>1, Zenon DEF IsFirst
  <2>3. tagMatch' \in Tags \cup {0}
    <3>1. \A j \in DOMAIN tag : tag[j] \in Tags  BY <1>1
    <3> QED  BY <2>1, <3>1, Zenon DEF IsFirst
  <2>4. list' \subseteq Deltas  BY <1>1, <2>1, Zenon DEF KSTypeOK
  <2> QED  BY <1>1, <2>1, <2>2, <2>3, <2>4, SameWorld, Zenon DEF KSTypes, KSTypeOK
<1>8. CASE Change
  <2>1. /\ UNCHANGED <<graph, theirs, pc, top, d, n, lod, tag, match, tagMatch, list, local, remote>>
        /\ pc = "listed" /\ mine' \subseteq Deltas /\ since' \in {"grown", "shrunk"}
    BY <1>1, <1>8, Zenon DEF Change, probing, answer, result
  <2>2. pc' = "listed"  BY <2>1, Zenon
  <2>3. KSTypeOK'  BY <1>1, <2>1, SameWorld, Zenon DEF KSTypeOK
  <2> QED  BY <1>1, <2>1, <2>2, <2>3, SameWorld, Zenon DEF KSTypes
<1>9. CASE PruneKey
  <2>1. /\ UNCHANGED <<graph, mine, theirs, top, d, n, lod, tag, match, tagMatch, list, since>>
        /\ \/ pc' = "died" /\ UNCHANGED <<local, remote>>
           \/ pc' = "pruned" /\ local' \subseteq mine /\ remote' \subseteq list
    BY <1>9, Zenon DEF PruneKey, probing, answer, result
  <2>2. local' \subseteq Deltas /\ remote' \subseteq Deltas  BY <1>1, <2>1, Zenon DEF KSTypeOK
  <2> QED  BY <1>1, <2>1, <2>2, SameWorld, Zenon DEF KSTypes, KSTypeOK
<1>10. CASE UNCHANGED vars
  <2>1. /\ UNCHANGED <<graph, mine, theirs, pc, top, d, n, lod, tag, since>>
        /\ UNCHANGED <<match, tagMatch, list, local, remote>>
    BY <1>10, Zenon DEF vars, probing, answer, result
  <2>2. KSTypeOK'  BY <1>1, <2>1, SameWorld, Zenon DEF KSTypeOK
  <2> QED  BY <1>1, <2>1, <2>2, SameWorld, Zenon DEF KSTypes
<1> QED
  BY <1>2, <1>3, <1>4, <1>5, <1>6, <1>7, <1>8, <1>9, <1>10, Zenon DEF Next

(* The invariant of the exchange: probe, matches and list are what they    *)
(* should be, for every history, every choice of two repositories and      *)
(* every change of the prober in between.                                  *)
THEOREM KSInvariant == Spec => []KSInv
BY InitInv, NextInv, PTL DEF Spec

(* Everything that the lister lacks is sent.                               *)
THEOREM KSNothingMissed == Spec => []NothingMissed
<1>1. KSInv => NothingMissed  BY Zenon DEF KSInv
<1> QED  BY <1>1, KSInvariant, PTL

(* The counts are exact unless the prober has lost deltas.                 *)
THEOREM KSExact == Spec => []Exact
<1>1. KSInv => Exact  BY Zenon DEF KSInv
<1> QED  BY <1>1, KSInvariant, PTL

(* The assertion of prunekey holds unless the prober has lost deltas.      *)
THEOREM KSTagMatchKnown == Spec => []TagMatchKnown
<1>1. KSInv => TagMatchKnown  BY Zenon DEF KSInv
<1> QED  BY <1>1, KSInvariant, PTL
LEMMA TypesAlways == Spec => []KSTypes
BY InitTypes, NextTypes, KSInvariant, PTL DEF Spec

(* Both probes keep to keys of their own graph, the matches and the list   *)
(* are deltas of the world, and no stride (n, which doubles) exceeds four  *)
(* times the number of deltas.                                             *)
THEOREM KSTyped == Spec => []KSTypeOK
<1>1. KSTypes => KSTypeOK  BY Zenon DEF KSTypes
<1> QED  BY <1>1, TypesAlways, PTL
-----------------------------------------------------------------------------

(* A set with 0 and the successor of each of its numbers has them all.     *)
LEMMA Induct ==
    ASSUME NEW T, 0 \in T, \A k \in Nat : k \in T => k + 1 \in T
    PROVE  Nat \subseteq T
<1> SUFFICES ASSUME Nat \ T # {} PROVE FALSE  BY Zenon
<1>1. PICK y \in Nat \ T : \A z \in Nat \ T : <<z, y>> \notin OpToRel(<, Nat)
  BY WFMin, NatLessThanWellFounded, Zenon
<1>2. \A z \in Nat \ T : ~ (z < y)  BY <1>1, Zenon DEF OpToRel
<1>3. y \in Nat /\ y # 0 /\ y - 1 \in Nat /\ y - 1 < y /\ y = (y - 1) + 1
  <2>1. y \in Nat /\ y # 0  BY Zenon
  <2> QED  BY <2>1
<1> QED  BY <1>1, <1>2, <1>3, Zenon

(* The powers up to the k-th one.                                          *)
PowersTo(f, k) ==
    f \in [0 .. k -> Nat] /\ f[0] = 1 /\ \A j \in 0 .. k - 1 : f[j + 1] = 2 * f[j]

LEMMA PowersExist == \A k \in Nat : \E f : PowersTo(f, k)
<1>1. PICK T : T = {k \in Nat : \E f : PowersTo(f, k)}  BY Zenon
<1>2. 0 \in T
  <2>1. PowersTo([j \in 0 .. 0 |-> 1], 0)  BY DEF PowersTo
  <2> QED  BY <1>1, <2>1, Zenon
<1>3. ASSUME NEW k \in Nat, k \in T PROVE k + 1 \in T
  <2>1. PICK f : PowersTo(f, k)  BY <1>1, <1>3, Zenon
  <2>2. PICK g : g = [j \in 0 .. k + 1 |-> IF j = k + 1 THEN 2 * f[k] ELSE f[j]]  BY Zenon
  <2>3. g[k + 1] = 2 * f[k] /\ \A j \in 0 .. k : g[j] = f[j]  BY <2>2
  <2>4. f[k] \in Nat /\ \A j \in 0 .. k : f[j] \in Nat  BY <2>1 DEF PowersTo
  <2>5. g \in [0 .. k + 1 -> Nat]  BY <2>2, <2>4
  <2>6. \A j \in 0 .. (k + 1) - 1 : g[j + 1] = 2 * g[j]
    <3> SUFFICES ASSUME NEW j \in 0 .. (k + 1) - 1 PROVE g[j + 1] = 2 * g[j]  BY Zenon
    <3>1. CASE j = k  BY <2>3, <3>1
    <3>2. CASE j # k
      <4>1. j \in 0 .. k - 1 /\ j \in 0 .. k /\ j + 1 \in 0 .. k  BY <3>2
      <4>2. f[j + 1] = 2 * f[j]  BY <2>1, <4>1, Zenon DEF PowersTo
      <4> QED  BY <2>3, <4>1, <4>2, Zenon
    <3> QED  BY <3>1, <3>2, Zenon
  <2>7. g[0] = 1  BY <2>1, <2>3 DEF PowersTo
  <2>8. PowersTo(g, k + 1)  BY <2>5, <2>6, <2>7, Zenon DEF PowersTo
  <2>9. k + 1 \in Nat  OBVIOUS
  <2> QED  BY <1>1, <2>8, <2>9, Zenon
<1>4. Nat \subseteq T  BY <1>2, <1>3, Induct, Zenon
<1> QED  BY <1>1, <1>4, Zenon

LEMMA PowersAgree ==
    \A k \in Nat : \A f, g : PowersTo(f, k) /\ PowersTo(g, k + 1) => f[k] = g[k]
<1>1. PICK T : T = {k \in Nat : \A f, g : \A l, m \in Nat :
                       /\ PowersTo(f, l) /\ PowersTo(g, m)
                       /\ k <= l /\ k <= m
                       => f[k] = g[k]}
  BY Zenon
<1>2. 0 \in T  BY <1>1, Zenon DEF PowersTo
<1>3. ASSUME NEW k \in Nat, k \in T PROVE k + 1 \in T
  <2> SUFFICES ASSUME NEW f, NEW g, NEW l \in Nat, NEW m \in Nat,
                      PowersTo(f, l), PowersTo(g, m), k + 1 <= l, k + 1 <= m
               PROVE  f[k + 1] = g[k + 1]
    BY <1>1
  <2>1. k <= l /\ k <= m /\ k \in 0 .. l - 1 /\ k \in 0 .. m - 1  OBVIOUS
  <2>2. f[k] = g[k]  BY <1>1, <1>3, <2>1, Zenon
  <2> QED  BY <2>1, <2>2, Zenon DEF PowersTo
<1>4. Nat \subseteq T  BY <1>2, <1>3, Induct, Zenon
<1> SUFFICES ASSUME NEW k \in Nat, NEW f, NEW g, PowersTo(f, k), PowersTo(g, k + 1)
             PROVE  f[k] = g[k]
  BY Zenon
<1>5. k + 1 \in Nat /\ k <= k /\ k <= k + 1  OBVIOUS
<1> QED  BY <1>1, <1>4, <1>5, Zenon

(* There is such a function, so Power2 is it.                              *)
LEMMA Power2Def ==
    /\ Power2[0] = 1
    /\ \A k \in Nat : Power2[k] \in Nat /\ Power2[k + 1] = 2 * Power2[k]
<1>1. PICK c : c = [k \in Nat |-> CHOOSE f : PowersTo(f, k)]  BY Zenon
<1>2. \A k \in Nat : PowersTo(c[k], k)  BY <1>1, PowersExist, Zenon
<1>3. PICK F : F = [k \in Nat |-> c[k][k]]  BY Zenon
<1>4. F[0] = 1  BY <1>2, <1>3, Zenon DEF PowersTo
<1>5. \A k \in Nat : F[k + 1] = 2 * F[k]
  <2> SUFFICES ASSUME NEW k \in Nat PROVE F[k + 1] = 2 * F[k]  BY Zenon
  <2>1. PICK f, g : f = c[k] /\ g = c[k + 1]  BY Zenon
  <2>2. k + 1 \in Nat /\ k \in 0 .. (k + 1) - 1  OBVIOUS
  <2>3. PowersTo(f, k) /\ PowersTo(g, k + 1)  BY <1>2, <2>1, <2>2, Zenon
  <2>4. f[k] = g[k]  BY <2>3, PowersAgree, Zenon
  <2>5. g[k + 1] = 2 * g[k]  BY <2>2, <2>3, Zenon DEF PowersTo
  <2> QED  BY <1>3, <2>1, <2>2, <2>4, <2>5, Zenon
<1>6. F = [k \in Nat |-> IF k = 0 THEN 1 ELSE 2 * F[k - 1]]
  <2>1. \A k \in Nat : F[k] = IF k = 0 THEN 1 ELSE 2 * F[k - 1]
    <3> SUFFICES ASSUME NEW k \in Nat, k # 0 PROVE F[k] = 2 * F[k - 1]  BY <1>4, Zenon
    <3>1. k - 1 \in Nat /\ (k - 1) + 1 = k  OBVIOUS
    <3>2. F[(k - 1) + 1] = 2 * F[k - 1]  BY <1>5, <3>1, Zenon
    <3> QED  BY <3>1, <3>2, Zenon
  <2> QED  BY <1>3, <2>1, Zenon
<1>7. Power2 = [k \in Nat |-> IF k = 0 THEN 1 ELSE 2 * Power2[k - 1]]  BY <1>6, Zenon DEF Power2
<1>8. Power2[0] = 1  BY <1>7, Zenon
<1>9. \A k \in Nat : Power2[k + 1] = 2 * Power2[k]
  <2> SUFFICES ASSUME NEW k \in Nat PROVE Power2[k + 1] = 2 * Power2[k]  BY Zenon
  <2>1. k + 1 \in Nat /\ k + 1 # 0 /\ (k + 1) - 1 = k  OBVIOUS
  <2>2. Power2[k + 1] = 2 * Power2[(k + 1) - 1]  BY <1>7, <2>1, Zenon
  <2> QED  BY <2>1, <2>2, Zenon
<1>10. \A k \in Nat : Power2[k] \in Nat
  <2>1. PICK T : T = {k \in Nat : Power2[k] \in Nat}  BY Zenon
  <2>2. 0 \in T  BY <1>8, <2>1
  <2>3. \A k \in Nat : k \in T => k + 1 \in T  BY <1>9, <2>1
  <2>4. Nat \subseteq T  BY <2>2, <2>3, Induct, Zenon
  <2> QED  BY <2>1, <2>4, Zenon
<1> QED  BY <1>8, <1>9, <1>10, Zenon
(* After k keys the stride of the probe is 2 ^ k or more, and a key is     *)
(* added only while the stride is not beyond the tip's serial; the root    *)
(* key comes on top.                                                       *)
Short ==
    /\ pc = "history" => lod = << >> /\ n = 1
    /\ pc = "lod" => /\ Power2[Len(lod)] <= n
                     /\ Power2[Len(lod)] <= 2 * (Serial(top) + 1)
    /\ pc \in {"tag", "probed"} => Power2[Len(lod)] <= 4 * (Serial(top) + 1)

LEMMA InitShort == Init => Short
BY Zenon DEF Init, Short

LEMMA Doubling ==
    ASSUME NEW a \in Nat, NEW b \in Nat, NEW c \in Nat, a <= b, b - 1 <= c
    PROVE  a <= 2 * b /\ 2 * a <= 2 * b /\ a <= 2 * (c + 1) /\ 2 * a <= 2 * (c + 1)
OBVIOUS

LEMMA NextShort == KSTypes /\ Short /\ [Next]_vars => Short'
<1> SUFFICES ASSUME KSTypes, Short, [Next]_vars PROVE Short'  BY Zenon
<1>1. /\ KSTypeOK /\ mine \subseteq Deltas /\ lod \in Seq(Csets) /\ n \in Nat /\ n >= 1
      /\ Root \in Csets
  BY DEF KSTypes, KSTypeOK, Grown
<1>2. PICK l \in Nat : l = Len(lod)  BY <1>1
<1>3. Serial(top) \in Nat
  <2>1. {y \in mine : y <= top} \subseteq Deltas  BY <1>1, Zenon
  <2>2. Cardinality({y \in mine : y <= top}) \in 0 .. MaxDeltas  BY <1>1, <2>1, Counted, Zenon
  <2> QED  BY <2>2, KeySyncBounds DEF Serial
<1>4. CASE NewDelta
  <2>1. pc = "history" /\ pc' = pc /\ lod' = lod /\ n' = n  BY <1>4, Zenon DEF NewDelta, probing
  <2> QED  BY <2>1, Zenon DEF Short
<1>5. CASE Meet
  <2>1. pc' = "lod" /\ lod' = << >> /\ n' = 1  BY <1>5, Zenon DEF Meet, Short
  <2>2. PICK S \in Repositories : mine' = S /\ top' \in Tips(S \cap Csets, Up)
    BY <1>5, Zenon DEF Meet
  <2>3. Serial(top)' \in Nat
    <3>1. mine' \subseteq Deltas  BY <2>2, Zenon DEF Repositories
    <3>2. {y \in mine' : y <= top'} \subseteq Deltas  BY <3>1, Zenon
    <3>3. Cardinality({y \in mine' : y <= top'}) \in 0 .. MaxDeltas  BY <1>1, <3>2, Counted, Zenon
    <3> QED  BY <3>3, KeySyncBounds DEF Serial
  <2>4. Len(lod') = 0 /\ Power2[0] = 1  BY <2>1, Power2Def, Zenon
  <2> QED  BY <2>1, <2>3, <2>4 DEF Short
<1>6. CASE LodKey
  <2>1. /\ pc = "lod" /\ pc' = pc /\ n - 1 <= Serial(top) /\ n' = 2 * n
        /\ Serial(top)' = Serial(top)
    BY <1>6, Zenon DEF LodKey, Serial
  <2>2. Len(lod') \in {l, l + 1}
    <3>1. lod' = lod \/ \E key \in Reach(d, Line) : lod' = Append(lod, key)
      BY <1>6, Zenon DEF LodKey
    <3>2. \A key : Len(Append(lod, key)) = l + 1  BY <1>1, <1>2
    <3> QED  BY <1>2, <3>1, <3>2, Zenon
  <2>3. Power2[l] \in Nat /\ Power2[l + 1] = 2 * Power2[l]  BY Power2Def, Zenon
  <2>4. Power2[l] <= n  BY <1>2, <2>1, Zenon DEF Short
  <2>5. Power2[Len(lod')] \in {Power2[l], 2 * Power2[l]}  BY <2>2, <2>3, Zenon
  <2>6. Power2[Len(lod')] <= n' /\ Power2[Len(lod')] <= 2 * (Serial(top) + 1)
    <3>1. PICK a : a = Power2[l]  BY Zenon
    <3>2. PICK c : c = Serial(top)  BY Zenon
    <3>3. a \in Nat /\ c \in Nat /\ n \in Nat /\ a <= n /\ n - 1 <= c
      BY <1>1, <1>3, <2>1, <2>3, <2>4, <3>1, <3>2, Zenon
    <3>4. /\ a <= 2 * n /\ 2 * a <= 2 * n
          /\ a <= 2 * (c + 1) /\ 2 * a <= 2 * (c + 1)
      BY <3>3, Doubling, Zenon
    <3>5. PICK x : x = Power2[Len(lod')]  BY Zenon
    <3>6. x = a \/ x = 2 * a  BY <2>5, <3>1, <3>5, Zenon
    <3>7. x <= 2 * n /\ x <= 2 * (c + 1)  BY <3>4, <3>6, Zenon
    <3> QED  BY <2>1, <3>2, <3>5, <3>7, Zenon
  <2> QED  BY <2>1, <2>6, Zenon DEF Short
<1>7. CASE RootKey
  <2>1. /\ pc = "lod" /\ pc' \in {"tag", "probed"} /\ lod' = Append(lod, Root)
        /\ Serial(top)' = Serial(top)
    BY <1>7, Zenon DEF RootKey, Serial
  <2>2. Len(lod') = l + 1  BY <1>1, <1>2, <2>1
  <2>3. Power2[l] \in Nat /\ Power2[l + 1] = 2 * Power2[l]  BY Power2Def, Zenon
  <2>4. Power2[l] <= 2 * (Serial(top) + 1)  BY <1>2, <2>1, Zenon DEF Short
  <2>5. Power2[Len(lod')] <= 4 * (Serial(top) + 1)  BY <1>3, <2>2, <2>3, <2>4
  <2> QED  BY <2>1, <2>5, Zenon DEF Short
<1>8. CASE TagKey
  <2>1. /\ pc = "tag" /\ pc' \in {"tag", "probed"} /\ lod' = lod
        /\ Serial(top)' = Serial(top)
    BY <1>8, Zenon DEF TagKey, Serial
  <2> QED  BY <2>1, Zenon DEF Short
<1>9. CASE ListKey \/ Change \/ PruneKey
  <2>1. pc' \notin {"history", "lod", "tag", "probed"}  BY <1>9, Zenon DEF ListKey, Change, PruneKey
  <2> QED  BY <2>1, Zenon DEF Short
<1>10. CASE UNCHANGED vars
  <2>1. UNCHANGED <<pc, n, lod, top, mine>>  BY <1>10, Zenon DEF vars, probing
  <2>2. Serial(top)' = Serial(top)  BY <2>1, Zenon DEF Serial
  <2> QED  BY <2>1, <2>2, Zenon DEF Short
<1> QED  BY <1>4, <1>5, <1>6, <1>7, <1>8, <1>9, <1>10, Zenon DEF Next

(* A probe of the changesets has at most two keys more than the logarithm  *)
(* of the number of deltas, in every history.                              *)
THEOREM KSProbeIsShort == Spec => []ProbeIsShort
<1>1. Short => ProbeIsShort  BY Zenon DEF Short, ProbeIsShort
<1> QED  BY <1>1, TypesAlways, InitShort, NextShort, PTL DEF Spec
=============================================================================
