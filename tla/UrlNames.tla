------------------------------- MODULE UrlNames -------------------------------
(***************************************************************************)
(* The names of the topics of one document (prettyUrlService.js): the order  *)
(* in which regenerateForDocument renders them, and the numbers that tell    *)
(* topics apart whose URLs are equal.  The topics are put in one after the    *)
(* other, in any order and with any parent, so the states are the inputs.    *)
(*                                                                         *)
(* A URL is a sequence: a name, then the numbers "-2", "-3" that end it.     *)
(***************************************************************************)
EXTENDS Naturals, FiniteSets, Sequences, SequencesExt

CONSTANTS
    Topic,    \* topics that may come in
    Stranger, \* an id that is no topic of the document
    None,
    Order,    \* values of hierarchy.order, naturals
    Title,    \* titles, which are naturals so that they have an order
    Word,     \* names
    Raw       \* what the template makes of a topic, None if no template resolves

\* What is asked of the constants.
Given ==
    /\ Stranger \notin Topic /\ None \notin Topic \cup {Stranger}
    /\ Order \subseteq Nat /\ Title \subseteq Nat
    /\ Raw \subseteq Seq(Word \cup Nat) /\ None \notin Raw

VARIABLES
    topics,  \* what Topic.find answers, in its order
    order,   \* the indexes of topics in the order in which they are rendered
    urls     \* the URLs that are stored, along order

vars == <<topics, order, urls>>

Entry == [id : Topic, parent : Topic \cup {Stranger, None}, order : Order, title : Title,
          url : Raw \cup {None}]
Ids == {topics[k].id : k \in DOMAIN topics}
Of(t) == CHOOSE k \in DOMAIN topics : topics[k].id = t

-----------------------------------------------------------------------------
(* orderTopicsHierarchically                                               *)

\* A stable sort of indexes.
Sorted(ts, ks, Less(_, _)) ==
    LET Before(i, j) == Less(ts[i], ts[j]) \/ (~Less(ts[j], ts[i]) /\ i < j)
    IN  [n \in 1..Cardinality(ks) |->
            CHOOSE k \in ks : Cardinality({j \in ks : Before(j, k)}) = n - 1]

\* Siblings go by order, then by title.
ByTitle(t, u) == t.title < u.title
ByOrder(t, u) == t.order < u.order \/ (t.order = u.order /\ ByTitle(t, u))

\* Slip: they stay as the database returned them.
ChildrenUnsorted(ts, p) == Sorted(ts, {k \in DOMAIN ts : ts[k].parent = p}, LAMBDA t, u : FALSE)
Children(ts, p) == Sorted(ts, {k \in DOMAIN ts : ts[k].parent = p}, ByOrder)

\* visit(parentKey), from what the calls for the children return.
Under(ts, p, visited) ==
    LET below == Children(ts, p)
    IN  FlattenSeq([k \in DOMAIN below |-> <<below[k]>> \o visited[ts[below[k]].id]])

\* The calls n levels deep.  A topic has one parent, so a chain from a root meets no
\* topic twice: there are no more levels than topics.
Visit(ts, p) ==
    LET visit[n \in 0..Len(ts)] ==
            [t \in Topic \cup {None} |-> IF n = 0 THEN <<>> ELSE Under(ts, t, visit[n - 1])]
    IN  visit[Len(ts)][p]

\* Topics that no chain of parents joins to a root follow by title.
Ordered(ts) ==
    LET rooted == Visit(ts, None)
    IN  rooted \o Sorted(ts, DOMAIN ts \ {rooted[k] : k \in DOMAIN rooted}, ByTitle)

\* deduplicateWithinDoc counts the URLs as they were rendered.
\* Slip: each repetition gets the same number.
SuffixOnce(raws, k) ==
    IF raws[k] # None /\ \E j \in 1..(k - 1) : raws[j] = raws[k] THEN Append(raws[k], 2)
    ELSE raws[k]
Suffixed(raws, k) ==
    LET count == Cardinality({j \in 1..k : raws[j] = raws[k]})
    IN  IF raws[k] # None /\ count > 1 THEN Append(raws[k], count) ELSE raws[k]

Named(raws) == [k \in DOMAIN raws |-> Suffixed(raws, k)]

-----------------------------------------------------------------------------
Init == topics = <<>> /\ order = <<>> /\ urls = <<>>

\* An ingest brings a topic, and regenerateForDocument follows it.
Arrive ==
    \E e \in Entry :
        /\ e.id \notin Ids /\ e.id # e.parent
        /\ topics' = Append(topics, e)
        /\ order' = Ordered(topics')
        /\ urls' = Named([k \in DOMAIN order' |-> topics'[order'[k]].url])

Next == Arrive
Spec == Init /\ [][Next]_vars

-----------------------------------------------------------------------------
(* Properties                                                              *)

\* p leads from a root to k.
Leads(p, k) ==
    /\ topics[p[1]].parent = None /\ p[Len(p)] = k
    /\ \A n \in 2..Len(p) : topics[p[n]].parent = topics[p[n - 1]].id

Line == UNION {[1..n -> DOMAIN topics] : n \in 1..Len(topics)}
Rooted(k) == \E p \in Line : Leads(p, k)
Path(k) == CHOOSE p \in Line : Leads(p, k)

\* Document order, as a definition: an ancestor comes first, and where two paths
\* part the siblings decide.
Precedes(i, j) ==
    LET p == Path(i)
        q == Path(j)
        fork == {n \in DOMAIN p \cap DOMAIN q : p[n] # q[n]}
    IN  IF fork = {} THEN Len(p) < Len(q)
        ELSE LET n == CHOOSE n \in fork : \A m \in fork : n <= m
                 t == topics[p[n]]
                 u == topics[q[n]]
             IN  ByOrder(t, u) \/ (~ByOrder(u, t) /\ p[n] < q[n])

\* Invariant.  The visit of the tree (visit, childrenOf) puts every topic in its
\* place once, also one whose parent is missing or below itself: those that a chain
\* of parents joins to a root come first, in document order, whatever order the
\* database returned them in.
DocumentOrder ==
    /\ Range(order) = DOMAIN topics /\ Len(order) = Len(topics)
    /\ \A i, j \in DOMAIN order :
          i < j /\ Rooted(order[j]) => Rooted(order[i]) /\ Precedes(order[i], order[j])

\* Invariant.  As long as no URL was rendered with a number at its end, no two
\* topics of a document share one (deduplicateWithinDoc).
DistinctUnlessNumbered ==
    (\A k \in DOMAIN topics : topics[k].url # None => Len(topics[k].url) = 1) =>
        \A i, j \in DOMAIN urls : i # j /\ urls[i] # None => urls[i] # urls[j]
=============================================================================
