------------------------------ MODULE ColCache ------------------------------
(***************************************************************************)
(* The columns that mirror a list loaded from a file                       *)
(* (src/src/te_colcache.c) and who must drop them.  filter over columns    *)
(* makes a view: a list with rows of its own whose sums are taken from the *)
(* columns of its parent through a mask.  Pushes, pops, item and attribute *)
(* assignments drop the cache of a list with those of its views; no list   *)
(* gets a cache again.                                                     *)
(*                                                                         *)
(* An object has one numeric attribute.  A mask is the set of the rows it  *)
(* selects.  A freed cache is one that is no longer in cache; its list may *)
(* still be named as the parent of another.                                *)
(***************************************************************************)
EXTENDS Naturals, Sequences, FiniteSets, SequencesExt

CONSTANTS FileRows, \* the rows of the file, a sequence of objects
          Spare,    \* bound: objects that pushes may make
          Values,
          MaxRows,  \* bound: rows of a list
          Base, NoList,
          Views,    \* bound: lists that filters may make
          Owned,    \* TRUE: no assignment to an object of a prebuilt cache
          OneView,  \* TRUE: at most one view of a list at a time
          Ends      \* TRUE: requests may end while a list of theirs has columns

Lists == Views \cup {Base}
Objects == ToSet(FileRows) \cup Spare

ASSUME ColCacheAssumption ==
    /\ Base \notin Views /\ NoList \notin Lists
    /\ FileRows \in Seq(ToSet(FileRows))

VARIABLES rows,     \* rows[l] where l is live
          live,     \* lists that were made and not freed
          freed,
          value,    \* the attribute
          owning,   \* owning_list
          cache     \* col_cache, of the lists that have one

colVars == <<rows, live, freed, value, owning, cache>>

Cache(cols, lazy, mask, parent) ==
    [cols |-> cols, lazy |-> lazy, mask |-> mask, parent |-> parent, children |-> <<>>]

Column(l) == [i \in DOMAIN rows[l] |-> value[rows[l][i]]]

(* The rows of a mask from the first to the last.                          *)
Ascending(mask) == CHOOSE at \in [1 .. Cardinality(mask) -> mask] :
                       \A j, k \in DOMAIN at : j < k => at[j] < at[k]
Selected(s, mask) == [k \in 1 .. Cardinality(mask) |-> s[Ascending(mask)[k]]]

(* A file is loaded with its columns written on the way, which tells no     *)
(* object where it is (te_colcache_attach_prebuilt), or with columns built  *)
(* from the rows.                                                           *)
ColInit == /\ live = {Base} /\ freed = {}
           /\ rows = [l \in Lists |-> IF l = Base THEN FileRows ELSE <<>>]
           /\ value \in [Objects -> Values]
           /\ \E list \in {Base, NoList} :
                  owning = [o \in Objects |-> IF o \in ToSet(FileRows) THEN list ELSE NoList]
           /\ cache = [l \in {Base} |-> Cache(Column(Base), FALSE, {}, NoList)]

-----------------------------------------------------------------------------
(* te_colcache_invalidate: first the views, of which each removes itself    *)
(* from the array that the loop goes through, then the list itself.         *)
Without(children, l) ==
    LET i == CHOOSE i \in DOMAIN children : children[i] = l
    IN  Front([children EXCEPT ![i] = Last(children)])

Unlinked(c, l) == LET p == c[l].parent
                  IN  IF p \in DOMAIN c THEN [c EXCEPT ![p].children = Without(@, l)] ELSE c

(* Faulty variant: the views keep their caches.                            *)
ReachedNone(children) == {}

(* A view that removes itself puts the last of its siblings in its place,   *)
(* behind the loop: of n views the loop comes to the first (n + 1) / 2.     *)
Reached(children) == {children[i] : i \in 1 .. (Len(children) + 1) \div 2}

(* The list, the views its loop comes to, the views theirs come to.        *)
Cascaded(c, l) ==
    {m \in DOMAIN c : \A S \in SUBSET DOMAIN c :
        l \in S /\ (\A k \in S : Reached(c[k].children) \cap DOMAIN c \subseteq S) => m \in S}

Invalidated(c, l) == IF l \notin DOMAIN c THEN c
                     ELSE Restrict(Unlinked(c, l), DOMAIN c \ Cascaded(c, l))

(* te_colcache_materialize.                                                *)
Materialized(c, l) ==
    IF ~c[l].lazy THEN c
    ELSE [c EXCEPT ![l].cols = Selected(c[c[l].parent].cols, c[l].mask),
                   ![l].lazy = FALSE, ![l].mask = {}]

-----------------------------------------------------------------------------
(* te_lq_filter: rows with attribute v, as a view where the list has        *)
(* columns.                                                                 *)
Usable(l) == l \in DOMAIN cache /\ (cache[l].lazy => cache[l].parent \in DOMAIN cache)

WithView(c, l, new, mask) ==
    [m \in DOMAIN c \cup {new} |->
        IF m = new THEN Cache(<<>>, TRUE, mask, l)
        ELSE IF m = l THEN [c[l] EXCEPT !.children = Append(@, new)] ELSE c[m]]

Filter(l, new, v) ==
    /\ new \in Views \ (live \cup freed)
    /\ OneView /\ l \in DOMAIN cache => cache[l].children = <<>>
    /\ live' = live \cup {new}
    /\ IF l \in DOMAIN cache
       THEN LET c == Materialized(cache, l)
                mask == {i \in DOMAIN c[l].cols : c[l].cols[i] = v}
            IN  /\ Usable(l)
                /\ rows' = [rows EXCEPT ![new] = Selected(rows[l], mask)]
                /\ cache' = WithView(c, l, new, mask)
       ELSE /\ rows' = [rows EXCEPT ![new] =
                        Selected(rows[l], {i \in DOMAIN rows[l] : value[rows[l][i]] = v})]
            /\ UNCHANGED cache
    /\ UNCHANGED <<freed, value, owning>>

(* countWhere leaves a view with columns of its own.                       *)
CountWhere(l) == /\ Usable(l) /\ cache[l].lazy
                 /\ cache' = Materialized(cache, l)
                 /\ UNCHANGED <<rows, live, freed, value, owning>>

-----------------------------------------------------------------------------
Drops(l) == cache' = Invalidated(cache, l) /\ UNCHANGED <<live, freed, owning>>

Reachable == UNION {ToSet(rows[l]) : l \in live}

(* push makes an object of its own; pop; reverse and sort, which finds all  *)
(* objects equal; list[i] = object.                                         *)
Push(l, o, v) == /\ Len(rows[l]) < MaxRows /\ o \in Spare \ Reachable
                 /\ rows' = [rows EXCEPT ![l] = Append(@, o)]
                 /\ value' = [value EXCEPT ![o] = v]
                 /\ Drops(l)

Pop(l) == /\ rows[l] # <<>>
          /\ rows' = [rows EXCEPT ![l] = Front(@)]
          /\ Drops(l) /\ UNCHANGED value

Reorder(l) == /\ rows' \in {rows, [rows EXCEPT ![l] = Reverse(@)]}
              /\ Drops(l) /\ UNCHANGED value

SetItem(l, o) == /\ \E i \in DOMAIN rows[l] : rows' = [rows EXCEPT ![l][i] = o]
                 /\ Drops(l) /\ UNCHANGED value

(* interpret_assign_attr.                                                  *)
Mirrored(o) == \E l \in live \cap DOMAIN cache : o \in ToSet(rows[l])

AssignAttr(o, v) == /\ Owned /\ owning[o] = NoList => ~Mirrored(o)
                    /\ value' = [value EXCEPT ![o] = v]
                    /\ cache' = Invalidated(cache, owning[o])
                    /\ UNCHANGED <<rows, live, freed, owning>>

(* te_req_free_forest: the lists of a request, not their caches.           *)
FreeForest == /\ live # {Base}
              /\ Ends \/ (live \ {Base}) \cap DOMAIN cache = {}
              /\ live' = {Base} /\ freed' = freed \cup (live \ {Base})
              /\ rows' = [l \in Lists |-> IF l = Base THEN rows[l] ELSE <<>>]
              /\ UNCHANGED <<value, owning, cache>>

ColNext ==
    \/ \E l \in live : \/ \E new \in Views, v \in Values : Filter(l, new, v)
                       \/ CountWhere(l) \/ Pop(l) \/ Reorder(l)
                       \/ \E o \in Spare, v \in Values : Push(l, o, v)
                       \/ \E o \in Reachable : SetItem(l, o)
    \/ \E o \in Reachable, v \in Values : AssignAttr(o, v)
    \/ FreeForest

ColSpec == ColInit /\ [][ColNext]_colVars

-----------------------------------------------------------------------------
(* What sumBy and the other aggregates read from the columns of a list is   *)
(* what its rows hold, and a view has its parent, after every sequence of   *)
(* filters and changes to lists and to the objects they share: owning_list  *)
(* is there "to invalidate the columnar cache on attribute mutation"        *)
(* (src/src/ast.h:212), aggregates use "parent + mask"                      *)
(* (src/src/te_colcache.h:241).                                             *)
ColumnsFollowRows ==
    \A l \in live \cap DOMAIN cache :
        /\ Usable(l)
        /\ Column(l) = IF cache[l].lazy
                       THEN Selected(cache[cache[l].parent].cols, cache[l].mask)
                       ELSE cache[l].cols

(* What the next invalidation follows is still there: the cache of the      *)
(* parent, and the lists of the views ("Owned by the LIST node; freed when  *)
(* the list is freed", src/src/ast.h:130).                                  *)
LinksHold ==
    \A l \in DOMAIN cache :
        /\ cache[l].parent # NoList => cache[l].parent \in DOMAIN cache
        /\ l \in live => ToSet(cache[l].children) \subseteq live

(* Both: a sum over columns is the sum over the rows, and te_colcache_      *)
(* invalidate follows no link to what was freed.                            *)
CachesSound == ColumnsFollowRows /\ LinksHold
=============================================================================
