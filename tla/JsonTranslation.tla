------------------------- MODULE JsonTranslation -------------------------
(***************************************************************************)
(* _json_safe (runtime.py): a result of user code as bounded JSON.         *)
(*                                                                         *)
(* A heap gives each node a kind and the sequence of its items, and may    *)
(* have cycles.  Lists stand for tuples too, and for sets, whose items are *)
(* those of heapq.nsmallest, in its order.  A translation is which node is *)
(* shown at which path, and the flag that goes with it.  Scalars are       *)
(* passed whatever their size, and so are the keys of mappings.            *)
(***************************************************************************)
EXTENDS Naturals, Sequences

CONSTANTS
    MaxItems,   \* config.max_results
    MaxDepth,   \* config.max_json_depth
    Root,       \* the node that stands for the result
    Heaps       \* heaps to translate

ASSUME LimitsAssumption == MaxItems \in Nat \ {0} /\ MaxDepth \in Nat \ {0}

\* Longer texts than max_text_chars are "longText"; a "record" is a dataclass
\* or a model, whose fields are translated as a mapping one level down; the
\* first key of an "oddMapping" is no string; "opaque" is anything else.
Scalars == {"scalar", "text", "longText"}
Containers == {"mapping", "oddMapping", "list"}
Kinds == Scalars \cup Containers \cup {"nan", "record", "opaque"}

Kind(heap, n) == heap[n].kind
Items(heap, n) == heap[n].items

ASSUME HeapsAssumption ==
    \A heap \in Heaps :
        /\ Root \in DOMAIN heap
        /\ \A n \in DOMAIN heap :
               Kind(heap, n) \in Kinds /\ Items(heap, n) \in Seq(DOMAIN heap)

Refused == [failed |-> TRUE, cut |-> FALSE, shown |-> {}]     \* JsonTranslationError
TooDeepMarker == [failed |-> FALSE, cut |-> TRUE, shown |-> {}]
Leaf(n, cut) == [failed |-> FALSE, cut |-> cut, shown |-> {<< <<>>, n >>}]

Below(i, shown) == {<< <<i>> \o s[1], s[2] >> : s \in shown}

\* A mutation: one level more than allowed.
OneTooDeep(depth) == depth > MaxDepth

TooDeep(depth) == depth >= MaxDepth

\* A container from the translations of its first items.
Collected(n, parts, more) ==
    IF \E i \in DOMAIN parts : parts[i].failed THEN Refused
    ELSE [failed |-> FALSE,
          cut    |-> more \/ \E i \in DOMAIN parts : parts[i].cut,
          shown  |-> {<< <<>>, n >>} \cup UNION {Below(i, parts[i].shown) : i \in DOMAIN parts}]

\* Node n at a depth, deeper[d][m] being what becomes of node m at a depth d
\* below it.
Translated(heap, n, depth, deeper) ==
    LET kind  == Kind(heap, n)
        items == Items(heap, n)
        Open(at) == Collected(n, [i \in {j \in DOMAIN items : j <= MaxItems} |->
                                      deeper[at + 1][items[i]]],
                              Len(items) > MaxItems)
    IN CASE kind \in Scalars -> Leaf(n, kind = "longText")
         [] kind = "nan" -> Refused
         [] OTHER ->
              IF TooDeep(depth) THEN TooDeepMarker
              ELSE CASE kind = "opaque" -> Refused
                     [] kind = "record" -> IF TooDeep(depth + 1) THEN TooDeepMarker
                                           ELSE Open(depth + 1)
                     [] kind = "oddMapping" -> IF items = <<>> THEN Open(depth) ELSE Refused
                     [] kind \in {"mapping", "list"} -> Open(depth)

\* The calls of _json_safe, by depth; nothing is opened below MaxDepth.
JsonSafe(heap) ==
    LET safe[depth \in 0 .. MaxDepth + 1] ==
            [n \in DOMAIN heap |-> Translated(heap, n, depth, safe)]
    IN safe[0][Root]

-----------------------------------------------------------------------------
(***************************************************************************)
(* What it should be, level by level.                                      *)
(***************************************************************************)
Weight(kind) == IF kind = "record" THEN 2 ELSE 1
Fits(heap, x) == x.depth + Weight(Kind(heap, x.node)) <= MaxDepth
Opened(heap, x) == Kind(heap, x.node) \in Containers \cup {"record"} /\ Fits(heap, x)

Children(heap, x) ==
    {[path |-> Append(x.path, i), node |-> Items(heap, x.node)[i],
      depth |-> x.depth + Weight(Kind(heap, x.node))] :
        i \in {j \in DOMAIN Items(heap, x.node) : j <= MaxItems}}

Visited(heap) ==
    LET level[k \in 0 .. MaxDepth] ==
            IF k = 0 THEN {[path |-> <<>>, node |-> Root, depth |-> 0]}
            ELSE UNION {Children(heap, x) : x \in {y \in level[k - 1] : Opened(heap, y)}}
    IN UNION {level[k] : k \in 0 .. MaxDepth}

Untranslatable(heap, x) ==
    \/ Kind(heap, x.node) = "nan"
    \/ Kind(heap, x.node) = "opaque" /\ Fits(heap, x)
    \/ Kind(heap, x.node) = "oddMapping" /\ Fits(heap, x) /\ Items(heap, x.node) # <<>>

Whole(heap, x) == Kind(heap, x.node) \in {"scalar", "text"} \/ Opened(heap, x)
Shortened(heap, x) ==
    \/ Kind(heap, x.node) = "longText"
    \/ Opened(heap, x) /\ Len(Items(heap, x.node)) > MaxItems
    \/ ~Whole(heap, x)

\* A result is refused if and only if something it would show has no JSON form;
\* otherwise it shows everything within the limits on items and depth, at its
\* place and nothing else, and is flagged if and only if anything is missing or
\* shortened.  Values that contain themselves are no exception
\* (README.md:227-228).
TranslationExact ==
    \A heap \in Heaps :
        LET got     == JsonSafe(heap)
            visited == Visited(heap)
        IN /\ got.failed <=> \E x \in visited : Untranslatable(heap, x)
           /\ ~got.failed =>
                /\ got.cut <=> \E x \in visited : Shortened(heap, x)
                /\ got.shown = {<<x.path, x.node>> :
                                   x \in {y \in visited : Kind(heap, y.node) = "longText" \/ Whole(heap, y)}}
=============================================================================
