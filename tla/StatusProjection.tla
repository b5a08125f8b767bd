-------------------------- MODULE StatusProjection --------------------------
(***************************************************************************)
(* GetInstanceStatus: the document the daemon publishes of an instance, a  *)
(* tree of three blocks, is projected block by block on the shapes of its  *)
(* fields.  What is too long is cut and each cut is told with its path;    *)
(* what cannot be cut, an identity, or is not of its shape refuses the     *)
(* whole read, and so do too many cuts and too large an answer.            *)
(*                                                                         *)
(* A value is a text, a collection or something else; a collection is a    *)
(* sequence of items, each with the key of the field or of the entry, or   *)
(* with its place among what a list is sorted by.                          *)
(*                                                                         *)
(* What is recursive is a function of the nesting left.                    *)
(***************************************************************************)
EXTENDS Naturals, Sequences, FiniteSetsExt

CONSTANTS
    Documents,  \* a bound: what the daemon may publish, for each block
    Shapes,     \* the shape of each block
    Shape,      \* the shapes, those of fields and of elements too
    Names,      \* the keys
    Rank,       \* their order
    Height,     \* the nesting of a document (encoding/json decodes no more)
    MaxCuts,    \* the cuts of an answer (maxInstanceStatusTruncations)
    MaxEncap,   \* the levels of encapsulated status
    MaxDepth,   \* the depth of a value of no known shape
    MaxNodes,   \* its nodes
    MaxWidth,   \* the items of each of its collections
    MaxText,    \* the runes of each of its texts
    MaxOutput   \* the size of an answer

VARIABLES
    source,     \* what the daemon published
    blocks,     \* blocks[name]: the block projected
    cuts,       \* the cuts told
    stage       \* how far the projection is

statusVars == <<source, blocks, cuts, stage>>

Block == {"config", "monitor", "status"}
Null == [type |-> "null"]
Failed == [value |-> Null, cuts |-> {}, failed |-> "failed"]
Projected(value, made) == [value |-> value, cuts |-> made, failed |-> "no"]
Cut(path, total, count) == [path |-> path, total |-> total, count |-> count]
Text(n) == [type |-> "text", runes |-> n]
Collection(items) == [type |-> "collection", items |-> items]
Item(key, value) == [key |-> key, value |-> value]

\* The values that nest no deeper than n.
Trees[n \in 0 .. Height] ==
    {Null} \cup [type : {"text"}, runes : Nat] \cup
        IF n = 0 THEN {}
        ELSE [type : {"collection"},
              items : {items \in Seq([key : Names, value : Trees[n - 1]]) :
                          \A i, j \in DOMAIN items : items[i].key = items[j].key => i = j}]

ASSUME DocumentsAssumption ==
    /\ Height \in Nat /\ Documents \subseteq [Block -> Trees[Height]]
    /\ Rank \in [Names -> Nat] /\ \A a, b \in Names : Rank[a] = Rank[b] => a = b

Keys(v) == {v.items[i].key : i \in DOMAIN v.items}
Field(v, name) ==
    IF name \in Keys(v)
    THEN v.items[CHOOSE i \in DOMAIN v.items : v.items[i].key = name].value ELSE Null

\* The values of a value, itself included, and their size.
NodesTo[n \in 0 .. Height] ==
    [v \in Trees[n] |->
        IF v.type # "collection" THEN 1
        ELSE 1 + MapThenSumSet(LAMBDA i : NodesTo[n - 1][v.items[i].value], DOMAIN v.items)]

SizeTo[n \in 0 .. Height] ==
    [v \in Trees[n] |->
        CASE v.type = "text" -> 1 + v.runes
          [] v.type = "collection" ->
                1 + MapThenSumSet(LAMBDA i : SizeTo[n - 1][v.items[i].value], DOMAIN v.items)
          [] OTHER -> 1]

\* The items ranked, the least rank first.
Arranged(items, rank) ==
    LET Before(i) == {j \in DOMAIN rank : rank[j] < rank[i]}
    IN  [place \in 1 .. Cardinality(DOMAIN rank) |->
            items[CHOOSE i \in DOMAIN rank : Cardinality(Before(i)) + 1 = place]]

AsGiven(indices) == [i \in indices |-> i]
-----------------------------------------------------------------------------
(* Bugs of the projection, put in place of a definition by a mutation run.  *)

\* A collection is cut as the daemon gave it, before it is sorted.
KeptUnsorted(v, shape) ==
    LET known == {i \in DOMAIN v.items : shape.kind = "object" => v.items[i].key \in DOMAIN shape.fields}
        all == Arranged(v.items, AsGiven(known))
    IN  IF shape.kind = "object" \/ Len(all) <= shape.limit THEN all ELSE SubSeq(all, 1, shape.limit)
-----------------------------------------------------------------------------
(* The projection.                                                         *)

\* Sorted by key before they are cut: but for a list that has no order, all
\* collections, those of a value of no known shape included, whose lists have
\* their places for keys.
Ordered(shape) == shape.kind \in {"map", "encap", "json"} \/ (shape.kind = "list" /\ shape.ordered)

\* The items of a collection kept: the fields of a shape, the first entries of
\* a list in the order of the daemon, the least of the others.
Kept(v, shape) ==
    LET known == {i \in DOMAIN v.items : shape.kind = "object" => v.items[i].key \in DOMAIN shape.fields}
        all == Arranged(v.items, IF Ordered(shape) THEN [i \in known |-> Rank[v.items[i].key]]
                                 ELSE AsGiven(known))
    IN  IF shape.kind = "object" \/ Len(all) <= shape.limit THEN all ELSE SubSeq(all, 1, shape.limit)

\* A value of no known shape at some depth of one.
Json(depth) == [kind |-> "json", depth |-> depth, limit |-> MaxWidth]

\* The shape of an item of a collection.
Element(shape, key) ==
    CASE shape.kind = "object" -> shape.fields[key]
      [] shape.kind = "json"   -> Json(shape.depth + 1)
      [] shape.kind = "encap"  -> Shapes["status"]
      [] OTHER                 -> shape.element

\* The shapes are closed under what the projection asks for.  An encapsulated
\* status is a field (instanceStatusShapes).
ASSUME ShapesAssumption ==
    /\ {MaxDepth, MaxWidth, MaxText, MaxEncap} \subseteq Nat
    /\ Shapes \in [Block -> {shape \in Shape : shape.kind = "object"}]
    /\ \A shape \in Shape :
          /\ shape.kind \in {"scalar", "identity", "text", "object", "map", "list", "encap", "json"}
          /\ shape.kind \notin {"scalar", "object"} => shape.limit \in Nat
          /\ shape.kind = "object" => shape.fields \in [DOMAIN shape.fields -> Shape]
          /\ shape.kind \in {"map", "list"} => shape.element \in {s \in Shape : s.kind # "encap"}
          /\ shape.kind = "json" => shape.depth \in Nat
          /\ shape.kind = "json" /\ shape.depth <= MaxDepth => Json(shape.depth + 1) \in Shape

\* The name of an item in the paths: the place of an entry of a list in the
\* answer, the key of another.  The cuts of an item are told under its name.
NameOf(shape, key, i) == IF shape.kind = "list" THEN i ELSE key
Under(name, made) == {Cut(<<name>> \o cut.path, cut.total, cut.count) : cut \in made}

\* A text: an identity is never cut.
Bounded(v, shape) ==
    LET limit == IF shape.kind = "json" THEN MaxText ELSE shape.limit
    IN  IF v.runes <= limit THEN Projected(v, {})
        ELSE IF shape.kind = "identity" THEN Failed
        ELSE Projected(Text(limit), {Cut(<<>>, v.runes, limit)})

\* A date, a number or a boolean is only told apart from a collection.
Leaf(v, shape) ==
    IF shape.kind = "scalar" \/ (shape.kind = "json" /\ v = Null) THEN Projected(v, {})
    ELSE IF shape.kind \in {"identity", "text", "json"} /\ v.type = "text" THEN Bounded(v, shape)
    ELSE Failed

Complete(v, shape) ==
    shape.kind = "object" => \A name \in shape.required : Field(v, name) # Null

\* What a list is sorted by is looked at in all its items, before the cut.
Sortable(v, shape) ==
    shape.kind = "list" /\ shape.ordered =>
        \A i \in DOMAIN v.items :
            v.items[i].value.type = IF shape.element.kind = "object" THEN "collection" ELSE "text"

\* A collection: each item kept projected, and the items left out told.
Normalized(v, shape, depth, project) ==
    LET kept == Kept(v, shape)
        inner == IF shape.kind = "encap" THEN depth + 1 ELSE depth
        children == [i \in DOMAIN kept |-> project[kept[i].value][Element(shape, kept[i].key)][inner]]
        answered == {i \in DOMAIN kept : children[i].value.type # "omitted"}
        out == Collection(Arranged([i \in DOMAIN kept |-> Item(kept[i].key, children[i].value)],
                                   AsGiven(answered)))
        own == IF shape.kind # "object" /\ Len(kept) < Len(v.items)
               THEN {Cut(<<>>, Len(v.items), Len(kept))} ELSE {}
    IN  IF \/ ~Complete(v, shape)
           \/ ~Sortable(v, shape)
           \/ \E i \in DOMAIN children : children[i].failed = "failed"
           \/ shape.kind = "json" /\ shape.depth = 0 /\ NodesTo[Height][out] > MaxNodes
        THEN Failed
        ELSE Projected(out, own \cup UNION {Under(NameOf(shape, kept[i].key, i), children[i].cuts) :
                                               i \in DOMAIN children})

Collections == {"object", "map", "list", "encap", "json"}
TooDeep(v, shape, depth) == shape.kind = "encap" /\ depth >= MaxEncap /\ v.items # <<>>

\* The value projected on its shape, with the cuts made, in some levels of
\* encapsulated status.  An encapsulated status too deep is left out as a whole;
\* a text where a collection is expected, or the reverse, is a failure.
NormalizeTo[n \in 0 .. Height] ==
    [v \in Trees[n] |-> [shape \in Shape |-> [depth \in Nat |->
        IF shape.kind = "json" /\ shape.depth > MaxDepth THEN Failed
        ELSE IF v.type # "collection" THEN Leaf(v, shape)
        ELSE IF shape.kind \notin Collections THEN Failed
        ELSE IF TooDeep(v, shape, depth)
        THEN Projected([type |-> "omitted"], {Cut(<<>>, Len(v.items), 0)})
        ELSE Normalized(v, shape, depth, NormalizeTo[n - 1])]]]

StatusInit ==
    /\ source \in Documents
    /\ blocks = [name \in Block |-> Null]
    /\ cuts = {}
    /\ stage = "read"

\* The daemon answers with the instance asked for, and its configuration.
ReadInstance ==
    /\ stage = "read"
    /\ stage' = IF source["config"] = Null THEN "error" ELSE "config"
    /\ UNCHANGED <<source, blocks, cuts>>

\* The daemon refuses, or answers with another instance.
ReadInstanceFails ==
    /\ stage = "read"
    /\ stage' = "error"
    /\ UNCHANGED <<source, blocks, cuts>>

\* One block, after those before it: the cuts add up.  A block not published
\* stays null.
NormalizeBlock(name, following) ==
    /\ stage = name
    /\ LET result == IF source[name] = Null THEN Projected(Null, {})
                     ELSE NormalizeTo[Height][source[name]][Shapes[name]][0]
           all == cuts \cup Under(name, result.cuts)
           failed == result.failed = "failed" \/ Cardinality(all) > MaxCuts
       IN  /\ blocks' = IF failed THEN blocks ELSE [blocks EXCEPT ![name] = result.value]
           /\ cuts' = IF failed THEN cuts ELSE all
           /\ stage' = IF failed THEN "error" ELSE following
    /\ UNCHANGED source

\* The answer, unless it is too large even so.
Encode ==
    /\ stage = "encode"
    /\ stage' = IF LET Size(name) == SizeTo[Height][blocks[name]]
                  IN  Size("config") + Size("monitor") + Size("status") + Cardinality(cuts) > MaxOutput
                THEN "error" ELSE "answered"
    /\ UNCHANGED <<source, blocks, cuts>>

StatusNext ==
    \/ ReadInstance \/ ReadInstanceFails
    \/ NormalizeBlock("config", "monitor")
    \/ NormalizeBlock("monitor", "status")
    \/ NormalizeBlock("status", "encode")
    \/ Encode

StatusSpec == StatusInit /\ [][StatusNext]_statusVars
-----------------------------------------------------------------------------
(* Properties.                                                             *)

\* The items an answer misses of a collection: the fields left out, each told
\* under its name, and the other items, told together.
LostOf(v, out, shape) ==
    IF shape.kind = "object"
    THEN {Cut(<<name>>, Len(Field(v, name).items), 0) :
             name \in (Keys(v) \cap DOMAIN shape.fields) \ Keys(out)}
    ELSE IF Len(out.items) < Len(v.items)
    THEN {Cut(<<>>, Len(v.items), Len(out.items))} ELSE {}

KeepsTheLeast(v, out, shape) ==
    /\ Keys(out) \subseteq Keys(v)
    /\ Ordered(shape) =>
          \A kept \in Keys(out), other \in Keys(v) \ Keys(out) : Rank[kept] < Rank[other]

\* What an answer misses of its source, told from the two: the texts shorter,
\* the collections smaller, each at its path in the answer.  Nothing else
\* differs: an item answered is one of the source, and of a collection in
\* order, those left out come after those kept.
MissingTo[n \in 0 .. Height] ==
    [v \in Trees[n] |-> [out \in Trees[n] |-> [shape \in Shape |->
        IF v.type = "text" THEN IF out.runes < v.runes THEN {Cut(<<>>, v.runes, out.runes)} ELSE {}
        ELSE IF v.type # "collection" THEN {}
        ELSE LostOf(v, out, shape) \cup
             UNION {LET key == out.items[i].key
                    IN  Under(NameOf(shape, key, i),
                              MissingTo[n - 1][Field(v, key)][out.items[i].value][Element(shape, key)]) :
                       i \in DOMAIN out.items}]]]

KeepsTo[n \in 0 .. Height] ==
    [v \in Trees[n] |-> [out \in Trees[n] |-> [shape \in Shape |->
        v.type = "collection" =>
            /\ KeepsTheLeast(v, out, shape)
            /\ \A i \in DOMAIN out.items :
                  LET key == out.items[i].key
                  IN  KeepsTo[n - 1][Field(v, key)][out.items[i].value][Element(shape, key)]]]]

\* The cuts told are exactly those made, wherever they are in the answer, and
\* which entries are kept does not depend on the order the daemon gave them in
\* where the answer sorts them (GetInstanceStatus, normalize).
ReductionsAreTold ==
    stage = "answered" =>
        /\ cuts = UNION {Under(name, MissingTo[Height][source[name]][blocks[name]][Shapes[name]]) : name \in Block}
        /\ \A name \in Block : KeepsTo[Height][source[name]][blocks[name]][Shapes[name]]
=============================================================================
