--------------------------- MODULE MCSingleCalls ---------------------------
(* Small bodies and documents: parts and values at, under and beyond each    *)
(* bound, in the order of their keys or not.                                *)
EXTENDS SingleCalls

Part(b, r) == [bytes |-> b, runes |-> r]

MCFresh == {Part(1, 1), Part(3, 3), Part(1, 0)}
MCBodies ==
    UNION {[1 .. n -> {Part(1, 1), Part(2, 1), Part(3, 3), Part(4, 2)}] : n \in 0 .. 3}
        \cup [1 .. 4 -> {Part(1, 1), Part(3, 3)}]
        \cup {<<Part(5, 5)>>, <<Part(1, 1), Part(1, 0), Part(2, 2)>>}

Short == [kind |-> "identity", limit |-> 2]
Long == [kind |-> "text", limit |-> 2]
Fields(fields, required) == [kind |-> "object", fields |-> fields, required |-> required]
MCShapes == [
    config |-> Fields([csum |-> Short,
                      children |-> [kind |-> "list", ordered |-> TRUE, limit |-> 2, element |-> Short],
                      labels |-> [kind |-> "map", limit |-> 2, element |-> Long]], {"csum"}),
    monitor |-> Fields([state |-> Short, options |-> Json(0)], {"state"}),
    status |-> Fields([avail |-> Short, at |-> [kind |-> "scalar"],
                      resources |-> [kind |-> "map", limit |-> 2,
                                     element |-> Fields([label |-> Long,
                                        log |-> [kind |-> "list", ordered |-> FALSE, limit |-> 1,
                                                 element |-> Long]], {"label"})],
                      encap |-> [kind |-> "encap", limit |-> 1]], {"avail"})]

\* The shapes within a shape; the status within itself is a shape of its own.
RECURSIVE Within(_)
Within(shape) ==
    {shape} \cup
    CASE shape.kind = "object" -> UNION {Within(shape.fields[name]) : name \in DOMAIN shape.fields}
      [] shape.kind \in {"map", "list"} -> Within(shape.element)
      [] OTHER -> {}
MCShape == UNION {Within(MCShapes[name]) : name \in Block} \cup {Json(depth) : depth \in 0 .. MaxDepth + 1}

Sorted == <<"a", "at", "avail", "b", "c", "children", "csum", "encap", "label", "labels",
            "log", "options", "resources", "state">>
MCNames == {Sorted[i] : i \in DOMAIN Sorted}
MCRank == [name \in MCNames |-> CHOOSE i \in DOMAIN Sorted : Sorted[i] = name]

Entries == <<"a", "b", "c">>
Entry(i, v) == Item(Entries[i], v)
Of(v1, v2, v3) == <<Entry(2, v2), Entry(3, v3), Entry(1, v1)>>
Csum == Item("csum", Text(2))
MCConfigs == {Null, Collection(<<>>), Collection(<<Item("csum", Text(3))>>)} \cup
    {Collection(<<Csum, Item("children", Collection(c)), Item("labels", Collection(l))>>) :
        c \in {<<>>, Of(Text(1), Text(1), Text(2)), Of(Text(3), Text(1), Text(1))},
        l \in {<<Entry(1, Text(2))>>, Of(Text(3), Text(1), Text(3)), Of(Text(1), Null, Text(1))}}
State == Item("state", Text(1))
MCMonitors == {Null, Collection(<<State>>), Collection(<<State, Item("options", Text(3))>>)} \cup
    {Collection(<<State, Item("options", Collection(o))>>) :
        o \in {Of(Text(1), Text(3), Text(1)), Of(Collection(<<Entry(1, Text(1))>>), Null, Null),
               <<Entry(1, Collection(<<Entry(1, Collection(<<>>))>>))>>}}
Avail == Item("avail", Text(1))
Resource(n) == Collection(<<Item("label", Text(n)), Item("log", Collection(<<Entry(1, Text(n)), Entry(2, Text(1))>>))>>)
Bare == Collection(<<Avail>>)
Encap(v) == Collection(<<Avail, Item("encap", Collection(<<Entry(1, v)>>))>>)
Full == Collection(<<Avail, Item("at", Null), Item("resources", Collection(Of(Resource(1), Resource(3), Resource(3))))>>)
MCStatuses == {Null, Bare, Full, Encap(Full), Encap(Encap(Bare)), Encap(Encap(Collection(<<>>))),
    Collection(<<Avail, Item("encap", Collection(Of(Bare, Full, Bare)))>>),
    Collection(<<Avail, Item("resources", Collection(<<Entry(1, Bare)>>))>>)}

MCDocuments == {[config |-> c, monitor |-> m, status |-> s] :
                   c \in MCConfigs, m \in MCMonitors, s \in MCStatuses}

(* A run of two tasks, one cache, one instance; the tasks with each kind of  *)
(* confirmation, scoped to the node or not.                                 *)
MCSubjects == [run |-> {"task#1", "task#2"}, refresh_node |-> {"cache"},
               refresh_status |-> {"instance"}, clear |-> {"instance"}]
MCFirst == [run |-> "never", refresh_node |-> "three", refresh_status |-> "up", clear |-> "failed"]
MCLeaves == [run |-> {"succeeded", "failed"}, refresh_node |-> {"two", "three"},
             refresh_status |-> {"up", "down"}, clear |-> {"idle", "busy", "failed"}]
Keyword(section, scoped) == [section |-> section, scoped |-> scoped]
MCKeywords == {Keyword("unset", "unset"), Keyword("yes", "no"), Keyword("no", "yes"),
               Keyword("reference", "unset")}
=============================================================================
