------------------------------ MODULE Listings ------------------------------
(***************************************************************************)
(* A listing taken page by page.  The server keeps nothing between two     *)
(* calls: it reads the whole collection again from the daemon, sorts it,   *)
(* finds the cursor the caller gives back, and cuts the next page.  The    *)
(* collection changes between the calls.                                   *)
(*                                                                         *)
(* An entry stands for the fields its tool sorts by: two records equal in  *)
(* all of them are two copies of one key, told apart by their rank among   *)
(* equals.  copies is what the filters of the caller keep, which stay the  *)
(* same through a listing: a record whose state leaves the filter leaves.  *)
(* Repeats are looked for by key, where the tool of the objects looks at   *)
(* the path as the daemon spells it.                                       *)
(***************************************************************************)
EXTENDS Integers, FiniteSets, FiniteSetsExt

CONSTANTS
    Keys,       \* the keys an entry can have, ordered as numbers
    Unfit,      \* the keys of entries of another object, or not well formed,
                \* or that the query of the catalogue does not match
    Long,       \* the keys whose cursor is longer than the tool accepts
    Runes,      \* Runes[k]: the characters an entry of key k takes of a page
    MaxCopies,  \* copies of one key at most (a bound of the model)
    MaxLimit,   \* the largest page a caller can ask
    MaxItems,   \* the largest collection a capped tool takes
    PageRunes   \* the characters of a page of a tool with a budget

ASSUME KeysAssumption == /\ Keys \subseteq Nat \ {0} /\ IsFiniteSet(Keys)
                         /\ Unfit \subseteq Keys /\ Long \subseteq Keys
ASSUME BoundsAssumption == /\ MaxCopies \in Nat \ {0}
                           /\ MaxLimit \in Nat \ {0}
                           /\ MaxItems \in Nat
                           /\ PageRunes \in Nat
                           /\ Runes \in [Keys -> Nat]

VARIABLES
    tool,     \* the tool that lists: a record of what it does (see below)
    copies,   \* copies[k]: how many entries of key k there are now
    pc,       \* "start", "more" (the last page was truncated), or how it ended
    cursor,   \* the cursor of the last truncated page
    listed,   \* the places of the pages before the last one
    page,     \* the places of the last page
    steady    \* the keys that have not changed since the first page (history)

vars == <<tool, copies, pc, cursor, listed, page, steady>>

-----------------------------------------------------------------------------
(***************************************************************************)
(* What the tools do.  resume: go on "after" the key of the cursor, or     *)
(* after the entry itself, which must be "present" still, alone or as one  *)
(* "occurrence" among equals, or at an "offset" in a catalogue that must   *)
(* not have changed.  repeats: entries with one key never come, are listed *)
(* "once", make the listing "refused", or are all "kept".  unfit: an entry *)
(* that is not as expected is "refused" with the whole answer or with the  *)
(* "page" that holds it, "skipped", or "listed"; the catalogue skips what  *)
(* the query does not match, which its cursor counts all the same.         *)
(* budget: the text of a page is bounded.  capped: the size of the         *)
(* collection is.  fits: every cursor the tool gives is short enough for   *)
(* it to take back.                                                        *)
(***************************************************************************)
Does(resume, repeats, unfit, budget, capped, fits) ==
    [resume |-> resume, repeats |-> repeats, unfit |-> unfit,
     budget |-> budget, capped |-> capped, fits |-> fits]

ListClusterObjects       == Does("after", "once", "refused", FALSE, FALSE, FALSE)
ListObjectInstances      == Does("after", "never", "skipped", FALSE, FALSE, FALSE)
ListObjectResources      == Does("after", "never", "skipped", FALSE, FALSE, FALSE)
ListPoolVolumes          == Does("after", "never", "listed", FALSE, FALSE, FALSE)
ListNetworkIPs           == Does("after", "never", "refused", FALSE, TRUE, FALSE)
ListDNSRecords           == Does("after", "once", "refused", FALSE, TRUE, FALSE)
ListNodeDisks            == Does("after", "never", "refused", FALSE, TRUE, FALSE)
ListClusterIPResources   == Does("after", "never", "refused", FALSE, FALSE, FALSE)
ClusterStatusNodes       == Does("after", "once", "listed", FALSE, FALSE, FALSE)
ClusterStatusObjects     == Does("after", "never", "skipped", FALSE, FALSE, FALSE)
ListNodeCapabilities     == Does("present", "once", "refused", TRUE, FALSE, FALSE)
ListNodeDrivers          == Does("present", "once", "refused", TRUE, FALSE, FALSE)
GetNodeDaemonMetrics     == Does("present", "once", "page", FALSE, TRUE, TRUE)
ListNodeProperties       == Does("present", "refused", "refused", TRUE, TRUE, TRUE)
ListDaemonExecutions     == Does("present", "never", "refused", TRUE, FALSE, TRUE)
ListDaemonOrchestrations == Does("present", "never", "refused", TRUE, FALSE, TRUE)
ListNodePackages         == Does("occurrence", "kept", "refused", TRUE, TRUE, TRUE)
ListNodeHardware         == Does("occurrence", "kept", "refused", TRUE, TRUE, TRUE)
ListSchedules            == Does("occurrence", "kept", "refused", TRUE, TRUE, TRUE)
ListResourceInfo         == Does("occurrence", "kept", "refused", TRUE, TRUE, TRUE)
ListConfigKeywords       == Does("occurrence", "kept", "refused", TRUE, TRUE, TRUE)
ListConfiguredClusters   == Does("offset", "never", "skipped", FALSE, FALSE, TRUE)

Tools ==
    {ListClusterObjects, ListObjectInstances, ListObjectResources, ListPoolVolumes,
     ListNetworkIPs, ListDNSRecords, ListNodeDisks, ListClusterIPResources,
     ClusterStatusNodes, ClusterStatusObjects, ListNodeCapabilities, ListNodeDrivers,
     GetNodeDaemonMetrics, ListNodeProperties, ListDaemonExecutions,
     ListDaemonOrchestrations, ListNodePackages, ListNodeHardware, ListSchedules,
     ListResourceInfo, ListConfigKeywords, ListConfiguredClusters}

-----------------------------------------------------------------------------
\* A place in a listing: a key and the rank of the entry among its copies.
Place == Keys \X (0 .. MaxCopies - 1)

\* Mutant: the rest starts after the key of the cursor, whatever its rank.
BeforeByKey(p, q) == p[1] < q[1]

Before(p, q) == p[1] < q[1] \/ (p[1] = q[1] /\ p[2] < q[2])

\* The places of the sorted answer, once repeated and foreign entries are out.
Shown ==
    {p \in Place : /\ p[2] < copies[p[1]]
                   /\ tool.repeats # "kept" => p[2] = 0
                   /\ tool.unfit = "skipped" => p[1] \notin Unfit}

\* The rank of a place in the answer, from 1.
Rank(p) == Cardinality({q \in Shown : ~Before(p, q)})

\* Mutant: the rest starts at the entry of the cursor.
RestFromCursor ==
    {p \in Shown : IF tool.resume = "offset" THEN Rank(p) > cursor.offset
                                             ELSE ~Before(p, cursor.place)}

\* What is left to list: the start of the page on.
Rest ==
    {p \in Shown : IF tool.resume = "offset" THEN Rank(p) > cursor.offset
                                             ELSE Before(cursor.place, p)}

RunesOf(places) == MapThenSumSet(LAMBDA p : Runes[p[1]], places)

\* Why a page stops where it does: the end, the limit, or the next entry does
\* not fit; the first entry of a page always does.
Full(places, limit) ==
    \/ places = Rest
    \/ Cardinality(places) = limit
    \/ /\ tool.budget /\ places # {}
       /\ \E next \in Rest \ places :
             /\ \A q \in Rest \ places : ~Before(q, next)
             /\ RunesOf(places \cup {next}) > PageRunes

\* Mutant: the first entry of a page has to fit as well.
IsPageFitting(places, limit) ==
    /\ \A p \in places, q \in Rest : Before(q, p) => q \in places
    /\ Cardinality(places) <= limit
    /\ tool.budget => RunesOf(places) <= PageRunes
    /\ Full(places, limit)

IsPage(places, limit) ==
    /\ \A p \in places, q \in Rest : Before(q, p) => q \in places
    /\ Cardinality(places) <= limit
    /\ tool.budget /\ Cardinality(places) > 1 => RunesOf(places) <= PageRunes
    /\ Full(places, limit)

\* The cursor of a truncated page: its last place, or for the catalogue the
\* entries so far and the catalogue they were counted in.
Nowhere == [place |-> <<0, 0>>, offset |-> 0, catalogue |-> [k \in Keys |-> 0]]

CursorAt(last, count) ==
    IF tool.resume = "offset"
    THEN [Nowhere EXCEPT !.offset = count, !.catalogue = copies]
    ELSE [Nowhere EXCEPT !.place = last]

-----------------------------------------------------------------------------
Init ==
    /\ tool \in Tools
    /\ copies \in [Keys -> 0 .. MaxCopies]
    /\ tool.repeats = "never" => \A k \in Keys : copies[k] <= 1
    /\ pc = "start"
    /\ cursor = Nowhere
    /\ listed = {} /\ page = {}
    /\ steady = Keys

Asked == pc \in {"start", "more"}

\* The cursor is longer than the tool takes: refused before the daemon is read.
TooLong == pc = "more" /\ ~tool.fits /\ cursor.place[1] \in Long

\* The whole answer is refused: too large, an entry that is not as expected,
\* or two of one name.
BadAnswer ==
    \/ tool.capped /\ SumFunction(copies) > MaxItems
    \/ tool.unfit = "refused" /\ \E k \in Unfit : copies[k] > 0
    \/ tool.repeats = "refused" /\ \E k \in Keys : copies[k] > 1

\* Mutants: a catalogue known by its size alone; a last entry with nothing
\* after it taken for gone.
StaleBySize ==
    /\ pc = "more"
    /\ \/ tool.resume \in {"present", "occurrence"} /\ cursor.place \notin Shown
       \/ tool.resume = "offset" /\ cursor.offset > Cardinality(Shown)

StaleAtTheEnd ==
    /\ pc = "more"
    /\ \/ tool.resume \in {"present", "occurrence"}
          /\ (cursor.place \notin Shown \/ Rest = {})
       \/ tool.resume = "offset" /\ (cursor.catalogue # copies \/ cursor.offset > Cardinality(Shown))

\* The entry of the cursor is not in the answer, or the catalogue is another.
Stale ==
    /\ pc = "more"
    /\ \/ tool.resume \in {"present", "occurrence"} /\ cursor.place \notin Shown
       \/ tool.resume = "offset" /\ (cursor.catalogue # copies \/ cursor.offset > Cardinality(Shown))

Ends(how) ==
    /\ pc' = how
    /\ UNCHANGED <<tool, copies, cursor, listed, page, steady>>

RefuseCursor == TooLong /\ Ends("unusable")

\* The read of the daemon fails; the catalogue is in the server itself.
ReadFails == Asked /\ ~TooLong /\ tool.resume # "offset" /\ Ends("error")

RefuseAnswer == Asked /\ ~TooLong /\ BadAnswer /\ Ends("error")

CursorGone == ~TooLong /\ ~BadAnswer /\ Stale /\ Ends("gone")

\* The page holds an entry that is not as expected, for a tool that projects
\* the entries of the page only: the call is refused, other pages are not.
HoldsUnfit(places) == tool.unfit = "page" /\ \E p \in places : p[1] \in Unfit

RefusePage ==
    /\ Asked /\ ~TooLong /\ ~BadAnswer /\ ~Stale
    /\ \E limit \in 1 .. MaxLimit, places \in SUBSET Rest :
          IsPage(places, limit) /\ HoldsUnfit(places)
    /\ Ends("error")

\* A page is answered; a truncated one with the cursor of its last entry.
ReadPage ==
    /\ Asked /\ ~TooLong /\ ~BadAnswer /\ ~Stale
    /\ \E limit \in 1 .. MaxLimit, places \in SUBSET Rest :
          /\ IsPage(places, limit) /\ ~HoldsUnfit(places)
          /\ page' = places
          /\ IF places = Rest
             THEN pc' = "done" /\ UNCHANGED cursor
             ELSE /\ pc' = "more"
                  /\ \E last \in places :
                        /\ \A p \in places \ {last} : Before(p, last)
                        /\ cursor' = CursorAt(last, cursor.offset + Cardinality(places))
    /\ listed' = listed \cup page
    /\ UNCHANGED <<tool, copies, steady>>

\* Between two pages, an entry appears or leaves.
Changes(k, count) ==
    /\ pc = "more"
    /\ copies' = [copies EXCEPT ![k] = count]
    /\ steady' = steady \ {k}
    /\ UNCHANGED <<tool, pc, cursor, listed, page>>

Appears(k) ==
    /\ copies[k] < IF tool.repeats = "never" THEN 1 ELSE MaxCopies
    /\ Changes(k, copies[k] + 1)

Leaves(k) == copies[k] > 0 /\ Changes(k, copies[k] - 1)

Answer == RefuseCursor \/ RefuseAnswer \/ CursorGone \/ RefusePage \/ ReadPage

Next == Answer \/ ReadFails \/ \E k \in Keys : Appears(k) \/ Leaves(k)

\* The caller asks for the next page of a truncated one, and each call ends:
\* unless its read of the daemon fails, with an answer.
Spec == Init /\ [][Next]_vars /\ WF_vars(Answer)

-----------------------------------------------------------------------------
CursorType == [place : (Keys \cup {0}) \X Nat, offset : Nat, catalogue : [Keys -> Nat]]

\* The type invariant: every cursor given is one of an entry there can be.
TypeOK ==
    /\ tool \in Tools
    /\ copies \in [Keys -> 0 .. MaxCopies]
    /\ pc \in {"start", "more", "done", "error", "gone", "unusable"}
    /\ cursor \in CursorType
    /\ cursor.place \in Place \cup {<<0, 0>>}
    /\ listed \subseteq Place /\ page \subseteq Place
    /\ steady \subseteq Keys

\* A page comes after all that was listed before it: whatever appears, leaves
\* or comes back between two pages, no entry is listed twice and the pages put
\* end to end are in order (resource.go:192, node_package.go:139).
InOrderOnce == \A p \in listed, q \in page : Before(p, q)

\* A listing that runs to its end has missed nothing that stayed: each copy of
\* a key that did not change since the first page is listed, and only those,
\* although every page is cut from another answer (docs/tools/objects.md:123).
StayingListed ==
    pc = "done" =>
        \A p \in Place : p[1] \in steady => (p \in listed \cup page <=> p \in Shown)

\* The listing of the clusters is of one catalogue: its pages hold what the
\* catalogue held at the last of them, all of it and nothing else
\* (catalog.go:49, docs/token-exchange.md:95).
OneCatalogue ==
    pc = "done" /\ tool.resume = "offset" => listed \cup page = Shown

\* The error of a stale cursor is only for an entry that went or came since
\* the listing began, never for one that stayed (docs/tools/daemon.md:50).
StaleOnlyIfChanged ==
    pc = "gone" => IF tool.resume = "offset" THEN steady # Keys
                                             ELSE cursor.place[1] \notin steady

\* A listing ends, whatever appears meanwhile: a truncated page is never empty
\* and a cursor never comes back (node_package.go:157).
EveryListingEnds == <>(pc \notin {"start", "more"})

\* What the tools say of their cursor: it is the value to pass to retrieve the
\* next page (node_disk.go:40, pool_volume.go:32), for the disks and the volumes.
CursorIsTakenBack == tool \in {ListNodeDisks, ListPoolVolumes} => pc # "unusable"
=============================================================================
