--------------------------- MODULE ListingsProofs ---------------------------
(***************************************************************************)
(* A listing misses nothing that stayed and lists nothing twice, for any   *)
(* keys, sizes and bounds.  The argument: while a listing goes on, what is *)
(* told is exactly what comes, of the keys that did not change, before the *)
(* place of the cursor (ToldToCursor); in the catalogue, it is the first   *)
(* entries, as many as the offset says, of the catalogue the cursor names  *)
(* (ToldToOffset), and the entries after an offset are those not told yet  *)
(* (RankPastPrefix).                                                       *)
(***************************************************************************)
EXTENDS Listings, TLAPS, FiniteSetTheorems

Told == listed \cup page

ByOffset == tool.resume = "offset"

\* What the tool shows of another collection.
ShownOf(c) ==
    {p \in Place : /\ p[2] < c[p[1]]
                   /\ tool.repeats # "kept" => p[2] = 0
                   /\ tool.unfit = "skipped" => p[1] \notin Unfit}

Prefix(places, all) ==
    /\ places \subseteq all
    /\ \A p \in places, q \in all : Before(q, p) => q \in places

\* Nothing is told before the first page.
NothingYet == pc = "start" => Told = {} /\ cursor = Nowhere

\* All that is told is up to the cursor, which is of an entry told; and what
\* did not change is told up to the cursor.
ToldToCursor ==
    pc = "more" /\ ~ByOffset =>
        /\ cursor.place \in Told
        /\ \A p \in Told : ~Before(cursor.place, p)
        /\ \A p \in Place : p[1] \in steady /\ ~Before(cursor.place, p)
                                => (p \in Told <=> p \in Shown)

\* What is told of the catalogue is its first entries, counted by the offset.
ToldToOffset ==
    ByOffset /\ Asked =>
        /\ cursor.offset = Cardinality(Told)
        /\ pc = "more" => /\ Prefix(Told, ShownOf(cursor.catalogue))
                          /\ steady = Keys => copies = cursor.catalogue

ListingInv ==
    /\ TypeOK /\ InOrderOnce
    /\ NothingYet /\ ToldToCursor /\ ToldToOffset
    /\ StayingListed /\ OneCatalogue /\ StaleOnlyIfChanged

-----------------------------------------------------------------------------
\* The places are totally ordered.
LEMMA PlaceOrder ==
    ASSUME NEW p \in Place, NEW q \in Place
    PROVE  /\ p[1] \in Keys /\ p[1] \in Nat \ {0} /\ p[2] \in Nat
           /\ Before(p, q) \/ Before(q, p) \/ p = q
           /\ ~(Before(p, q) /\ Before(q, p))
           /\ ~Before(p, p)
<1>1. /\ p = <<p[1], p[2]>> /\ q = <<q[1], q[2]>>
      /\ p[1] \in Keys /\ q[1] \in Keys /\ p[2] \in Nat /\ q[2] \in Nat
  BY BoundsAssumption DEF Place
<1>2. p[1] \in Nat \ {0} /\ q[1] \in Nat \ {0}
  BY <1>1, KeysAssumption
<1>3. Before(p, q) \/ Before(q, p) \/ p = q
  BY <1>1, <1>2 DEF Before
<1>4. ~(Before(p, q) /\ Before(q, p)) /\ ~Before(p, p)
  BY <1>1, <1>2 DEF Before
<1> QED BY <1>1, <1>2, <1>3, <1>4

LEMMA BeforeTransitive ==
    ASSUME NEW p \in Place, NEW q \in Place, NEW r \in Place,
           Before(p, q), Before(q, r) \/ q = r
    PROVE  Before(p, r)
<1>1. /\ p[1] \in Nat /\ q[1] \in Nat /\ r[1] \in Nat
      /\ p[2] \in Nat /\ q[2] \in Nat /\ r[2] \in Nat
  BY PlaceOrder
<1> QED BY <1>1 DEF Before

LEMMA PlacesFinite ==
    ASSUME NEW places \in SUBSET Place
    PROVE  IsFiniteSet(places) /\ Cardinality(places) \in Nat
<1>1. IsFiniteSet(0 .. MaxCopies - 1)
  BY BoundsAssumption, FS_Interval
<1>2. IsFiniteSet(Place)
  BY <1>1, KeysAssumption, FS_Product DEF Place
<1>3. IsFiniteSet(places)
  BY <1>2, FS_Subset
<1> QED BY <1>3, FS_CardinalityType

\* Past the first entries of an answer are those that are not among them.
LEMMA RankPastPrefix ==
    ASSUME NEW places, Prefix(places, Shown), NEW p \in Shown
    PROVE  Rank(p) > Cardinality(places) <=> p \notin places
<1> DEFINE upto == {q \in Shown : ~Before(p, q)}
<1>1. Shown \subseteq Place /\ places \subseteq Shown /\ upto \subseteq Place
  BY DEF Prefix, Shown
<1>2. /\ IsFiniteSet(upto) /\ IsFiniteSet(places)
      /\ Cardinality(upto) \in Nat /\ Cardinality(places) \in Nat
  <2>1. upto \in SUBSET Place /\ places \in SUBSET Place
    BY <1>1
  <2> QED BY <2>1, PlacesFinite
<1>3. CASE p \in places
  <2>1. upto \in SUBSET places
    BY <1>1, <1>3, PlaceOrder DEF Prefix
  <2>2. Cardinality(upto) <= Cardinality(places)
    BY <1>2, <2>1, FS_Subset
  <2> QED BY <1>2, <1>3, <2>2 DEF Rank
<1>4. CASE p \notin places
  <2>1. places \cup {p} \in SUBSET upto
    <3>1. ~Before(p, p)
      BY <1>1, PlaceOrder
    <3>2. ASSUME NEW q \in places PROVE ~Before(p, q)
      BY <1>4, <3>2 DEF Prefix
    <3> QED BY <1>1, <3>1, <3>2
  <2>2. Cardinality(places \cup {p}) = Cardinality(places) + 1
    BY <1>2, <1>4, FS_AddElement
  <2>3. Cardinality(places \cup {p}) <= Cardinality(upto)
    BY <1>2, <2>1, FS_Subset
  <2> QED BY <1>2, <1>4, <2>2, <2>3 DEF Rank
<1> QED BY <1>3, <1>4

\* The next page is cut from what comes after all that is told, and what did
\* not change is told or still to come.
LEMMA RestAfterTold ==
    ASSUME ListingInv, Asked, ~Stale
    PROVE  /\ Rest \subseteq Shown /\ Shown \subseteq Place /\ Told \subseteq Place
           /\ \A p \in Told, q \in Rest : Before(p, q)
           /\ \A p \in Shown : p[1] \in steady => p \in Told \cup Rest
           /\ \A p \in Told : p[1] \in steady => p \in Shown
           /\ ByOffset => Prefix(Told, Shown) /\ Rest = Shown \ Told
<1> USE DEF ListingInv
<1>1. Rest \subseteq Shown /\ Shown \subseteq Place /\ Told \subseteq Place
  BY DEF Rest, Shown, TypeOK, Told
<1>2. CASE pc = "start" /\ ~ByOffset
  <2>1. Told = {} /\ cursor.place = <<0, 0>>
    BY <1>2 DEF NothingYet, Nowhere
  <2>2. ASSUME NEW p \in Shown PROVE Before(cursor.place, p)
    <3>1. p[1] \in Nat \ {0}
      BY <1>1, PlaceOrder
    <3> QED BY <2>1, <3>1 DEF Before
  <2>3. Rest = Shown
    BY <1>2, <2>2 DEF Rest, ByOffset
  <2> QED BY <1>1, <1>2, <2>1, <2>3
<1>3. CASE pc = "more" /\ ~ByOffset
  <2>1. /\ cursor.place \in Told
        /\ \A p \in Told : ~Before(cursor.place, p)
        /\ \A p \in Place : p[1] \in steady /\ ~Before(cursor.place, p)
                                => (p \in Told <=> p \in Shown)
    BY <1>3 DEF ToldToCursor
  <2>2. Rest = {p \in Shown : Before(cursor.place, p)}
    BY <1>3 DEF Rest, ByOffset
  <2>3. ASSUME NEW p \in Told, NEW q \in Rest PROVE Before(p, q)
    <3>1. /\ p \in Place /\ q \in Place /\ cursor.place \in Place
          /\ ~Before(cursor.place, p) /\ Before(cursor.place, q)
      BY <1>1, <2>1, <2>2
    <3>2. Before(p, cursor.place) \/ p = cursor.place
      BY <3>1, PlaceOrder
    <3> QED BY <3>1, <3>2, BeforeTransitive
  <2>4. \A p \in Shown : p[1] \in steady => p \in Told \cup Rest
    BY <1>1, <2>1, <2>2
  <2>5. \A p \in Told : p[1] \in steady => p \in Shown
    BY <1>1, <2>1
  <2> QED BY <1>1, <1>3, <2>3, <2>4, <2>5
<1>4. CASE ByOffset
  <2>1. Prefix(Told, Shown)
    <3>1. CASE pc = "start"
      BY <3>1 DEF NothingYet, Prefix
    <3>2. CASE pc = "more"
      <4>1. copies = cursor.catalogue
        BY <1>4, <3>2 DEF Stale, ByOffset
      <4>2. Prefix(Told, ShownOf(cursor.catalogue))
        BY <1>4, <3>2 DEF ToldToOffset
      <4>3. Shown = ShownOf(copies)
        BY DEF Shown, ShownOf
      <4> QED BY <4>1, <4>2, <4>3
    <3> QED BY <3>1, <3>2 DEF Asked
  <2>2. cursor.offset = Cardinality(Told)
    BY <1>4 DEF ToldToOffset
  <2>3. Rest = {p \in Shown : Rank(p) > Cardinality(Told)}
    BY <1>4, <2>2 DEF Rest, ByOffset
  <2>4. \A p \in Shown : Rank(p) > Cardinality(Told) <=> p \notin Told
    BY <2>1, RankPastPrefix
  <2>5. Rest = Shown \ Told
    BY <2>3, <2>4
  <2>6. ASSUME NEW p \in Told, NEW q \in Rest PROVE Before(p, q)
    <3>1. p \in Place /\ q \in Place /\ p # q
      BY <1>1, <2>5
    <3>2. ~Before(q, p)
      BY <2>1, <2>5 DEF Prefix
    <3> QED BY <3>1, <3>2, PlaceOrder
  <2> QED BY <1>1, <1>4, <2>1, <2>5, <2>6 DEF Prefix
<1> QED BY <1>2, <1>3, <1>4 DEF Asked

-----------------------------------------------------------------------------
\* The next page, whatever its limit: the first entries of the rest.
LEMMA PageStep ==
    ASSUME ListingInv, ReadPage
    PROVE  ListingInv'
<1> USE DEF ListingInv
<1>1. /\ Asked /\ ~Stale
      /\ listed' = Told
      /\ UNCHANGED <<tool, copies, steady>>
  BY DEF ReadPage, Told
<1>2. PICK limit \in 1 .. MaxLimit, places \in SUBSET Rest :
        /\ IsPage(places, limit)
        /\ page' = places
        /\ IF places = Rest
           THEN pc' = "done" /\ UNCHANGED cursor
           ELSE /\ pc' = "more"
                /\ \E last \in places :
                      /\ \A p \in places \ {last} : Before(p, last)
                      /\ cursor' = CursorAt(last, cursor.offset + Cardinality(places))
  BY DEF ReadPage
<1>3. /\ Rest \subseteq Shown /\ Shown \subseteq Place /\ Told \subseteq Place
      /\ \A p \in Told, q \in Rest : Before(p, q)
      /\ \A p \in Shown : p[1] \in steady => p \in Told \cup Rest
      /\ \A p \in Told : p[1] \in steady => p \in Shown
      /\ ByOffset => Prefix(Told, Shown) /\ Rest = Shown \ Told
  BY <1>1, RestAfterTold
<1>4. places \subseteq Place /\ Cardinality(places) \in Nat
  <2>1. places \in SUBSET Place
    BY <1>3
  <2> QED BY <2>1, PlacesFinite
<1>5. /\ Told' = Told \cup places
      /\ Shown' = Shown
      /\ ByOffset' = ByOffset
      /\ \A c : ShownOf(c)' = ShownOf(c)
  BY <1>1, <1>2 DEF Told, Shown, ShownOf, ByOffset
<1>6. InOrderOnce'
  BY <1>1, <1>2, <1>3 DEF InOrderOnce
<1>7. CASE places = Rest
  <2>1. pc' = "done" /\ cursor' = cursor
    BY <1>2, <1>7
  <2>2. TypeOK'
    BY <1>1, <1>2, <1>3, <1>4, <2>1 DEF TypeOK
  <2>3. NothingYet' /\ ToldToCursor' /\ ToldToOffset' /\ StaleOnlyIfChanged'
    BY <2>1 DEF NothingYet, ToldToCursor, ToldToOffset, StaleOnlyIfChanged, Asked
  <2>4. StayingListed'
    BY <1>1, <1>3, <1>5, <1>7 DEF StayingListed, Told
  <2>5. OneCatalogue'
    BY <1>3, <1>5, <1>7 DEF OneCatalogue, Told, ByOffset, Prefix
  <2> QED BY <1>6, <2>2, <2>3, <2>4, <2>5
<1>8. CASE places # Rest
  <2>1. pc' = "more"
    BY <1>2, <1>8
  <2>2. PICK last \in places :
          /\ \A p \in places \ {last} : Before(p, last)
          /\ cursor' = CursorAt(last, cursor.offset + Cardinality(places))
    BY <1>2, <1>8
  <2>3. last \in Place /\ last \in Rest
    BY <1>4
  <2>4. TypeOK'
    <3>1. last \in (Keys \cup {0}) \X Nat
      BY <2>3, BoundsAssumption DEF Place
    <3>2. copies \in [Keys -> Nat] /\ cursor.offset + Cardinality(places) \in Nat
      BY <1>4, BoundsAssumption DEF TypeOK, CursorType
    <3>3. CursorAt(last, cursor.offset + Cardinality(places)) \in CursorType
      BY <3>1, <3>2 DEF CursorAt, Nowhere, CursorType
    <3>4. cursor'.place \in Place \cup {<<0, 0>>}
      BY <2>2, <2>3 DEF CursorAt, Nowhere
    <3> QED BY <1>1, <1>2, <1>3, <1>4, <2>1, <2>2, <3>3, <3>4 DEF TypeOK
  <2>5. ASSUME NEW p \in Rest, ~Before(last, p) PROVE p \in places
    <3>1. Before(p, last) \/ p = last
      BY <1>3, <2>3, <2>5, PlaceOrder
    <3> QED BY <1>2, <3>1 DEF IsPage
  <2>6. ToldToCursor'
    <3> SUFFICES ASSUME ~ByOffset
                 PROVE  /\ cursor'.place \in Told'
                        /\ \A p \in Told' : ~Before(cursor'.place, p)
                        /\ \A p \in Place : p[1] \in steady' /\ ~Before(cursor'.place, p)
                                              => (p \in Told' <=> p \in Shown')
      BY <1>5 DEF ToldToCursor
    <3>1. cursor'.place = last
      BY <2>2 DEF CursorAt, Nowhere, ByOffset
    <3>2. ASSUME NEW p \in Told \cup places PROVE ~Before(last, p)
      <4>1. p \in Place /\ (p = last \/ Before(p, last))
        BY <1>3, <1>4, <2>2, <2>3, <3>2
      <4> QED BY <2>3, <4>1, PlaceOrder
    <3>3. ASSUME NEW p \in Place, p[1] \in steady, ~Before(last, p)
          PROVE  p \in Told \cup places <=> p \in Shown
      BY <1>3, <2>5, <3>3
    <3> QED BY <1>1, <1>5, <3>1, <3>2, <3>3
  <2>7. ToldToOffset'
    <3> SUFFICES ASSUME ByOffset
                 PROVE  /\ cursor'.offset = Cardinality(Told')
                        /\ Prefix(Told, ShownOf(cursor.catalogue))'
                        /\ copies' = cursor'.catalogue
      BY <1>5 DEF ToldToOffset
    <3>1. cursor'.offset = cursor.offset + Cardinality(places) /\ cursor'.catalogue = copies
      BY <2>2 DEF CursorAt, Nowhere, ByOffset
    <3>2. cursor.offset = Cardinality(Told)
      BY <1>1 DEF ToldToOffset
    <3>3. Told \cap places = {}
      BY <1>3
    <3>4. Cardinality(Told \cup places) = Cardinality(Told) + Cardinality(places)
      <4>1. IsFiniteSet(Told) /\ IsFiniteSet(places) /\ Cardinality(Told) \in Nat
        <5>1. Told \in SUBSET Place /\ places \in SUBSET Place
          BY <1>3, <1>4
        <5> QED BY <5>1, PlacesFinite
      <4> QED BY <1>4, <3>3, <4>1, FS_Union, FS_EmptySet
    <3>5. Prefix(Told \cup places, Shown)
      <4>1. Told \cup places \subseteq Shown
        BY <1>3 DEF Prefix
      <4>2. ASSUME NEW p \in Told \cup places, NEW q \in Shown, Before(q, p)
            PROVE  q \in Told \cup places
        <5>1. CASE p \in Told
          BY <1>3, <4>2, <5>1 DEF Prefix
        <5>2. CASE p \in places
          BY <1>2, <1>3, <4>2, <5>2 DEF IsPage
        <5> QED BY <5>1, <5>2
      <4> QED BY <4>1, <4>2 DEF Prefix
    <3>6. ShownOf(cursor.catalogue)' = Shown
      BY <1>1, <3>1 DEF ShownOf, Shown
    <3>7. Prefix(Told, ShownOf(cursor.catalogue))'
      BY <1>5, <3>5, <3>6 DEF Prefix, Before
    <3> QED BY <1>1, <1>5, <3>1, <3>2, <3>4, <3>7
  <2>8. NothingYet' /\ StayingListed' /\ OneCatalogue' /\ StaleOnlyIfChanged'
    BY <2>1 DEF NothingYet, StayingListed, OneCatalogue, StaleOnlyIfChanged
  <2> QED BY <1>6, <2>4, <2>6, <2>7, <2>8
<1> QED BY <1>7, <1>8

\* A listing that ends without a page keeps what it told.
LEMMA EndsStep ==
    ASSUME ListingInv, NEW how \in {"error", "gone", "unusable"}, Ends(how),
           how = "gone" => StaleOnlyIfChanged'
    PROVE  ListingInv'
<1> USE DEF ListingInv, Ends
<1>1. TypeOK' /\ InOrderOnce'
  BY DEF TypeOK, InOrderOnce
<1>2. NothingYet' /\ ToldToCursor' /\ ToldToOffset'
  BY DEF NothingYet, ToldToCursor, ToldToOffset, Asked
<1>3. StayingListed' /\ OneCatalogue' /\ StaleOnlyIfChanged'
  BY DEF StayingListed, OneCatalogue, StaleOnlyIfChanged
<1> QED BY <1>1, <1>2, <1>3

\* The place of a cursor whose key did not change is still shown, and the
\* catalogue is the same as long as no cluster changed.
LEMMA CursorGoneStep ==
    ASSUME ListingInv, CursorGone
    PROVE  ListingInv'
<1> USE DEF ListingInv
<1>1. Stale /\ pc = "more" /\ Ends("gone")
  BY DEF CursorGone, Stale
<1>2. CASE ByOffset
  <2>1. ASSUME steady = Keys PROVE FALSE
    <3>1. /\ cursor.offset = Cardinality(Told) /\ copies = cursor.catalogue
          /\ Prefix(Told, ShownOf(cursor.catalogue))
      BY <1>1, <1>2, <2>1 DEF ToldToOffset, Asked
    <3>2. Cardinality(Told) > Cardinality(Shown)
      BY <1>1, <1>2, <3>1 DEF Stale, ByOffset
    <3>3. Shown \in SUBSET Place /\ Told \in SUBSET Shown
      BY <3>1 DEF Prefix, ShownOf, Shown
    <3>4. IsFiniteSet(Shown)
      BY <3>3, PlacesFinite
    <3>5. Cardinality(Told) <= Cardinality(Shown)
      BY <3>3, <3>4, FS_Subset
    <3>6. Cardinality(Told) \in Nat /\ Cardinality(Shown) \in Nat
      <4>1. Told \in SUBSET Place
        BY <3>3
      <4> QED BY <3>3, <4>1, PlacesFinite
    <3> QED BY <3>2, <3>5, <3>6
  <2>2. StaleOnlyIfChanged'
    BY <1>1, <1>2, <2>1 DEF StaleOnlyIfChanged, Ends, ByOffset
  <2> QED BY <1>1, <2>2, EndsStep
<1>3. CASE ~ByOffset
  <2>1. cursor.place \in Told /\ cursor.place \notin Shown /\ cursor.place \in Place
    BY <1>1, <1>3 DEF ToldToCursor, Stale, ByOffset, TypeOK, Told
  <2>2. ~Before(cursor.place, cursor.place)
    BY <2>1, PlaceOrder
  <2>3. cursor.place[1] \notin steady
    BY <1>1, <1>3, <2>1, <2>2 DEF ToldToCursor
  <2>4. StaleOnlyIfChanged'
    BY <1>1, <1>3, <2>3 DEF StaleOnlyIfChanged, Ends, ByOffset
  <2> QED BY <1>1, <2>4, EndsStep
<1> QED BY <1>2, <1>3

\* An entry that appears or leaves changes what is shown of its key alone, and
\* that key is no longer one that stayed.
LEMMA ChangeStep ==
    ASSUME ListingInv, NEW k \in Keys, NEW count \in 0 .. MaxCopies, Changes(k, count)
    PROVE  ListingInv'
<1> USE DEF ListingInv
<1>1. /\ pc = "more" /\ pc' = "more"
      /\ copies' = [copies EXCEPT ![k] = count]
      /\ steady' = steady \ {k}
      /\ UNCHANGED <<tool, cursor, listed, page>>
  BY DEF Changes
<1>2. TypeOK' /\ InOrderOnce'
  <2>1. copies' \in [Keys -> 0 .. MaxCopies]
    BY <1>1 DEF TypeOK
  <2> QED BY <1>1, <2>1 DEF TypeOK, InOrderOnce
<1>3. \A p \in Place : p[1] \in steady' => (p \in Shown' <=> p \in Shown)
  <2> SUFFICES ASSUME NEW p \in Place, p[1] \in steady'
               PROVE  p \in Shown' <=> p \in Shown
    OBVIOUS
  <2>1. p[1] \in Keys /\ p[1] # k
    BY <1>1, PlaceOrder
  <2>2. copies'[p[1]] = copies[p[1]]
    BY <1>1, <2>1 DEF TypeOK
  <2> QED BY <1>1, <2>2 DEF Shown
<1>4. ToldToCursor'
  BY <1>1, <1>3 DEF ToldToCursor, ByOffset, Told
<1>5. ToldToOffset'
  <2>1. ShownOf(cursor.catalogue)' = ShownOf(cursor.catalogue)
    BY <1>1 DEF ShownOf
  <2>2. steady' # Keys
    BY <1>1
  <2>3. ByOffset => /\ cursor'.offset = Cardinality(Told')
                    /\ Prefix(Told, ShownOf(cursor.catalogue))'
    BY <1>1, <2>1 DEF ToldToOffset, ByOffset, Told, Asked, Prefix, Before
  <2> QED BY <1>1, <2>2, <2>3 DEF ToldToOffset, ByOffset
<1>6. NothingYet' /\ StayingListed' /\ OneCatalogue' /\ StaleOnlyIfChanged'
  BY <1>1 DEF NothingYet, StayingListed, OneCatalogue, StaleOnlyIfChanged
<1> QED BY <1>2, <1>4, <1>5, <1>6

-----------------------------------------------------------------------------
LEMMA ListingInvInit == Init => ListingInv
<1> SUFFICES ASSUME Init PROVE ListingInv
  OBVIOUS
<1>1. TypeOK
  <2>1. Nowhere \in CursorType
    BY DEF Nowhere, CursorType
  <2> QED BY <2>1 DEF Init, TypeOK, Nowhere
<1>2. InOrderOnce /\ NothingYet /\ ToldToCursor
  BY DEF Init, InOrderOnce, NothingYet, ToldToCursor, Told
<1>3. ToldToOffset
  BY FS_EmptySet DEF Init, ToldToOffset, Told, Nowhere
<1>4. StayingListed /\ OneCatalogue /\ StaleOnlyIfChanged
  BY DEF Init, StayingListed, OneCatalogue, StaleOnlyIfChanged
<1> QED BY <1>1, <1>2, <1>3, <1>4 DEF ListingInv

LEMMA ListingInvStep == ListingInv /\ [Next]_vars => ListingInv'
<1> SUFFICES ASSUME ListingInv, [Next]_vars PROVE ListingInv'
  OBVIOUS
<1>1. CASE RefuseCursor
  BY <1>1, EndsStep DEF RefuseCursor
<1>2. CASE ReadFails
  BY <1>2, EndsStep DEF ReadFails
<1>3. CASE RefuseAnswer
  BY <1>3, EndsStep DEF RefuseAnswer
<1>4. CASE CursorGone
  BY <1>4, CursorGoneStep
<1>5. CASE ReadPage
  BY <1>5, PageStep
<1>6. ASSUME NEW k \in Keys, Appears(k) PROVE ListingInv'
  <2>1. copies[k] \in 0 .. MaxCopies
    BY DEF ListingInv, TypeOK
  <2>2. copies[k] + 1 \in 0 .. MaxCopies
    BY <1>6, <2>1, BoundsAssumption DEF Appears
  <2> QED BY <1>6, <2>2, ChangeStep DEF Appears
<1>7. ASSUME NEW k \in Keys, Leaves(k) PROVE ListingInv'
  <2>1. copies[k] \in 0 .. MaxCopies
    BY DEF ListingInv, TypeOK
  <2>2. copies[k] - 1 \in 0 .. MaxCopies
    BY <1>7, <2>1, BoundsAssumption DEF Leaves
  <2> QED BY <1>7, <2>2, ChangeStep DEF Leaves
<1>8. CASE RefusePage
  BY <1>8, EndsStep DEF RefusePage
<1>9. CASE UNCHANGED vars
  BY <1>9 DEF vars, ListingInv, TypeOK, InOrderOnce, NothingYet, ToldToCursor,
      ToldToOffset, StayingListed, OneCatalogue, StaleOnlyIfChanged, Told,
      ByOffset, Asked, Shown, ShownOf, Prefix, Before
<1> QED BY <1>1, <1>2, <1>3, <1>4, <1>5, <1>6, <1>7, <1>8, <1>9 DEF Next, Answer

\* The invariant that carries all of them holds of every listing.
LEMMA ListingInvariant == Spec => []ListingInv
BY ListingInvInit, ListingInvStep, PTL DEF Spec

\* Every cursor a listing is given names an entry there can be.
THEOREM TypeCorrect == Spec => []TypeOK
<1>1. ListingInv => TypeOK
  BY DEF ListingInv
<1> QED BY <1>1, ListingInvariant, PTL

\* No entry is listed twice and the pages are in order, whatever changes
\* between them (resource.go:192, node_package.go:139).
THEOREM PagesInOrder == Spec => []InOrderOnce
<1>1. ListingInv => InOrderOnce
  BY DEF ListingInv
<1> QED BY <1>1, ListingInvariant, PTL

\* A listing that runs to its end misses no copy of a key that did not change
\* (docs/tools/objects.md:123).
THEOREM NothingStayingMissed == Spec => []StayingListed
<1>1. ListingInv => StayingListed
  BY DEF ListingInv
<1> QED BY <1>1, ListingInvariant, PTL

\* The listing of the clusters is of one catalogue, whole (catalog.go:49).
THEOREM CatalogueWhole == Spec => []OneCatalogue
<1>1. ListingInv => OneCatalogue
  BY DEF ListingInv
<1> QED BY <1>1, ListingInvariant, PTL

\* A cursor is stale only because something changed since the first page
\* (docs/tools/daemon.md:50).
THEOREM StaleForAReason == Spec => []StaleOnlyIfChanged
<1>1. ListingInv => StaleOnlyIfChanged
  BY DEF ListingInv
<1> QED BY <1>1, ListingInvariant, PTL
=============================================================================
