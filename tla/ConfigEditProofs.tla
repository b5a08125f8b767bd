-------------------------- MODULE ConfigEditProofs --------------------------
(***************************************************************************)
(* What an update tells of its write, for any operations, configurations   *)
(* and times, and what a preview tells of an update.                       *)
(* The first is on the control alone: where a call is, what the daemon did *)
(* of its request and what it told (ToldAsDone), and the seconds of the    *)
(* request (TimesBounded); what the operations make of a configuration     *)
(* matters only by being another one or not.                               *)
(* The second is on the operators: as the operations are told one by one,  *)
(* what is told of them follows the configuration they leave (Follows,     *)
(* ToldFollows); then on the calls: what a preview tells is of the         *)
(* configuration an update of the same version is done on (PreviewsHold).  *)
(***************************************************************************)
EXTENDS ConfigEdit, FiniteSetTheorems, TLAPS

-----------------------------------------------------------------------------
(* Induction.  The provers take no fact about an operator: what a fact holds  *)
(* of is a set here, and the step of a recursive definition a function.       *)

\* A set that has 0, and one more than each number it has, has all numbers:
\* were one left out, those under it would be as many as all of them but 0.
LEMMA Induction ==
    ASSUME NEW S, 0 \in S, \A n \in Nat : n \in S => n + 1 \in S
    PROVE  Nat \subseteq S
<1> SUFFICES ASSUME NEW m \in Nat, m \notin S
             PROVE  FALSE
  OBVIOUS
<1> DEFINE T == {n \in 0 .. m : n \in S}
<1> DEFINE more == [n \in T |-> n + 1]
<1>1. IsFiniteSet(0 .. m)
  BY FS_Interval
<1>2. IsFiniteSet(T) /\ 0 \in T
  BY <1>1, FS_Subset
<1>3. IsFiniteSet(T \ {0}) /\ Cardinality(T \ {0}) = Cardinality(T) - 1
  <2> HIDE DEF T
  <2> QED BY <1>2, FS_RemoveElement
<1>4. Cardinality(T \ {0}) < Cardinality(T)
  <2>1. Cardinality(T) \in Nat
    BY <1>2, FS_CardinalityType
  <2> QED BY <1>3, <2>1
<1>5. more \in [T -> T \ {0}]
  <2>1. ASSUME NEW n \in T PROVE n + 1 \in T \ {0}
    <3>1. n # m /\ n \in Nat /\ n <= m
      OBVIOUS
    <3> QED BY <3>1
  <2> QED BY <2>1
<1> HIDE DEF T
<1>6. \E x, y \in T : x # y /\ more[x] = more[y]
  <2> HIDE DEF more
  <2> QED BY <1>2, <1>3, <1>4, <1>5, FS_PigeonHole
<1>7. PICK x \in T, y \in T : x # y /\ more[x] = more[y]
  BY <1>6
<1>8. x \in Nat /\ y \in Nat
  BY DEF T
<1> QED BY <1>7, <1>8

LEMMA InductionTo ==
    ASSUME NEW S, NEW N \in Nat, 0 \in S, \A n \in 1 .. N : n - 1 \in S => n \in S
    PROVE  0 .. N \subseteq S
<1> DEFINE T == {n \in Nat : n <= N => n \in S}
<1>1. 0 \in T
  OBVIOUS
<1>2. ASSUME NEW n \in Nat, n \in T PROVE n + 1 \in T
  <2>1. CASE n + 1 <= N
    <3>1. n + 1 \in 1 .. N /\ (n + 1) - 1 = n /\ n <= N
      BY <2>1
    <3>2. n \in S
      BY <1>2, <3>1
    <3>3. n + 1 \in S
      BY <3>1, <3>2
    <3> QED BY <3>3
  <2>2. CASE ~(n + 1 <= N)
    BY <2>2
  <2> QED BY <2>1, <2>2
<1> HIDE DEF T
<1>3. Nat \subseteq T
  BY <1>1, <1>2, Induction
<1> QED BY <1>3 DEF T

\* A function that starts at a base and takes a step at each number.
Steps(f, X, N, base, G) ==
    /\ f \in [0 .. N -> X]
    /\ \A n \in 0 .. N : f[n] = IF n = 0 THEN base ELSE G[<<f[n - 1], n>>]

\* There is one.
LEMMA Recursion ==
    ASSUME NEW X, NEW base \in X, NEW N \in Nat, NEW G \in [X \X (1 .. N) -> X]
    PROVE  \E f : Steps(f, X, N, base, G)
<1> DEFINE Def(f, m) == /\ f \in [0 .. N -> X]
                        /\ f[0] = base
                        /\ \A n \in 1 .. N : n <= m => f[n] = G[<<f[n - 1], n>>]
<1> DEFINE S == {m \in Nat : \E f \in [0 .. N -> X] : Def(f, m)}
<1>1. 0 \in S
  <2>1. Def([n \in 0 .. N |-> base], 0)
    OBVIOUS
  <2> QED BY <2>1
<1>2. ASSUME NEW m \in Nat, m \in S PROVE m + 1 \in S
  <2>1. PICK f \in [0 .. N -> X] : Def(f, m)
    BY <1>2
  <2>2. CASE m + 1 \in 1 .. N
    <3> DEFINE g == [f EXCEPT ![m + 1] = G[<<f[m], m + 1>>]]
    <3>1. f[m] \in X /\ <<f[m], m + 1>> \in X \X (1 .. N)
      BY <2>1, <2>2
    <3>2. G[<<f[m], m + 1>>] \in X
      BY <3>1
    <3>3. g \in [0 .. N -> X]
      BY <2>1, <3>2
    <3>4. g[0] = base
      BY <2>1
    <3>5. ASSUME NEW n \in 1 .. N, n <= m + 1 PROVE g[n] = G[<<g[n - 1], n>>]
      <4>1. n - 1 \in 0 .. N /\ n - 1 # m + 1
        BY <3>5
      <4>2. g[n - 1] = f[n - 1]
        BY <4>1
      <4>3. CASE n = m + 1
        <5>1. n - 1 = m
          BY <4>3
        <5> QED BY <4>2, <4>3, <5>1
      <4>4. CASE n # m + 1
        <5>1. n <= m /\ g[n] = f[n]
          BY <3>5, <4>4
        <5> QED BY <2>1, <4>2, <5>1
      <4> QED BY <4>3, <4>4
    <3> HIDE DEF g
    <3>6. Def(g, m + 1)
      BY <3>3, <3>4, <3>5
    <3> QED BY <3>3, <3>6
  <2>3. CASE m + 1 \notin 1 .. N
    <3>1. Def(f, m + 1)
      BY <2>1, <2>3
    <3> QED BY <3>1
  <2> QED BY <2>2, <2>3
<1> HIDE DEF S
<1>3. N \in S
  BY <1>1, <1>2, Induction
<1>4. PICK f \in [0 .. N -> X] : Def(f, N)
  BY <1>3 DEF S
<1>5. Steps(f, X, N, base, G)
  BY <1>4 DEF Steps
<1> QED BY <1>5

-----------------------------------------------------------------------------
(* What the operations make of a configuration, and what is told of them.     *)

\* The functions on some of the keys.
Partial(V) == UNION {[D -> V] : D \in SUBSET Keys}

IsUpdate(upd) == upd.unsets \in Seq(Keys) /\ upd.sets \in Seq(Operations)

LEMMA Configs == \A c : IsConfig(c) <=> c \in Partial(Seq(Words))
  BY DEF IsConfig, Partial

LEMMA PutTyped ==
    ASSUME NEW V, NEW f \in Partial(V), NEW k \in Keys, NEW v \in V
    PROVE  Put(f, k, v) \in Partial(V)
<1>1. DOMAIN f \subseteq Keys /\ f \in [DOMAIN f -> V]
  BY DEF Partial
<1>2. Put(f, k, v) \in [DOMAIN f \cup {k} -> V]
  BY <1>1 DEF Put
<1>3. DOMAIN f \cup {k} \in SUBSET Keys
  BY <1>1
<1> QED BY <1>2, <1>3 DEF Partial

LEMMA ValueTyped ==
    ASSUME NEW c \in Partial(Seq(Words)), NEW k
    PROVE  Value(c, k) \in Seq(Words)
<1>1. c \in [DOMAIN c -> Seq(Words)]
  BY DEF Partial
<1>2. <<>> \in Seq(Words)
  OBVIOUS
<1> QED BY <1>1, <1>2 DEF Value

\* A key put has its value, another the one it had.
LEMMA ValueOfPut ==
    ASSUME NEW c, NEW k, NEW v, NEW j
    PROVE  Value(Put(c, k, v), j) = IF j = k THEN v ELSE Value(c, j)
  BY DEF Value, Put

LEMMA WithoutTyped ==
    ASSUME NEW words \in Seq(Words), NEW word
    PROVE  Without(words, word) \in Seq(Words)
<1> DEFINE X == Seq(Words)
           N == Len(words)
           Base == <<>>
           Step(before, n) == IF words[n] = word THEN before ELSE Append(before, words[n])
           G == [z \in X \X (1 .. N) |-> Step(z[1], z[2])]
<1>1. N \in Nat /\ Base \in X
  OBVIOUS
<1>2. ASSUME NEW before \in X, NEW n \in 1 .. N PROVE Step(before, n) \in X
  OBVIOUS
<1> HIDE DEF X, N, Base, Step
<1>3. G \in [X \X (1 .. N) -> X]
  BY <1>2
<1>4. ASSUME NEW before \in X, NEW n \in 1 .. N PROVE G[<<before, n>>] = Step(before, n)
  OBVIOUS
<1> HIDE DEF G
<1>5. PICK f : Steps(f, X, N, Base, G)
  BY <1>1, <1>3, Recursion
<1>6. ASSUME NEW n \in 0 .. N PROVE f[n] = IF n = 0 THEN Base ELSE Step(f[n - 1], n)
  <2>1. f[n] = IF n = 0 THEN Base ELSE G[<<f[n - 1], n>>]
    BY <1>5 DEF Steps
  <2>2. CASE n # 0
    <3>1. n \in 1 .. N /\ f[n - 1] \in X
      BY <1>1, <1>5, <2>2 DEF Steps
    <3>2. G[<<f[n - 1], n>>] = Step(f[n - 1], n)
      BY <1>4, <3>1
    <3> QED BY <2>1, <2>2, <3>2
  <2> QED BY <2>1, <2>2
<1> DEFINE kept[n \in 0 .. N] == IF n = 0 THEN Base ELSE Step(kept[n - 1], n)
<1>7. f = [n \in 0 .. N |-> IF n = 0 THEN Base ELSE Step(f[n - 1], n)]
  BY <1>5, <1>6 DEF Steps
<1>8. kept = [n \in 0 .. N |-> IF n = 0 THEN Base ELSE Step(kept[n - 1], n)]
  BY <1>7
<1> HIDE DEF kept
<1> DEFINE S == {n \in 0 .. N : kept[n] \in X}
<1>9. 0 \in S
  BY <1>1, <1>8
<1>10. ASSUME NEW n \in 1 .. N, n - 1 \in S PROVE n \in S
  <2>1. kept[n] = Step(kept[n - 1], n)
    BY <1>1, <1>8
  <2> QED BY <1>2, <1>10, <2>1
<1> HIDE DEF S
<1>11. 0 .. N \subseteq S
  BY <1>1, <1>9, <1>10, InductionTo
<1>12. N \in S
  BY <1>1, <1>11
<1> QED BY <1>12 DEF S, X, N, Without, kept, Step, Base

LEMMA AppliedTyped ==
    ASSUME NEW words \in Seq(Words), NEW operation \in Operations
    PROVE  Applied(words, operation) \in Seq(Words)
<1> DEFINE value == operation.value
<1>1. /\ value \in Seq(Words) /\ operation.index \in Nat
      /\ operation.op \in {"=", "+=", "-=", "|=", "^=", "insert"}
  BY DEF Operations
<1>2. words \o value \in Seq(Words) /\ Without(words, value[1]) \in Seq(Words)
  BY <1>1, WithoutTyped
<1>3. ASSUME operation.op = "insert", value # <<>>, InRange(words, operation)
      PROVE  SubSeq(words, 1, operation.index) \o value
                 \o SubSeq(words, operation.index + 1, Len(words)) \in Seq(Words)
  <2>1. operation.index <= Len(words) /\ Len(words) \in Nat
    BY <1>3 DEF InRange
  <2>2. SubSeq(words, 1, operation.index) \in Seq(Words)
    BY <1>1, <2>1
  <2>3. SubSeq(words, operation.index + 1, Len(words)) \in Seq(Words)
    BY <1>1, <2>1
  <2> QED BY <1>1, <2>2, <2>3
<1> QED BY <1>1, <1>2, <1>3 DEF Applied

LEMMA AfterSetTyped ==
    ASSUME NEW left \in Partial(Seq(Words)), NEW operation \in Operations
    PROVE  AfterSet(left, operation) \in Partial(Seq(Words))
<1>1. operation.key \in Keys
  BY DEF Operations
<1>2. Applied(Value(left, operation.key), operation) \in Seq(Words)
  BY ValueTyped, AppliedTyped
<1> QED BY <1>1, <1>2, PutTyped DEF AfterSet

LEMMA KeptTyped ==
    ASSUME NEW cfg \in Partial(Seq(Words)), NEW upd
    PROVE  Kept(cfg, upd) \in Partial(Seq(Words))
<1> DEFINE D == {k \in DOMAIN cfg : SectionOf[k] \notin upd.deletes /\ ~Contains(upd.unsets, k)}
<1>1. DOMAIN cfg \subseteq Keys /\ cfg \in [DOMAIN cfg -> Seq(Words)]
  BY DEF Partial
<1>2. Kept(cfg, upd) \in [D -> Seq(Words)] /\ D \in SUBSET Keys
  BY <1>1 DEF Kept
<1> QED BY <1>2 DEF Partial

LEMMA AfterSetsSteps ==
    ASSUME NEW cfg \in Partial(Seq(Words)), NEW upd, IsUpdate(upd)
    PROVE  /\ AfterSets(cfg, upd)[0] = Kept(cfg, upd)
           /\ \A n \in 1 .. Len(upd.sets) : AfterSets(cfg, upd)[n] = AfterSet(AfterSets(cfg, upd)[n - 1], upd.sets[n])
           /\ \A n \in 0 .. Len(upd.sets) : AfterSets(cfg, upd)[n] \in Partial(Seq(Words))
<1> DEFINE X == Partial(Seq(Words))
           N == Len(upd.sets)
           Base == Kept(cfg, upd)
           Step(before, n) == AfterSet(before, upd.sets[n])
           G == [z \in X \X (1 .. N) |-> Step(z[1], z[2])]
<1>1. N \in Nat /\ Base \in X
  BY KeptTyped DEF IsUpdate
<1>2. ASSUME NEW before \in X, NEW n \in 1 .. N PROVE Step(before, n) \in X
  BY AfterSetTyped DEF IsUpdate
<1> HIDE DEF X, N, Base, Step
<1>3. G \in [X \X (1 .. N) -> X]
  BY <1>2
<1>4. ASSUME NEW before \in X, NEW n \in 1 .. N PROVE G[<<before, n>>] = Step(before, n)
  OBVIOUS
<1> HIDE DEF G
<1>5. PICK f : Steps(f, X, N, Base, G)
  BY <1>1, <1>3, Recursion
<1>6. ASSUME NEW n \in 0 .. N PROVE f[n] = IF n = 0 THEN Base ELSE Step(f[n - 1], n)
  <2>1. f[n] = IF n = 0 THEN Base ELSE G[<<f[n - 1], n>>]
    BY <1>5 DEF Steps
  <2>2. CASE n # 0
    <3>1. n \in 1 .. N /\ f[n - 1] \in X
      BY <1>1, <1>5, <2>2 DEF Steps
    <3>2. G[<<f[n - 1], n>>] = Step(f[n - 1], n)
      BY <1>4, <3>1
    <3> QED BY <2>1, <2>2, <3>2
  <2> QED BY <2>1, <2>2
<1> DEFINE left[n \in 0 .. N] == IF n = 0 THEN Base ELSE Step(left[n - 1], n)
<1>7. f = [n \in 0 .. N |-> IF n = 0 THEN Base ELSE Step(f[n - 1], n)]
  BY <1>5, <1>6 DEF Steps
<1>8. left = [n \in 0 .. N |-> IF n = 0 THEN Base ELSE Step(left[n - 1], n)]
  BY <1>7
<1>9. left = AfterSets(cfg, upd)
  BY DEF AfterSets, N, Base, Step
<1> HIDE DEF left
<1> DEFINE S == {n \in 0 .. N : left[n] \in X}
<1>10. 0 \in S
  BY <1>1, <1>8
<1>11. ASSUME NEW n \in 1 .. N PROVE left[n] = Step(left[n - 1], n)
  BY <1>1, <1>8
<1>12. ASSUME NEW n \in 1 .. N, n - 1 \in S PROVE n \in S
  BY <1>2, <1>11, <1>12
<1> HIDE DEF S
<1>13. 0 .. N \subseteq S
  BY <1>1, <1>10, <1>12, InductionTo
<1>14. left[0] = Base /\ \A n \in 0 .. N : left[n] \in X
  BY <1>1, <1>8, <1>13 DEF S
<1> QED BY <1>9, <1>11, <1>14 DEF X, N, Base, Step

-----------------------------------------------------------------------------
(* The room of a read.                                                     *)

LEMMA TakenBounds ==
    ASSUME NEW words \in Seq(Words), NEW room \in Nat
    PROVE  /\ Alone(words) \in Nat /\ Taken(words, room) \in Nat /\ Len(words) \in Nat
           /\ Taken(words, room) <= room /\ Taken(words, room) <= Len(words)
           /\ Taken(words, room) = IF Alone(words) < room THEN Alone(words) ELSE room
           /\ Taken(words, room) < Len(words) =>
                 Len(words) > MaxWords \/ (room < Alone(words) /\ Alone(words) = Len(words))
<1>1. Len(words) \in Nat /\ MaxWords \in Nat
  BY KeysAssumption
<1> QED BY <1>1 DEF Taken, Alone

LEMMA RoomsSteps ==
    ASSUME NEW upd, NEW cfg \in Partial(Seq(Words))
    PROVE  /\ Rooms(upd, cfg)[0] = MaxRead
           /\ \A n \in 1 .. Len(Order) :
                 Rooms(upd, cfg)[n] =
                    IF Order[n] \in Named(upd)
                    THEN Rooms(upd, cfg)[n - 1] - Taken(Value(cfg, Order[n]), Rooms(upd, cfg)[n - 1])
                    ELSE Rooms(upd, cfg)[n - 1]
           /\ \A n \in 0 .. Len(Order) : Rooms(upd, cfg)[n] \in Nat
<1> DEFINE X == Nat
           N == Len(Order)
           Base == MaxRead
           Step(before, n) == IF Order[n] \in Named(upd)
                              THEN before - Taken(Value(cfg, Order[n]), before) ELSE before
           G == [z \in X \X (1 .. N) |-> Step(z[1], z[2])]
<1>1. N \in Nat /\ Base \in X
  BY KeysAssumption
<1>2. ASSUME NEW before \in X, NEW n \in 1 .. N PROVE Step(before, n) \in X
  <2>1. Value(cfg, Order[n]) \in Seq(Words)
    BY ValueTyped
  <2>2. Taken(Value(cfg, Order[n]), before) \in Nat /\ Taken(Value(cfg, Order[n]), before) <= before
    BY <2>1, TakenBounds
  <2> QED BY <2>2
<1> HIDE DEF X, N, Base, Step
<1>3. G \in [X \X (1 .. N) -> X]
  BY <1>2
<1>4. ASSUME NEW before \in X, NEW n \in 1 .. N PROVE G[<<before, n>>] = Step(before, n)
  OBVIOUS
<1> HIDE DEF G
<1>5. PICK f : Steps(f, X, N, Base, G)
  BY <1>1, <1>3, Recursion
<1>6. ASSUME NEW n \in 0 .. N PROVE f[n] = IF n = 0 THEN Base ELSE Step(f[n - 1], n)
  <2>1. f[n] = IF n = 0 THEN Base ELSE G[<<f[n - 1], n>>]
    BY <1>5 DEF Steps
  <2>2. CASE n # 0
    <3>1. n \in 1 .. N /\ f[n - 1] \in X
      BY <1>1, <1>5, <2>2 DEF Steps
    <3>2. G[<<f[n - 1], n>>] = Step(f[n - 1], n)
      BY <1>4, <3>1
    <3> QED BY <2>1, <2>2, <3>2
  <2> QED BY <2>1, <2>2
<1> DEFINE left[n \in 0 .. N] == IF n = 0 THEN Base ELSE Step(left[n - 1], n)
<1>7. f = [n \in 0 .. N |-> IF n = 0 THEN Base ELSE Step(f[n - 1], n)]
  BY <1>5, <1>6 DEF Steps
<1>8. left = [n \in 0 .. N |-> IF n = 0 THEN Base ELSE Step(left[n - 1], n)]
  BY <1>7
<1>9. left = Rooms(upd, cfg)
  BY DEF Rooms, N, Base, Step
<1> HIDE DEF left
<1> DEFINE S == {n \in 0 .. N : left[n] \in X}
<1>10. 0 \in S
  BY <1>1, <1>8
<1>11. ASSUME NEW n \in 1 .. N PROVE left[n] = Step(left[n - 1], n)
  BY <1>1, <1>8
<1>12. ASSUME NEW n \in 1 .. N, n - 1 \in S PROVE n \in S
  BY <1>2, <1>11, <1>12
<1> HIDE DEF S
<1>13. 0 .. N \subseteq S
  BY <1>1, <1>10, <1>12, InductionTo
<1>14. left[0] = Base /\ \A n \in 0 .. N : left[n] \in X
  BY <1>1, <1>8, <1>13 DEF S
<1> QED BY <1>9, <1>11, <1>14 DEF X, N, Base, Step

LEMMA TogetherSteps ==
    ASSUME NEW upd, NEW cfg \in Partial(Seq(Words))
    PROVE  /\ Together(upd, cfg)[0] = 0
           /\ \A n \in 1 .. Len(Order) :
                 Together(upd, cfg)[n] =
                    IF Order[n] \in Named(upd)
                    THEN Together(upd, cfg)[n - 1] + Alone(Value(cfg, Order[n]))
                    ELSE Together(upd, cfg)[n - 1]
           /\ \A n \in 0 .. Len(Order) : Together(upd, cfg)[n] \in Nat
<1> DEFINE X == Nat
           N == Len(Order)
           Base == 0
           Step(before, n) == IF Order[n] \in Named(upd)
                              THEN before + Alone(Value(cfg, Order[n])) ELSE before
           G == [z \in X \X (1 .. N) |-> Step(z[1], z[2])]
<1>1. N \in Nat /\ Base \in X
  BY KeysAssumption
<1>2. ASSUME NEW before \in X, NEW n \in 1 .. N PROVE Step(before, n) \in X
  <2>1. Value(cfg, Order[n]) \in Seq(Words)
    BY ValueTyped
  <2>2. Alone(Value(cfg, Order[n])) \in Nat
    BY <2>1, TakenBounds
  <2> QED BY <2>2
<1> HIDE DEF X, N, Base, Step
<1>3. G \in [X \X (1 .. N) -> X]
  BY <1>2
<1>4. ASSUME NEW before \in X, NEW n \in 1 .. N PROVE G[<<before, n>>] = Step(before, n)
  OBVIOUS
<1> HIDE DEF G
<1>5. PICK f : Steps(f, X, N, Base, G)
  BY <1>1, <1>3, Recursion
<1>6. ASSUME NEW n \in 0 .. N PROVE f[n] = IF n = 0 THEN Base ELSE Step(f[n - 1], n)
  <2>1. f[n] = IF n = 0 THEN Base ELSE G[<<f[n - 1], n>>]
    BY <1>5 DEF Steps
  <2>2. CASE n # 0
    <3>1. n \in 1 .. N /\ f[n - 1] \in X
      BY <1>1, <1>5, <2>2 DEF Steps
    <3>2. G[<<f[n - 1], n>>] = Step(f[n - 1], n)
      BY <1>4, <3>1
    <3> QED BY <2>1, <2>2, <3>2
  <2> QED BY <2>1, <2>2
<1> DEFINE left[n \in 0 .. N] == IF n = 0 THEN Base ELSE Step(left[n - 1], n)
<1>7. f = [n \in 0 .. N |-> IF n = 0 THEN Base ELSE Step(f[n - 1], n)]
  BY <1>5, <1>6 DEF Steps
<1>8. left = [n \in 0 .. N |-> IF n = 0 THEN Base ELSE Step(left[n - 1], n)]
  BY <1>7
<1>9. left = Together(upd, cfg)
  BY DEF Together, N, Base, Step
<1> HIDE DEF left
<1> DEFINE S == {n \in 0 .. N : left[n] \in X}
<1>10. 0 \in S
  BY <1>1, <1>8
<1>11. ASSUME NEW n \in 1 .. N PROVE left[n] = Step(left[n - 1], n)
  BY <1>1, <1>8
<1>12. ASSUME NEW n \in 1 .. N, n - 1 \in S PROVE n \in S
  BY <1>2, <1>11, <1>12
<1> HIDE DEF S
<1>13. 0 .. N \subseteq S
  BY <1>1, <1>10, <1>12, InductionTo
<1>14. left[0] = Base /\ \A n \in 0 .. N : left[n] \in X
  BY <1>1, <1>8, <1>13 DEF S
<1> QED BY <1>9, <1>11, <1>14 DEF X, N, Base, Step

\* The room left is what the values before do not fill, were they read alone:
\* a value cut for want of room leaves none.
LEMMA RoomIsTheRest ==
    ASSUME NEW upd, NEW cfg \in Partial(Seq(Words)), NEW n \in 0 .. Len(Order)
    PROVE  Rooms(upd, cfg)[n] = IF Together(upd, cfg)[n] < MaxRead
                                THEN MaxRead - Together(upd, cfg)[n] ELSE 0
<1> DEFINE room == Rooms(upd, cfg)
           sum == Together(upd, cfg)
           N == Len(Order)
           S == {m \in 0 .. N : room[m] = IF sum[m] < MaxRead THEN MaxRead - sum[m] ELSE 0}
<1>1. N \in Nat /\ MaxRead \in Nat /\ room[0] = MaxRead /\ sum[0] = 0
  BY RoomsSteps, TogetherSteps, KeysAssumption
<1>2. 0 \in S
  BY <1>1
<1>3. ASSUME NEW m \in 1 .. N, m - 1 \in S PROVE m \in S
  <2> DEFINE words == Value(cfg, Order[m])
  <2>1. /\ m - 1 \in 0 .. N /\ m \in 0 .. N
        /\ room[m - 1] \in Nat /\ sum[m - 1] \in Nat
        /\ room[m] = IF Order[m] \in Named(upd) THEN room[m - 1] - Taken(words, room[m - 1])
                     ELSE room[m - 1]
        /\ sum[m] = IF Order[m] \in Named(upd) THEN sum[m - 1] + Alone(words) ELSE sum[m - 1]
    BY <1>1, RoomsSteps, TogetherSteps
  <2>2. words \in Seq(Words)
    BY ValueTyped
  <2>3. /\ Alone(words) \in Nat
        /\ Taken(words, room[m - 1]) = IF Alone(words) < room[m - 1] THEN Alone(words) ELSE room[m - 1]
    BY <2>1, <2>2, TakenBounds
  <2>4. room[m - 1] = IF sum[m - 1] < MaxRead THEN MaxRead - sum[m - 1] ELSE 0
    BY <1>3
  <2> HIDE DEF room, sum, words
  <2>5. room[m] = IF sum[m] < MaxRead THEN MaxRead - sum[m] ELSE 0
    BY <1>1, <2>1, <2>3, <2>4
  <2> QED BY <2>1, <2>5
<1> HIDE DEF S
<1>4. n \in S
  BY <1>1, <1>2, <1>3, InductionTo
<1> QED BY <1>4 DEF S, room, sum

\* What is read of a value is at most the value, and less only when it is too
\* long alone or after those before it.
LEMMA GivenBounds ==
    ASSUME NEW upd, NEW cfg \in Partial(Seq(Words)), NEW k \in Keys
    PROVE  /\ Given(upd, cfg, k) \in Nat /\ Len(Value(cfg, k)) \in Nat
           /\ Given(upd, cfg, k) <= Len(Value(cfg, k))
           /\ Given(upd, cfg, k) < Len(Value(cfg, k)) /\ k \in Named(upd) =>
                 Len(Value(cfg, k)) > MaxWords \/ Together(upd, cfg)[Place(k)] > MaxRead
<1> DEFINE n == Place(k)
           words == Value(cfg, k)
           room == Rooms(upd, cfg)[n - 1]
           sum == Together(upd, cfg)
<1>1. n \in 1 .. Len(Order) /\ Order[n] = k
  <2>1. DOMAIN Order = 1 .. Len(Order) /\ \E m \in DOMAIN Order : Order[m] = k
    BY KeysAssumption DEF ToSet
  <2> QED BY <2>1 DEF Place
<1>2. n - 1 \in 0 .. Len(Order) /\ n \in 0 .. Len(Order) /\ MaxRead \in Nat
  BY <1>1, KeysAssumption
<1>3. words \in Seq(Words)
  BY ValueTyped
<1>4. /\ room \in Nat /\ sum[n - 1] \in Nat
      /\ room = IF sum[n - 1] < MaxRead THEN MaxRead - sum[n - 1] ELSE 0
      /\ k \in Named(upd) => sum[n] = sum[n - 1] + Alone(words)
  BY <1>1, <1>2, RoomsSteps, TogetherSteps, RoomIsTheRest
<1>5. Given(upd, cfg, k) = Taken(words, room)
  BY DEF Given
<1>6. /\ Alone(words) \in Nat /\ Taken(words, room) \in Nat /\ Len(words) \in Nat
      /\ Taken(words, room) <= Len(words)
      /\ Taken(words, room) < Len(words) =>
            Len(words) > MaxWords \/ (room < Alone(words) /\ Alone(words) = Len(words))
  BY <1>3, <1>4, TakenBounds
<1> HIDE DEF n, words, room, sum
<1>7. Taken(words, room) < Len(words) /\ k \in Named(upd) =>
          Len(words) > MaxWords \/ sum[n] > MaxRead
  BY <1>2, <1>4, <1>6
<1> QED BY <1>5, <1>6, <1>7 DEF n, words, sum

-----------------------------------------------------------------------------
(* What is told of the operations.                                         *)

\* What is told, operation by operation.
Known == [words : Seq(Words), known : BOOLEAN]
Told ==
    [state : Partial(Known),
     changes : Seq([key : Keys, before : Seq(Words), after : Seq(Words), computed : BOOLEAN])]

LEMMA ValueOfTyped ==
    ASSUME NEW upd, NEW cfg \in Partial(Seq(Words)), NEW state \in Partial(Known), NEW k \in Keys
    PROVE  ValueOf(upd, cfg, state, k) \in Known
<1> DEFINE read == Value(cfg, k)
           given == Given(upd, cfg, k)
<1>1. read \in Seq(Words) /\ Len(read) \in Nat /\ given \in Nat
  BY ValueTyped, GivenBounds
<1>2. CASE k \in DOMAIN state
  <2>1. state \in [DOMAIN state -> Known]
    BY DEF Partial
  <2>2. state[k] \in Known
    BY <1>2, <2>1
  <2> QED BY <1>2, <2>2 DEF ValueOf
<1>3. CASE k \notin DOMAIN state
  <2> DEFINE words == IF given < Len(read) THEN SubSeq(read, 1, given) ELSE read
  <2> HIDE DEF read, given
  <2>1. words \in Seq(Words)
    BY <1>1
  <2>2. \/ ValueOf(upd, cfg, state, k) = [words |-> <<>>, known |-> TRUE]
        \/ ValueOf(upd, cfg, state, k) = [words |-> words, known |-> given >= Len(read)]
    BY <1>3 DEF ValueOf, read, given
  <2> HIDE DEF words
  <2>3. [words |-> <<>>, known |-> TRUE] \in Known
    BY DEF Known
  <2>4. [words |-> words, known |-> given >= Len(read)] \in Known
    BY <1>1, <2>1 DEF Known
  <2> QED BY ONLY <2>2, <2>3, <2>4
<1> QED BY <1>2, <1>3

LEMMA TellUnsetTyped ==
    ASSUME NEW upd, NEW cfg \in Partial(Seq(Words)), NEW before \in Told, NEW k \in Keys
    PROVE  TellUnset(upd, cfg, before, k) \in Told
<1> DEFINE Change == [key : Keys, before : Seq(Words), after : Seq(Words), computed : BOOLEAN]
           unset == [words |-> <<>>, known |-> TRUE]
           change == IF k \in Secrets THEN HiddenChange(k)
                     ELSE [key |-> k, before |-> ValueOf(upd, cfg, before.state, k).words,
                           after |-> <<>>, computed |-> TRUE]
<1>1. before.state \in Partial(Known) /\ before.changes \in Seq(Change)
  BY DEF Told
<1>2. ValueOf(upd, cfg, before.state, k).words \in Seq(Words)
  BY <1>1, ValueOfTyped DEF Known
<1>3. change \in Change
  BY <1>2 DEF HiddenChange
<1>4. unset \in Known
  BY DEF Known
<1>5. Put(before.state, k, unset) \in Partial(Known)
  <2> HIDE DEF unset
  <2> QED BY <1>1, <1>4, PutTyped
<1>6. Append(before.changes, change) \in Seq(Change)
  <2> HIDE DEF change, Change
  <2> QED BY <1>1, <1>3
<1> QED BY <1>5, <1>6 DEF TellUnset, Told

LEMMA TellSetTyped ==
    ASSUME NEW upd, NEW cfg \in Partial(Seq(Words)), NEW told0 \in Told,
           NEW operation \in Operations
    PROVE  TellSet(upd, cfg, told0, operation) \in Told
<1> DEFINE Change == [key : Keys, before : Seq(Words), after : Seq(Words), computed : BOOLEAN]
           k == operation.key
           before == ValueOf(upd, cfg, told0.state, k)
           computed == k \notin Secrets /\ Computed(before, operation)
           after == IF computed THEN Applied(before.words, operation) ELSE <<>>
           change == IF k \in Secrets THEN HiddenChange(k)
                     ELSE [key |-> k, before |-> before.words, after |-> after, computed |-> computed]
           left == [words |-> after, known |-> computed]
<1>1. told0.state \in Partial(Known) /\ told0.changes \in Seq(Change) /\ k \in Keys
  BY DEF Told, Operations
<1>2. before.words \in Seq(Words)
  BY <1>1, ValueOfTyped DEF Known
<1>3. after \in Seq(Words)
  <2>1. Applied(before.words, operation) \in Seq(Words)
    <3> HIDE DEF before
    <3> QED BY <1>2, AppliedTyped
  <2> HIDE DEF before
  <2> QED BY <2>1
<1>4. computed \in BOOLEAN
  OBVIOUS
<1> HIDE DEF before, computed, after
<1>5. change \in Change
  BY <1>1, <1>2, <1>3, <1>4 DEF HiddenChange
<1>6. left \in Known
  BY <1>3, <1>4 DEF Known
<1>7. Put(told0.state, k, left) \in Partial(Known)
  <2> HIDE DEF left
  <2> QED BY <1>1, <1>6, PutTyped
<1>8. Append(told0.changes, change) \in Seq(Change)
  <2> HIDE DEF change, Change
  <2> QED BY <1>1, <1>5
<1> QED BY <1>7, <1>8 DEF TellSet, Told, before, computed, after

LEMMA NothingTyped == NothingTold \in Told
<1>1. [k \in {} |-> [words |-> <<>>, known |-> TRUE]] \in [{} -> Known]
  BY DEF Known
<1>2. [k \in {} |-> [words |-> <<>>, known |-> TRUE]] \in Partial(Known)
  BY <1>1 DEF Partial
<1> QED BY <1>2 DEF NothingTold, Told

LEMMA ToldUnsetsSteps ==
    ASSUME NEW cfg \in Partial(Seq(Words)), NEW upd, IsUpdate(upd)
    PROVE  /\ ToldUnsets(upd, cfg)[0] = NothingTold
           /\ \A n \in 1 .. Len(upd.unsets) : ToldUnsets(upd, cfg)[n] = TellUnset(upd, cfg, ToldUnsets(upd, cfg)[n - 1], upd.unsets[n])
           /\ \A n \in 0 .. Len(upd.unsets) : ToldUnsets(upd, cfg)[n] \in Told
<1> DEFINE X == Told
           N == Len(upd.unsets)
           Base == NothingTold
           Step(before, n) == TellUnset(upd, cfg, before, upd.unsets[n])
           G == [z \in X \X (1 .. N) |-> Step(z[1], z[2])]
<1>1. N \in Nat /\ Base \in X
  BY NothingTyped DEF IsUpdate
<1>2. ASSUME NEW before \in X, NEW n \in 1 .. N PROVE Step(before, n) \in X
  BY TellUnsetTyped DEF IsUpdate
<1> HIDE DEF X, N, Base, Step
<1>3. G \in [X \X (1 .. N) -> X]
  BY <1>2
<1>4. ASSUME NEW before \in X, NEW n \in 1 .. N PROVE G[<<before, n>>] = Step(before, n)
  OBVIOUS
<1> HIDE DEF G
<1>5. PICK f : Steps(f, X, N, Base, G)
  BY <1>1, <1>3, Recursion
<1>6. ASSUME NEW n \in 0 .. N PROVE f[n] = IF n = 0 THEN Base ELSE Step(f[n - 1], n)
  <2>1. f[n] = IF n = 0 THEN Base ELSE G[<<f[n - 1], n>>]
    BY <1>5 DEF Steps
  <2>2. CASE n # 0
    <3>1. n \in 1 .. N /\ f[n - 1] \in X
      BY <1>1, <1>5, <2>2 DEF Steps
    <3>2. G[<<f[n - 1], n>>] = Step(f[n - 1], n)
      BY <1>4, <3>1
    <3> QED BY <2>1, <2>2, <3>2
  <2> QED BY <2>1, <2>2
<1> DEFINE tolds[n \in 0 .. N] == IF n = 0 THEN Base ELSE Step(tolds[n - 1], n)
<1>7. f = [n \in 0 .. N |-> IF n = 0 THEN Base ELSE Step(f[n - 1], n)]
  BY <1>5, <1>6 DEF Steps
<1>8. tolds = [n \in 0 .. N |-> IF n = 0 THEN Base ELSE Step(tolds[n - 1], n)]
  BY <1>7
<1>9. tolds = ToldUnsets(upd, cfg)
  BY DEF ToldUnsets, N, Base, Step
<1> HIDE DEF tolds
<1> DEFINE S == {n \in 0 .. N : tolds[n] \in X}
<1>10. 0 \in S
  BY <1>1, <1>8
<1>11. ASSUME NEW n \in 1 .. N PROVE tolds[n] = Step(tolds[n - 1], n)
  BY <1>1, <1>8
<1>12. ASSUME NEW n \in 1 .. N, n - 1 \in S PROVE n \in S
  BY <1>2, <1>11, <1>12
<1> HIDE DEF S
<1>13. 0 .. N \subseteq S
  BY <1>1, <1>10, <1>12, InductionTo
<1>14. tolds[0] = Base /\ \A n \in 0 .. N : tolds[n] \in X
  BY <1>1, <1>8, <1>13 DEF S
<1> QED BY <1>9, <1>11, <1>14 DEF X, N, Base, Step

LEMMA ToldSetsSteps ==
    ASSUME NEW cfg \in Partial(Seq(Words)), NEW upd, IsUpdate(upd)
    PROVE  /\ ToldSets(upd, cfg)[0] = ToldUnsets(upd, cfg)[Len(upd.unsets)]
           /\ \A n \in 1 .. Len(upd.sets) : ToldSets(upd, cfg)[n] = TellSet(upd, cfg, ToldSets(upd, cfg)[n - 1], upd.sets[n])
           /\ \A n \in 0 .. Len(upd.sets) : ToldSets(upd, cfg)[n] \in Told
<1> DEFINE X == Told
           N == Len(upd.sets)
           Base == ToldUnsets(upd, cfg)[Len(upd.unsets)]
           Step(before, n) == TellSet(upd, cfg, before, upd.sets[n])
           G == [z \in X \X (1 .. N) |-> Step(z[1], z[2])]
<1>1. N \in Nat /\ Base \in X
  BY ToldUnsetsSteps DEF IsUpdate
<1>2. ASSUME NEW before \in X, NEW n \in 1 .. N PROVE Step(before, n) \in X
  BY TellSetTyped DEF IsUpdate
<1> HIDE DEF X, N, Base, Step
<1>3. G \in [X \X (1 .. N) -> X]
  BY <1>2
<1>4. ASSUME NEW before \in X, NEW n \in 1 .. N PROVE G[<<before, n>>] = Step(before, n)
  OBVIOUS
<1> HIDE DEF G
<1>5. PICK f : Steps(f, X, N, Base, G)
  BY <1>1, <1>3, Recursion
<1>6. ASSUME NEW n \in 0 .. N PROVE f[n] = IF n = 0 THEN Base ELSE Step(f[n - 1], n)
  <2>1. f[n] = IF n = 0 THEN Base ELSE G[<<f[n - 1], n>>]
    BY <1>5 DEF Steps
  <2>2. CASE n # 0
    <3>1. n \in 1 .. N /\ f[n - 1] \in X
      BY <1>1, <1>5, <2>2 DEF Steps
    <3>2. G[<<f[n - 1], n>>] = Step(f[n - 1], n)
      BY <1>4, <3>1
    <3> QED BY <2>1, <2>2, <3>2
  <2> QED BY <2>1, <2>2
<1> DEFINE tolds[n \in 0 .. N] == IF n = 0 THEN Base ELSE Step(tolds[n - 1], n)
<1>7. f = [n \in 0 .. N |-> IF n = 0 THEN Base ELSE Step(f[n - 1], n)]
  BY <1>5, <1>6 DEF Steps
<1>8. tolds = [n \in 0 .. N |-> IF n = 0 THEN Base ELSE Step(tolds[n - 1], n)]
  BY <1>7
<1>9. tolds = ToldSets(upd, cfg)
  BY DEF ToldSets, N, Base, Step
<1> HIDE DEF tolds
<1> DEFINE S == {n \in 0 .. N : tolds[n] \in X}
<1>10. 0 \in S
  BY <1>1, <1>8
<1>11. ASSUME NEW n \in 1 .. N PROVE tolds[n] = Step(tolds[n - 1], n)
  BY <1>1, <1>8
<1>12. ASSUME NEW n \in 1 .. N, n - 1 \in S PROVE n \in S
  BY <1>2, <1>11, <1>12
<1> HIDE DEF S
<1>13. 0 .. N \subseteq S
  BY <1>1, <1>10, <1>12, InductionTo
<1>14. tolds[0] = Base /\ \A n \in 0 .. N : tolds[n] \in X
  BY <1>1, <1>8, <1>13 DEF S
<1> QED BY <1>9, <1>11, <1>14 DEF X, N, Base, Step

\* What is told follows what the daemon does: a key told is one changed, one
\* known is as the daemon leaves it, one not told as the deletes leave it, and
\* the last change of a key, when computed, gives what the daemon leaves.
KeysTold(told0) ==
    \A k \in Keys : k \in DOMAIN told0.state <=>
                        \E i \in 1 .. Len(told0.changes) : told0.changes[i].key = k
KnownHold(told0, left) ==
    \A k \in DOMAIN told0.state :
        told0.state[k].known = TRUE => Value(left, k) = told0.state[k].words
RestKept(told0, left, upd, cfg) ==
    \A k \in Keys : k \notin DOMAIN told0.state =>
        Value(left, k) = IF SectionOf[k] \in upd.deletes THEN <<>> ELSE Value(cfg, k)
LastsHold(told0, left) ==
    \A i \in 1 .. Len(told0.changes) :
        /\ \A j \in 1 .. Len(told0.changes) :
              told0.changes[j].key = told0.changes[i].key => j <= i
        /\ told0.changes[i].computed = TRUE
        => Value(left, told0.changes[i].key) = told0.changes[i].after
Follows(told0, left, upd, cfg) ==
    /\ KeysTold(told0) /\ KnownHold(told0, left)
    /\ RestKept(told0, left, upd, cfg) /\ LastsHold(told0, left)

\* The unsets told: the keys unset, each left with nothing, and known so.
UnsetsTold(told0, upd, n) ==
    /\ KeysTold(told0) /\ Len(told0.changes) = n
    /\ \A k \in Keys : k \in DOMAIN told0.state <=> \E i \in 1 .. n : upd.unsets[i] = k
    /\ \A k \in DOMAIN told0.state : told0.state[k].words = <<>> /\ told0.state[k].known = TRUE
    /\ \A i \in 1 .. Len(told0.changes) :
          /\ told0.changes[i].after = <<>>
          /\ told0.changes[i].computed = TRUE \/ told0.changes[i].key \in Secrets

LEMMA ToldParts ==
    ASSUME NEW told0 \in Told
    PROVE  /\ told0.state \in Partial(Known)
           /\ Len(told0.changes) \in Nat
           /\ DOMAIN told0.changes = 1 .. Len(told0.changes)
           /\ \A i \in 1 .. Len(told0.changes) : told0.changes[i].key \in Keys
<1> DEFINE Change == [key : Keys, before : Seq(Words), after : Seq(Words), computed : BOOLEAN]
<1>1. told0.state \in Partial(Known) /\ told0.changes \in Seq(Change)
  BY DEF Told
<1> HIDE DEF Change
<1>2. Len(told0.changes) \in Nat /\ \A i \in 1 .. Len(told0.changes) : told0.changes[i] \in Change
  BY <1>1
<1> QED BY <1>1, <1>2 DEF Change

\* One operation more told: one change more, and the state of its key.
OneMore(told0, told1, k, state, change) ==
    /\ \A j : j \in DOMAIN told1.state <=> j \in DOMAIN told0.state \/ j = k
    /\ \A j \in DOMAIN told1.state :
          told1.state[j] = IF j = k THEN state ELSE told0.state[j]
    /\ Len(told1.changes) = Len(told0.changes) + 1
    /\ \A i \in 1 .. Len(told0.changes) : told1.changes[i] = told0.changes[i]
    /\ told1.changes[Len(told0.changes) + 1] = change

LEMMA ToldOneMore ==
    ASSUME NEW told0 \in Told, NEW told1, NEW k \in Keys, NEW state, NEW change,
           told1.state = Put(told0.state, k, state),
           told1.changes = Append(told0.changes, change), change.key = k, KeysTold(told0)
    PROVE  KeysTold(told1) /\ OneMore(told0, told1, k, state, change)
<1>1. /\ \A j : j \in DOMAIN told1.state <=> j \in DOMAIN told0.state \/ j = k
      /\ \A j \in DOMAIN told1.state :
            told1.state[j] = IF j = k THEN state ELSE told0.state[j]
  BY DEF Put
<1>2. Len(told0.changes) \in Nat /\ \E X : told0.changes \in Seq(X)
  BY ToldParts DEF Told
<1>3. /\ Len(told1.changes) = Len(told0.changes) + 1
      /\ \A i \in 1 .. Len(told0.changes) : told1.changes[i] = told0.changes[i]
      /\ told1.changes[Len(told0.changes) + 1] = change
  BY <1>2
<1>4. KeysTold(told1)
  BY <1>1, <1>2, <1>3 DEF KeysTold
<1> QED BY <1>1, <1>3, <1>4 DEF OneMore

LEMMA UnsetsToldStep ==
    ASSUME NEW upd, IsUpdate(upd), NEW cfg \in Partial(Seq(Words)), NEW told0 \in Told,
           NEW n \in 1 .. Len(upd.unsets), UnsetsTold(told0, upd, n - 1)
    PROVE  UnsetsTold(TellUnset(upd, cfg, told0, upd.unsets[n]), upd, n)
<1> DEFINE k == upd.unsets[n]
           told1 == TellUnset(upd, cfg, told0, k)
           state == [words |-> <<>>, known |-> TRUE]
           change == IF k \in Secrets THEN HiddenChange(k)
                     ELSE [key |-> k, before |-> ValueOf(upd, cfg, told0.state, k).words,
                           after |-> <<>>, computed |-> TRUE]
<1>1. k \in Keys
  BY DEF IsUpdate
<1>2. /\ told1.state = Put(told0.state, k, state)
      /\ told1.changes = Append(told0.changes, change)
      /\ change.key = k /\ change.after = <<>> /\ (change.computed = TRUE \/ k \in Secrets)
      /\ state.words = <<>> /\ state.known = TRUE
  BY DEF TellUnset, HiddenChange
<1> HIDE DEF k, told1, state, change
<1>3. KeysTold(told0)
  BY DEF UnsetsTold
<1>4. KeysTold(told1) /\ OneMore(told0, told1, k, state, change)
  BY <1>1, <1>2, <1>3, ToldOneMore
<1>5. ASSUME NEW j \in Keys
      PROVE  j \in DOMAIN told1.state <=> \E i \in 1 .. n : upd.unsets[i] = j
  <2>1. j \in DOMAIN told0.state <=> \E i \in 1 .. n - 1 : upd.unsets[i] = j
    BY DEF UnsetsTold
  <2>2. \A i : i \in 1 .. n <=> i \in 1 .. n - 1 \/ i = n
    OBVIOUS
  <2> QED BY <1>4, <2>1, <2>2 DEF k, OneMore
<1>6. \A j \in DOMAIN told1.state : told1.state[j].words = <<>> /\ told1.state[j].known = TRUE
  BY <1>2, <1>4 DEF UnsetsTold, OneMore
<1>7. /\ \A i \in 1 .. Len(told1.changes) :
            /\ told1.changes[i].after = <<>>
            /\ told1.changes[i].computed = TRUE \/ told1.changes[i].key \in Secrets
      /\ Len(told1.changes) = n
  <2>1. Len(told0.changes) \in Nat
    BY ToldParts
  <2>2. /\ \A i \in 1 .. Len(told0.changes) :
              /\ told0.changes[i].after = <<>>
              /\ told0.changes[i].computed = TRUE \/ told0.changes[i].key \in Secrets
        /\ Len(told0.changes) = n - 1
    BY DEF UnsetsTold
  <2>3. \A i : i \in 1 .. Len(told1.changes) <=>
                    i \in 1 .. Len(told0.changes) \/ i = Len(told0.changes) + 1
    BY <1>4, <2>1 DEF OneMore
  <2> QED BY <1>2, <1>4, <2>2, <2>3 DEF OneMore
<1> QED BY <1>4, <1>5, <1>6, <1>7 DEF UnsetsTold, told1, k

LEMMA UnsetsAreTold ==
    ASSUME NEW upd, IsUpdate(upd), NEW cfg \in Partial(Seq(Words))
    PROVE  LET last == ToldUnsets(upd, cfg)[Len(upd.unsets)]
           IN  UnsetsTold(last, upd, Len(upd.unsets)) /\ last \in Told
<1> DEFINE N == Len(upd.unsets)
           tolds == ToldUnsets(upd, cfg)
           S == {n \in 0 .. N : UnsetsTold(tolds[n], upd, n)}
<1>1. N \in Nat
  BY DEF IsUpdate
<1>2. /\ tolds[0] = NothingTold
      /\ \A n \in 1 .. N : tolds[n] = TellUnset(upd, cfg, tolds[n - 1], upd.unsets[n])
      /\ \A n \in 0 .. N : tolds[n] \in Told
  BY ToldUnsetsSteps
<1> HIDE DEF tolds
<1>3. 0 \in S
  <2>1. UnsetsTold(NothingTold, upd, 0)
    BY DEF UnsetsTold, NothingTold, KeysTold
  <2> QED BY <1>1, <1>2, <2>1
<1>4. ASSUME NEW n \in 1 .. N, n - 1 \in S PROVE n \in S
  <2>1. tolds[n - 1] \in Told /\ UnsetsTold(tolds[n - 1], upd, n - 1) /\ n \in 0 .. N
    BY <1>1, <1>2, <1>4
  <2>2. UnsetsTold(TellUnset(upd, cfg, tolds[n - 1], upd.unsets[n]), upd, n)
    BY <2>1, UnsetsToldStep
  <2> QED BY <1>2, <2>1, <2>2
<1> HIDE DEF S
<1>5. 0 .. N \subseteq S
  BY <1>1, <1>3, <1>4, InductionTo
<1>6. UnsetsTold(tolds[N], upd, N) /\ tolds[N] \in Told
  BY <1>1, <1>2, <1>5 DEF S
<1> QED BY <1>6 DEF tolds, N

\* Once the unsets are told, what is told follows what the deletes and the
\* unsets leave.
LEMMA UnsetsFollow ==
    ASSUME NEW upd, IsUpdate(upd), NEW cfg \in Partial(Seq(Words))
    PROVE  Follows(ToldUnsets(upd, cfg)[Len(upd.unsets)], Kept(cfg, upd), upd, cfg)
<1> DEFINE N == Len(upd.unsets)
           last == ToldUnsets(upd, cfg)[N]
           left == Kept(cfg, upd)
<1>6. UnsetsTold(last, upd, N) /\ last \in Told
  BY UnsetsAreTold
<1> HIDE DEF last
<1>7. ASSUME NEW k \in DOMAIN last.state
      PROVE  k \in Keys /\ Value(left, k) = <<>>
  <2>1. k \in Keys
    BY <1>6, ToldParts DEF Partial
  <2>2. Contains(upd.unsets, k)
    BY <1>6, <2>1 DEF UnsetsTold, Contains
  <2> QED BY <2>1, <2>2 DEF Kept, Value
<1>8. KnownHold(last, left)
  BY <1>6, <1>7 DEF KnownHold, UnsetsTold
<1>9. RestKept(last, left, upd, cfg)
  <2> SUFFICES ASSUME NEW k \in Keys, k \notin DOMAIN last.state
               PROVE  Value(left, k) = IF SectionOf[k] \in upd.deletes THEN <<>> ELSE Value(cfg, k)
    BY DEF RestKept
  <2>1. ~Contains(upd.unsets, k)
    BY <1>6 DEF UnsetsTold, Contains
  <2> QED BY <2>1 DEF Kept, Value
<1>10. LastsHold(last, left)
  <2> SUFFICES ASSUME NEW i \in 1 .. Len(last.changes)
               PROVE  Value(left, last.changes[i].key) = last.changes[i].after
    BY DEF LastsHold
  <2>1. last.changes[i].key \in Keys /\ last.changes[i].after = <<>>
    BY <1>6, ToldParts DEF UnsetsTold
  <2>2. last.changes[i].key \in DOMAIN last.state
    BY <1>6, <2>1 DEF UnsetsTold, KeysTold
  <2> QED BY <1>7, <2>1, <2>2
<1> QED BY <1>6, <1>8, <1>9, <1>10 DEF Follows, UnsetsTold, last, left, N

\* The value a set operation is told from, when known, is the one it is done on.
LEMMA KnownBefore ==
    ASSUME NEW upd, NEW cfg \in Partial(Seq(Words)), NEW told0, NEW left, NEW k \in Keys,
           Follows(told0, left, upd, cfg),
           NEW before, before = ValueOf(upd, cfg, told0.state, k), before.known = TRUE
    PROVE  before.words = Value(left, k)
<1>1. CASE k \in DOMAIN told0.state
  BY <1>1 DEF Follows, KnownHold, ValueOf
<1>2. CASE k \notin DOMAIN told0.state
  <2>1. Value(left, k) = IF SectionOf[k] \in upd.deletes THEN <<>> ELSE Value(cfg, k)
    BY <1>2 DEF Follows, RestKept
  <2>2. CASE SectionOf[k] \in upd.deletes
    BY <1>2, <2>1, <2>2 DEF ValueOf
  <2>3. CASE SectionOf[k] \notin upd.deletes
    <3> DEFINE read == Value(cfg, k)
    <3> DEFINE given == Given(upd, cfg, k)
    <3>1. Len(read) \in Nat /\ given \in Nat
      BY GivenBounds
    <3>2. before = [words |-> IF given < Len(read) THEN SubSeq(read, 1, given) ELSE read,
                    known |-> given >= Len(read)]
      BY <1>2, <2>3 DEF ValueOf
    <3> HIDE DEF read, given
    <3>3. before.known = (given >= Len(read))
      BY ONLY <3>2
    <3>4. before.known = TRUE
      OBVIOUS
    <3>5. given >= Len(read)
      BY ONLY <3>3, <3>4, Zenon
    <3>6. before.words = read
      BY <3>1, <3>2, <3>5
    <3> QED BY <2>1, <2>3, <3>6 DEF read
  <2> QED BY <2>2, <2>3
<1> QED BY <1>1, <1>2

LEMMA SetFollows ==
    ASSUME NEW upd, NEW cfg \in Partial(Seq(Words)), NEW told0 \in Told, NEW left,
           NEW operation \in Operations, Follows(told0, left, upd, cfg)
    PROVE  Follows(TellSet(upd, cfg, told0, operation), AfterSet(left, operation), upd, cfg)
<1> DEFINE k == operation.key
           before == ValueOf(upd, cfg, told0.state, k)
           computed == k \notin Secrets /\ Computed(before, operation)
           after == IF computed THEN Applied(before.words, operation) ELSE <<>>
           change == IF k \in Secrets THEN HiddenChange(k)
                     ELSE [key |-> k, before |-> before.words, after |-> after, computed |-> computed]
           state == [words |-> after, known |-> computed]
           told1 == TellSet(upd, cfg, told0, operation)
           left1 == AfterSet(left, operation)
           value == Applied(Value(left, k), operation)
<1>1. k \in Keys
  BY DEF Operations
<1>2. told1.state = Put(told0.state, k, state) /\ told1.changes = Append(told0.changes, change)
  BY DEF TellSet
<1>3. change.key = k
  BY DEF HiddenChange
<1>4. \A j : Value(left1, j) = IF j = k THEN value ELSE Value(left, j)
  BY ValueOfPut DEF AfterSet
<1>5. ASSUME computed = TRUE PROVE after = value
  <2>1. computed
    BY <1>5
  <2>2. CASE operation.op = "="
    BY <2>1, <2>2 DEF Applied
  <2>3. CASE operation.op # "="
    <3>1. before.known
      BY <2>1, <2>3 DEF Computed
    <3>2. before \in Known
      BY <1>1, ValueOfTyped, ToldParts
    <3>3. before.known = TRUE
      <4> HIDE DEF before
      <4> QED BY <3>1, <3>2 DEF Known
    <3>4. before = ValueOf(upd, cfg, told0.state, k)
      OBVIOUS
    <3> HIDE DEF before, k
    <3>5. before.words = Value(left, k)
      BY <1>1, <3>3, <3>4, KnownBefore
    <3> HIDE DEF computed
    <3> QED BY <2>1, <3>5
  <2> QED BY <2>2, <2>3
<1>6. state.words = after /\ state.known = computed
  OBVIOUS
<1>7. change.computed = TRUE => computed = TRUE /\ change.after = after
  <2> HIDE DEF before, computed, after
  <2> QED BY DEF HiddenChange
<1> HIDE DEF k, before, computed, after, change, state, told1, left1, value
<1>8. KeysTold(told1) /\ OneMore(told0, told1, k, state, change)
  BY <1>1, <1>2, <1>3, ToldOneMore DEF Follows
<1>9. KnownHold(told1, left1)
  BY <1>4, <1>5, <1>6, <1>8 DEF Follows, KnownHold, OneMore
<1>10. RestKept(told1, left1, upd, cfg)
  BY <1>4, <1>8 DEF Follows, RestKept, OneMore
<1>11. LastsHold(told1, left1)
  <2> DEFINE m == Len(told0.changes)
  <2>1. m \in Nat /\ Len(told1.changes) = m + 1
    BY <1>8, ToldParts DEF OneMore
  <2> SUFFICES ASSUME NEW i \in 1 .. m + 1,
                      \A j \in 1 .. m + 1 : told1.changes[j].key = told1.changes[i].key => j <= i,
                      told1.changes[i].computed = TRUE
               PROVE  Value(left1, told1.changes[i].key) = told1.changes[i].after
    BY <2>1 DEF LastsHold
  <2>2. /\ \A j \in 1 .. m : told1.changes[j] = told0.changes[j]
        /\ told1.changes[m + 1] = change
    BY <1>8 DEF OneMore
  <2> HIDE DEF m
  <2>3. CASE i = m + 1
    BY <1>3, <1>4, <1>5, <1>7, <2>2, <2>3
  <2>4. CASE i # m + 1
    <3>1. i \in 1 .. m /\ m + 1 \in 1 .. m + 1 /\ ~(m + 1 <= i)
      BY <2>1, <2>4
    <3>2. told1.changes[i] = told0.changes[i] /\ told0.changes[i].key # k
      BY <1>3, <2>2, <3>1
    <3>3. \A j \in 1 .. m : told0.changes[j].key = told0.changes[i].key => j <= i
      BY <2>1, <2>2, <3>1
    <3>4. Value(left, told0.changes[i].key) = told0.changes[i].after
      BY <3>1, <3>2, <3>3 DEF Follows, LastsHold, m
    <3> QED BY <1>4, <3>2, <3>4
  <2> QED BY <2>3, <2>4
<1> QED BY <1>8, <1>9, <1>10, <1>11 DEF Follows, told1, left1

\* What is told of the sets, one more at a time, follows what they leave.
LEMMA SetsFollow ==
    ASSUME NEW upd, IsUpdate(upd), NEW cfg \in Partial(Seq(Words)), NEW m \in 0 .. Len(upd.sets)
    PROVE  /\ Follows(ToldSets(upd, cfg)[m], AfterSets(cfg, upd)[m], upd, cfg)
           /\ ToldSets(upd, cfg)[m] \in Told
           /\ AfterSets(cfg, upd)[m] \in Partial(Seq(Words))
<1> DEFINE N == Len(upd.sets)
           tolds == ToldSets(upd, cfg)
           lefts == AfterSets(cfg, upd)
           S == {n \in 0 .. N : Follows(tolds[n], lefts[n], upd, cfg)}
<1>1. N \in Nat /\ \A n \in 1 .. N : upd.sets[n] \in Operations
  BY DEF IsUpdate
<1>2. /\ tolds[0] = ToldUnsets(upd, cfg)[Len(upd.unsets)]
      /\ \A n \in 1 .. N : tolds[n] = TellSet(upd, cfg, tolds[n - 1], upd.sets[n])
      /\ \A n \in 0 .. N : tolds[n] \in Told
  BY ToldSetsSteps
<1>3. /\ lefts[0] = Kept(cfg, upd)
      /\ \A n \in 1 .. N : lefts[n] = AfterSet(lefts[n - 1], upd.sets[n])
      /\ \A n \in 0 .. N : lefts[n] \in Partial(Seq(Words))
  BY AfterSetsSteps
<1> HIDE DEF tolds, lefts, N
<1>4. 0 \in S
  BY <1>1, <1>2, <1>3, UnsetsFollow
<1>5. ASSUME NEW n \in 1 .. N, n - 1 \in S PROVE n \in S
  <2>1. n \in 0 .. N /\ tolds[n - 1] \in Told /\ Follows(tolds[n - 1], lefts[n - 1], upd, cfg)
    BY <1>1, <1>2, <1>5
  <2>2. upd.sets[n] \in Operations
    BY <1>1
  <2>3. Follows(TellSet(upd, cfg, tolds[n - 1], upd.sets[n]), AfterSet(lefts[n - 1], upd.sets[n]),
                upd, cfg)
    BY <2>1, <2>2, SetFollows
  <2> QED BY <1>2, <1>3, <2>1, <2>3
<1> HIDE DEF S
<1>6. 0 .. N \subseteq S
  BY <1>1, <1>4, <1>5, InductionTo
<1>7. m \in S /\ tolds[m] \in Told /\ lefts[m] \in Partial(Seq(Words))
  BY <1>1, <1>2, <1>3, <1>6 DEF N
<1> QED BY <1>7 DEF S, tolds, lefts

\* What is told of an update follows what it writes.
LEMMA ToldFollows ==
    ASSUME NEW upd, IsUpdate(upd), NEW cfg \in Partial(Seq(Words))
    PROVE  /\ Follows(ToldSets(upd, cfg)[Len(upd.sets)], Written(cfg, upd), upd, cfg)
           /\ ToldSets(upd, cfg)[Len(upd.sets)] \in Told
           /\ Written(cfg, upd) \in Partial(Seq(Words))
<1>1. Len(upd.sets) \in 0 .. Len(upd.sets)
  BY DEF IsUpdate
<1> QED BY <1>1, SetsFollow DEF Written

\* A value too long to be known, n sets done.
Unknown(upd, cfg, k, n) ==
    /\ Len(Value(cfg, k)) > MaxWords \/ Together(upd, cfg)[Place(k)] > MaxRead
    /\ SectionOf[k] \notin upd.deletes /\ ~Contains(upd.unsets, k)
    /\ \A m \in 1 .. n : upd.sets[m].key = k => upd.sets[m].op # "="

\* The keys told are those unset or set so far, and what is not known of one, or
\* not computed, is for its being a secret or too long.
Caused(told0, upd, cfg, n) ==
    /\ Len(told0.changes) = Len(upd.unsets) + n
    /\ \A k \in Keys : k \in DOMAIN told0.state <=>
                          \/ \E i \in 1 .. Len(upd.unsets) : upd.unsets[i] = k
                          \/ \E m \in 1 .. n : upd.sets[m].key = k
    /\ \A k \in DOMAIN told0.state :
          told0.state[k].known = TRUE \/ k \in Secrets \/ Unknown(upd, cfg, k, n)
    /\ \A i \in 1 .. Len(told0.changes) :
          LET change == told0.changes[i]
          IN  \/ change.computed = TRUE \/ change.key \in Secrets
              \/ Unknown(upd, cfg, change.key, i - Len(upd.unsets))

LEMMA SetCaused ==
    ASSUME NEW upd, IsUpdate(upd), NEW cfg \in Partial(Seq(Words)), NEW told0 \in Told, NEW left,
           NEW n \in 1 .. Len(upd.sets), Follows(told0, left, upd, cfg), Caused(told0, upd, cfg, n - 1),
           InRange(Value(left, upd.sets[n].key), upd.sets[n])
    PROVE  Caused(TellSet(upd, cfg, told0, upd.sets[n]), upd, cfg, n)
<1> DEFINE operation == upd.sets[n]
           k == operation.key
           before == ValueOf(upd, cfg, told0.state, k)
           computed == k \notin Secrets /\ Computed(before, operation)
           after == IF computed THEN Applied(before.words, operation) ELSE <<>>
           change == IF k \in Secrets THEN HiddenChange(k)
                     ELSE [key |-> k, before |-> before.words, after |-> after, computed |-> computed]
           state == [words |-> after, known |-> computed]
           told1 == TellSet(upd, cfg, told0, operation)
           U == Len(upd.unsets)
<1>0. U \in Nat /\ n \in Nat /\ n - 1 \in Nat /\ Len(upd.sets) \in Nat
  BY DEF IsUpdate
<1>1. k \in Keys /\ operation \in Operations
  <2>1. operation \in Operations
    BY DEF IsUpdate
  <2> QED BY <2>1 DEF Operations
<1>2. told1.state = Put(told0.state, k, state) /\ told1.changes = Append(told0.changes, change)
  BY DEF TellSet
<1>3. change.key = k /\ state.known = computed /\ (k \notin Secrets => change.computed = computed)
  BY DEF HiddenChange
<1>4. \A i : i \in 1 .. n <=> i \in 1 .. n - 1 \/ i = n
  BY <1>0
<1>5. ASSUME k \notin Secrets, computed # TRUE PROVE Unknown(upd, cfg, k, n)
  <2>1. before \in Known /\ MaxWords \in Nat
    BY <1>1, ValueOfTyped, ToldParts, KeysAssumption
  <2>2. operation.op # "="
    BY <1>5 DEF Computed
  <2>3. before.known # TRUE
    <3> SUFFICES ASSUME before.known = TRUE PROVE FALSE
      OBVIOUS
    <3>1. before.words = Value(left, k)
      <4>1. before = ValueOf(upd, cfg, told0.state, k)
        OBVIOUS
      <4> HIDE DEF before, k
      <4> QED BY <1>1, <4>1, KnownBefore
    <3> QED BY <1>5, <3>1 DEF Computed
  <2>4. CASE k \in DOMAIN told0.state
    <3>1. Unknown(upd, cfg, k, n - 1)
      BY <1>5, <2>3, <2>4 DEF Caused, ValueOf
    <3> QED BY <1>4, <2>2, <3>1 DEF Unknown
  <2>5. CASE k \notin DOMAIN told0.state
    <3>1. SectionOf[k] \notin upd.deletes
      BY <2>3, <2>5 DEF ValueOf
    <3>2. Len(Value(cfg, k)) > MaxWords \/ Together(upd, cfg)[Place(k)] > MaxRead
      <4> DEFINE read == Value(cfg, k)
                 given == Given(upd, cfg, k)
                 words == IF given < Len(read) THEN SubSeq(read, 1, given) ELSE read
      <4>1. before = [words |-> words, known |-> given >= Len(read)]
        BY <2>5, <3>1 DEF ValueOf
      <4>2. k \in Named(upd)
        <5>1. operation \in ToSet(upd.sets)
          BY DEF IsUpdate, ToSet
        <5> HIDE DEF operation
        <5> QED BY <1>5, <5>1 DEF Named
      <4>3. /\ given \in Nat /\ Len(read) \in Nat
            /\ given < Len(read) =>
                  Len(read) > MaxWords \/ Together(upd, cfg)[Place(k)] > MaxRead
        <5> HIDE DEF k
        <5> QED BY <1>1, <4>2, GivenBounds
      <4> HIDE DEF read, given, words, before
      <4>4. before.known = (given >= Len(read))
        BY ONLY <4>1
      <4>5. (given >= Len(read)) = TRUE \/ ~(given >= Len(read))
        BY ONLY Zenon
      <4>6. ~(given >= Len(read))
        BY ONLY <2>3, <4>4, <4>5, Zenon
      <4> QED BY <4>3, <4>6 DEF read
    <3>3. /\ \A i \in 1 .. U : upd.unsets[i] # k
          /\ \A m \in 1 .. n - 1 : upd.sets[m].key # k
      BY <1>1, <2>5 DEF Caused
    <3>4. ~Contains(upd.unsets, k)
      BY <3>3 DEF Contains
    <3> QED BY <1>4, <2>1, <2>2, <3>1, <3>2, <3>3, <3>4 DEF Unknown
  <2> QED BY <2>4, <2>5
<1> HIDE DEF before, computed, after, change, state, told1
<1>6. KeysTold(told0)
  BY DEF Follows
<1>7. OneMore(told0, told1, k, state, change)
  <2> HIDE DEF k
  <2> QED BY <1>1, <1>2, <1>3, <1>6, ToldOneMore
<1>8. Len(told0.changes) = U + (n - 1) /\ Len(told1.changes) = U + n
  BY <1>0, <1>7 DEF Caused, OneMore
<1>9. ASSUME NEW j \in Keys
      PROVE  j \in DOMAIN told1.state <=> \/ \E i \in 1 .. U : upd.unsets[i] = j
                                          \/ \E m \in 1 .. n : upd.sets[m].key = j
  <2>1. j \in DOMAIN told0.state <=> \/ \E i \in 1 .. U : upd.unsets[i] = j
                                     \/ \E m \in 1 .. n - 1 : upd.sets[m].key = j
    BY DEF Caused
  <2> QED BY <1>4, <1>7, <2>1 DEF OneMore
<1>10. ASSUME NEW j \in DOMAIN told1.state
       PROVE  told1.state[j].known = TRUE \/ j \in Secrets \/ Unknown(upd, cfg, j, n)
  <2>1. CASE j = k
    BY <1>3, <1>5, <1>7, <2>1 DEF OneMore
  <2>2. CASE j # k
    <3>1. j \in DOMAIN told0.state /\ told1.state[j] = told0.state[j]
      BY <1>7, <2>2 DEF OneMore
    <3>2. Unknown(upd, cfg, j, n - 1) => Unknown(upd, cfg, j, n)
      BY <1>4, <2>2 DEF Unknown
    <3> QED BY <3>1, <3>2 DEF Caused
  <2> QED BY <2>1, <2>2
<1>11. ASSUME NEW i \in 1 .. Len(told1.changes)
       PROVE  \/ told1.changes[i].computed = TRUE \/ told1.changes[i].key \in Secrets
              \/ Unknown(upd, cfg, told1.changes[i].key, i - U)
  <2>1. CASE i = U + n
    <3>1. told1.changes[i] = change /\ i - U = n
      BY <1>0, <1>7, <1>8, <2>1 DEF OneMore
    <3> QED BY <1>3, <1>5, <3>1
  <2>2. CASE i # U + n
    <3>1. i \in 1 .. Len(told0.changes) /\ told1.changes[i] = told0.changes[i]
      BY <1>0, <1>7, <1>8, <2>2 DEF OneMore
    <3> QED BY <3>1 DEF Caused
  <2> QED BY <2>1, <2>2
<1> QED BY <1>8, <1>9, <1>10, <1>11 DEF Caused, told1

\* What is not computed of an update the daemon takes is so for a cause.
LEMMA ToldCaused ==
    ASSUME NEW upd, IsUpdate(upd), NEW cfg \in Partial(Seq(Words)), Acceptable(cfg, upd)
    PROVE  Caused(ToldSets(upd, cfg)[Len(upd.sets)], upd, cfg, Len(upd.sets))
<1> DEFINE N == Len(upd.sets)
           tolds == ToldSets(upd, cfg)
           lefts == AfterSets(cfg, upd)
           S == {n \in 0 .. N : Caused(tolds[n], upd, cfg, n)}
<1>1. N \in Nat /\ DOMAIN upd.sets = 1 .. N
  BY DEF IsUpdate
<1>2. /\ tolds[0] = ToldUnsets(upd, cfg)[Len(upd.unsets)]
      /\ \A n \in 1 .. N : tolds[n] = TellSet(upd, cfg, tolds[n - 1], upd.sets[n])
      /\ \A n \in 0 .. N : tolds[n] \in Told /\ Follows(tolds[n], lefts[n], upd, cfg)
  BY ToldSetsSteps, SetsFollow
<1>3. \A n \in 1 .. N : InRange(Value(lefts[n - 1], upd.sets[n].key), upd.sets[n])
  BY <1>1 DEF Acceptable
<1> HIDE DEF tolds, lefts, N
<1>4. 0 \in S
  <2> DEFINE last == tolds[0]
  <2>1. UnsetsTold(last, upd, Len(upd.unsets)) /\ Len(upd.unsets) \in Nat
    BY <1>2, UnsetsAreTold DEF IsUpdate
  <2> HIDE DEF last
  <2>2. Caused(last, upd, cfg, 0)
    BY <2>1 DEF UnsetsTold, Caused
  <2> QED BY <1>1, <2>2 DEF last
<1>5. ASSUME NEW n \in 1 .. N, n - 1 \in S PROVE n \in S
  <2>1. /\ n \in 0 .. N /\ n \in 1 .. Len(upd.sets) /\ Caused(tolds[n - 1], upd, cfg, n - 1)
        /\ tolds[n - 1] \in Told /\ Follows(tolds[n - 1], lefts[n - 1], upd, cfg)
    BY <1>1, <1>2, <1>5 DEF N
  <2>2. Caused(TellSet(upd, cfg, tolds[n - 1], upd.sets[n]), upd, cfg, n)
    BY <1>3, <2>1, SetCaused
  <2> QED BY <1>2, <2>1, <2>2
<1> HIDE DEF S
<1>6. N \in S
  BY <1>1, <1>4, <1>5, InductionTo
<1> QED BY <1>6 DEF S, N, tolds

-----------------------------------------------------------------------------
(* What an update tells.                                                   *)

ControlOK ==
    /\ wait \in Nat /\ timeout \in Nat
    /\ pc \in [Calls -> {"start", "whole", "sent", "again", "error", "done"}]
    /\ daemon \in [Calls -> {"none", "asked", "refused"} \cup Committed]
    /\ told \in [Calls -> {"nothing", "written", "unchanged", "pending"}]
    /\ time \in [Calls -> [held : Nat, other : Nat]]
    /\ fate \in [Calls -> {"none", "arrived", "unread", "lost", "late"}]
    /\ DOMAIN wrote = Calls

\* What is told follows what the daemon did, which follows what it wrote.
ToldAsDone ==
    \A c \in Calls :
        /\ pc[c] \in {"start", "whole"} => daemon[c] = "none"
        /\ daemon[c] = "unchanged" => wrote[c].after = wrote[c].before
        /\ daemon[c] \in {"written", "reached"} => wrote[c].after # wrote[c].before
        /\ told[c] \in {"written", "pending"} => daemon[c] \in {"written", "reached"}
        /\ told[c] = "unchanged" => daemon[c] = "unchanged"
        /\ told[c] = "pending" => wait > 0
        /\ pc[c] = "error" => \/ daemon[c] \in {"none", "refused"}
                              \/ fate[c] \in {"unread", "lost", "late"}

\* A request is held for the wait sent at most, and ends late at its timeout.
TimesBounded ==
    \A c \in Calls :
        /\ time[c].held <= BoundWait(wait, timeout)
        /\ fate[c] = "late" => time[c].held + time[c].other >= timeout

ControlInv == ControlOK /\ ToldAsDone /\ TimesBounded

-----------------------------------------------------------------------------
LEMMA WaitBounds ==
    ASSUME NEW seconds \in Nat, NEW limit \in Nat
    PROVE  /\ BoundWait(seconds, limit) \in Nat
           /\ BoundWait(seconds, limit) > 0 =>
                 seconds > 0 /\ BoundWait(seconds, limit) + WaitMargin <= limit
<1>1. WaitMargin \in Nat
  BY TimesAssumption
<1>2. CASE limit <= WaitMargin
  BY <1>1, <1>2 DEF BoundWait
<1>3. CASE limit > WaitMargin /\ seconds + WaitMargin > limit
  <2>1. BoundWait(seconds, limit) = limit - WaitMargin
    BY <1>1, <1>3 DEF BoundWait
  <2> QED BY <1>1, <1>3, <2>1
<1>4. CASE limit > WaitMargin /\ ~(seconds + WaitMargin > limit)
  <2>1. BoundWait(seconds, limit) = seconds
    BY <1>1, <1>4 DEF BoundWait
  <2> QED BY <1>1, <1>4, <2>1
<1> QED BY <1>1, <1>2, <1>3, <1>4

LEMMA StepCases ==
    ASSUME NEW P, [Next]_vars,
           ASSUME NEW c \in Calls, Refuse(c) \/ ReadNamed(c) \/ ReadWhole(c)
                                   \/ ReadNothing(c) \/ ReadAgain(c) PROVE P,
           ASSUME NEW c \in Calls, Send(c) PROVE P,
           ASSUME NEW c \in Calls, Answered(c) \/ Expired(c) PROVE P,
           ASSUME NEW c \in Calls, RefusalArrives(c) \/ AnswerUnread(c) \/ AnswerLost(c)
                                   \/ GivesUp(c) PROVE P,
           ASSUME NEW c \in Calls, Tick(c) PROVE P,
           ASSUME NEW c \in Calls, Commit(c) PROVE P,
           ASSUME NEW c \in Calls, DaemonRefuses(c) \/ Propagates(c) PROVE P,
           ASSUME OtherWrites PROVE P,
           ASSUME UNCHANGED vars PROVE P
    PROVE  P
  BY DEF Next, CallStep

LEMMA ControlStep ==
    ASSUME ControlOK, [Next]_vars
    PROVE  ControlOK'
<1> USE DEF ControlOK, Committed, asked
<1>1. ASSUME NEW c \in Calls, Refuse(c) \/ ReadNamed(c) \/ ReadWhole(c)
                              \/ ReadNothing(c) \/ ReadAgain(c)
      PROVE  ControlOK'
  <2>1. UNCHANGED <<wait, timeout, daemon, told, time, fate, wrote>>
    BY <1>1 DEF Refuse, ReadNamed, ReadWhole, ReadNothing, ReadAgain
  <2>2. pc' \in {[pc EXCEPT ![c] = place] : place \in {"whole", "error", "done"}}
    BY <1>1 DEF Refuse, ReadNamed, ReadWhole, ReadNothing, ReadAgain, Goto
  <2> QED BY <2>1, <2>2
<1>2. ASSUME NEW c \in Calls, Send(c) PROVE ControlOK'
  BY <1>2 DEF Send, Goto
<1>3. ASSUME NEW c \in Calls, Answered(c) \/ Expired(c) PROVE ControlOK'
  <2>1. PICK what \in {"written", "unchanged", "pending"} : Tell(c, what)
    BY <1>3 DEF Answered, Expired
  <2> QED BY <2>1 DEF Tell, Goto
<1>4. ASSUME NEW c \in Calls, RefusalArrives(c) \/ AnswerUnread(c) \/ AnswerLost(c) \/ GivesUp(c)
      PROVE  ControlOK'
  <2>1. PICK why \in {"arrived", "unread", "lost", "late"} : Fails(c, why)
    BY <1>4 DEF RefusalArrives, AnswerUnread, AnswerLost, GivesUp
  <2> QED BY <2>1 DEF Fails, Goto
<1>5. ASSUME NEW c \in Calls, Tick(c) PROVE ControlOK'
  <2>1. time[c] \in [held : Nat, other : Nat]
    OBVIOUS
  <2>2. /\ [time EXCEPT ![c].held = @ + 1] \in [Calls -> [held : Nat, other : Nat]]
        /\ [time EXCEPT ![c].other = @ + 1] \in [Calls -> [held : Nat, other : Nat]]
    BY <2>1
  <2>3. time' \in [Calls -> [held : Nat, other : Nat]]
    BY <1>5, <2>2 DEF Tick
  <2> QED BY <1>5, <2>3 DEF Tick
<1>6. ASSUME NEW c \in Calls, Commit(c) PROVE ControlOK'
  <2>1. /\ daemon' \in {[daemon EXCEPT ![c] = done] : done \in {"written", "unchanged"}}
        /\ UNCHANGED <<wait, timeout, pc, told, time, fate>>
        /\ DOMAIN wrote' = DOMAIN wrote
    BY <1>6 DEF Commit
  <2> QED BY <2>1
<1>7. ASSUME NEW c \in Calls, DaemonRefuses(c) \/ Propagates(c) PROVE ControlOK'
  BY <1>7 DEF DaemonRefuses, Propagates
<1>8. ASSUME OtherWrites PROVE ControlOK'
  BY <1>8 DEF OtherWrites
<1>9. ASSUME UNCHANGED vars PROVE ControlOK'
  BY <1>9 DEF vars
<1> QED BY <1>1, <1>2, <1>3, <1>4, <1>5, <1>6, <1>7, <1>8, <1>9, StepCases

LEMMA ToldStep ==
    ASSUME ControlOK, ToldAsDone, [Next]_vars
    PROVE  ToldAsDone'
<1> USE DEF ControlOK, ToldAsDone, Committed, asked
<1>1. ASSUME NEW c \in Calls, Refuse(c) \/ ReadNamed(c) \/ ReadWhole(c)
                              \/ ReadNothing(c) \/ ReadAgain(c)
      PROVE  ToldAsDone'
  <2>1. UNCHANGED <<wait, daemon, told, fate, wrote>>
    BY <1>1 DEF Refuse, ReadNamed, ReadWhole, ReadNothing, ReadAgain
  <2>2. \/ pc[c] \in {"start", "whole"}
        \/ pc' = [pc EXCEPT ![c] = "done"]
    BY <1>1 DEF Refuse, ReadNamed, ReadWhole, ReadNothing, ReadAgain, Goto
  <2>3. pc' \in {[pc EXCEPT ![c] = place] : place \in {"whole", "error", "done"}}
    BY <1>1 DEF Refuse, ReadNamed, ReadWhole, ReadNothing, ReadAgain, Goto
  <2> QED BY <2>1, <2>2, <2>3
<1>2. ASSUME NEW c \in Calls, Send(c) PROVE ToldAsDone'
  BY <1>2 DEF Send, Goto
<1>3. ASSUME NEW c \in Calls, Answered(c) PROVE ToldAsDone'
  BY <1>3 DEF Answered, Tell, Goto
<1>4. ASSUME NEW c \in Calls, Expired(c) PROVE ToldAsDone'
  <2>1. wait > 0
    BY <1>4, WaitBounds DEF Expired
  <2> QED BY <1>4, <2>1 DEF Expired, Tell, Goto
<1>5. ASSUME NEW c \in Calls, RefusalArrives(c) \/ AnswerUnread(c) \/ AnswerLost(c) \/ GivesUp(c)
      PROVE  ToldAsDone'
  BY <1>5 DEF RefusalArrives, AnswerUnread, AnswerLost, GivesUp, Fails, Goto
<1>6. ASSUME NEW c \in Calls, Tick(c) PROVE ToldAsDone'
  BY <1>6 DEF Tick
<1>7. ASSUME NEW c \in Calls, Commit(c) PROVE ToldAsDone'
  <2> DEFINE after == Written(config, update)
  <2>1. /\ daemon' = [daemon EXCEPT ![c] = IF after # config THEN "written" ELSE "unchanged"]
        /\ wrote' = [wrote EXCEPT ![c] =
                        [version |-> version, before |-> config, after |-> after]]
        /\ daemon[c] = "asked"
        /\ UNCHANGED <<wait, pc, told, fate>>
    BY <1>7 DEF Commit
  <2> HIDE DEF after
  <2>2. wrote'[c].before = config /\ wrote'[c].after = after
    BY <2>1
  <2>3. \A d \in Calls \ {c} : wrote'[d] = wrote[d] /\ daemon'[d] = daemon[d]
    BY <2>1
  <2>4. pc[c] # "error" \/ fate[c] \in {"unread", "lost", "late"}
    BY <2>1
  <2> QED BY <2>1, <2>2, <2>3, <2>4
<1>8. ASSUME NEW c \in Calls, DaemonRefuses(c) \/ Propagates(c) PROVE ToldAsDone'
  BY <1>8 DEF DaemonRefuses, Propagates
<1>9. ASSUME OtherWrites PROVE ToldAsDone'
  BY <1>9 DEF OtherWrites
<1>10. ASSUME UNCHANGED vars PROVE ToldAsDone'
  BY <1>10 DEF vars
<1> QED BY <1>1, <1>2, <1>3, <1>4, <1>5, <1>6, <1>7, <1>8, <1>9, <1>10, StepCases

LEMMA TimesStep ==
    ASSUME ControlOK, TimesBounded, [Next]_vars
    PROVE  TimesBounded'
<1> USE DEF ControlOK, TimesBounded, asked
<1>a. BoundWait(wait, timeout)' = BoundWait(wait', timeout')
  BY DEF BoundWait
<1>1. ASSUME NEW c \in Calls, Refuse(c) \/ ReadNamed(c) \/ ReadWhole(c)
                              \/ ReadNothing(c) \/ ReadAgain(c)
      PROVE  TimesBounded'
  BY <1>1, <1>a DEF Refuse, ReadNamed, ReadWhole, ReadNothing, ReadAgain
<1>2. ASSUME NEW c \in Calls, Send(c) PROVE TimesBounded'
  BY <1>2, <1>a DEF Send
<1>3. ASSUME NEW c \in Calls, Answered(c) \/ Expired(c) PROVE TimesBounded'
  <2>1. PICK what \in {"written", "unchanged", "pending"} : Tell(c, what)
    BY <1>3 DEF Answered, Expired
  <2> QED BY <2>1, <1>a DEF Tell
<1>4. ASSUME NEW c \in Calls, RefusalArrives(c) \/ AnswerUnread(c) \/ AnswerLost(c) \/ GivesUp(c)
      PROVE  TimesBounded'
  BY <1>4, <1>a DEF RefusalArrives, AnswerUnread, AnswerLost, GivesUp, Fails, Elapsed
<1>5. ASSUME NEW c \in Calls, Tick(c) PROVE TimesBounded'
  <2>1. /\ time[c] \in [held : Nat, other : Nat]
        /\ time[c].held \in Nat /\ time[c].other \in Nat
        /\ BoundWait(wait, timeout) \in Nat
    BY WaitBounds
  <2>2. UNCHANGED <<wait, timeout, fate>>
    BY <1>5 DEF Tick
  <2>5. CASE Holds(c) /\ time' = [time EXCEPT ![c].held = @ + 1]
    <3>1. /\ time'[c].held = time[c].held + 1 /\ time'[c].other = time[c].other
          /\ \A d \in Calls \ {c} : time'[d] = time[d]
      BY <2>1, <2>5
    <3>2. time[c].held < BoundWait(wait, timeout)
      BY <2>5 DEF Holds
    <3> QED BY <2>1, <2>2, <3>1, <3>2, <1>a
  <2>6. CASE ~Holds(c) /\ time' = [time EXCEPT ![c].other = @ + 1]
    <3>1. /\ time'[c].held = time[c].held /\ time'[c].other = time[c].other + 1
          /\ \A d \in Calls \ {c} : time'[d] = time[d]
      BY <2>1, <2>6
    <3> QED BY <2>1, <2>2, <3>1, <1>a
  <2> QED BY <1>5, <2>5, <2>6 DEF Tick
<1>6. ASSUME NEW c \in Calls, Commit(c) \/ DaemonRefuses(c) \/ Propagates(c) PROVE TimesBounded'
  BY <1>6, <1>a DEF Commit, DaemonRefuses, Propagates
<1>7. ASSUME OtherWrites PROVE TimesBounded'
  BY <1>7, <1>a DEF OtherWrites
<1>8. ASSUME UNCHANGED vars PROVE TimesBounded'
  BY <1>8, <1>a DEF vars
<1> QED BY <1>1, <1>2, <1>3, <1>4, <1>5, <1>6, <1>7, <1>8, StepCases

LEMMA ControlInvariant == Spec => []ControlInv
<1>1. Init => ControlInv
  <2> SUFFICES ASSUME Init PROVE ControlInv
    OBVIOUS
  <2>1. wait \in Nat /\ timeout \in Nat
    BY TimesAssumption DEF Init
  <2>2. ControlOK
    BY <2>1 DEF Init, ControlOK, Committed
  <2>3. ToldAsDone
    BY DEF Init, ToldAsDone
  <2>4. TimesBounded
    BY <2>1, WaitBounds DEF Init, TimesBounded
  <2> QED BY <2>2, <2>3, <2>4 DEF ControlInv
<1>2. ControlInv /\ [Next]_vars => ControlInv'
  BY ControlStep, ToldStep, TimesStep DEF ControlInv
<1> QED BY <1>1, <1>2, PTL DEF Spec, SafeSpec

\* For any operations and configurations: what an update tells of its write is
\* what the daemon did, and an error for a write that is done is one whose
\* answer did not arrive or was not read (UpdateObjectConfig).
THEOREM AnswersAreTrue == Spec => []AnswersAreOfTheWrite
<1>1. ControlInv => AnswersAreOfTheWrite
  BY DEF ControlInv, ControlOK, ToldAsDone, AnswersAreOfTheWrite, Committed
<1> QED BY <1>1, ControlInvariant, PTL

\* For any waits, timeouts and margin: a client that gives up on a write done
\* does so for the time that went by outside the wait (boundWait).
THEOREM WaitsAreBounded == Spec => []WaitLeavesTimeToAnswer
<1>1. ControlInv => WaitLeavesTimeToAnswer
  <2> SUFFICES ASSUME ControlInv, NEW c \in Calls, fate[c] = "late"
               PROVE  time[c].other >= WaitMargin \/ time[c].other >= timeout
    BY DEF WaitLeavesTimeToAnswer
  <2>1. /\ time[c].held \in Nat /\ time[c].other \in Nat /\ timeout \in Nat /\ wait \in Nat
        /\ time[c].held <= BoundWait(wait, timeout)
        /\ time[c].held + time[c].other >= timeout
    BY DEF ControlInv, ControlOK, TimesBounded
  <2>2. /\ BoundWait(wait, timeout) \in Nat
        /\ BoundWait(wait, timeout) > 0 => BoundWait(wait, timeout) + WaitMargin <= timeout
    BY <2>1, WaitBounds
  <2> QED BY <2>1, <2>2, TimesAssumption
<1> QED BY <1>1, ControlInvariant, PTL

-----------------------------------------------------------------------------
(* What a preview tells.                                                   *)

Fields == {"changes", "sections", "cut", "from", "at", "whole"}

\* A preview told under a version.
PreviewOK(p, limit) ==
    /\ DOMAIN p = Fields
    /\ p.from \in 0 .. limit /\ p.at \in p.from .. limit
    /\ IsConfig(p.whole)
    /\ \A i \in DOMAIN p.changes : p.changes[i].key \in Keys

WriteOK(w, limit) ==
    /\ w.version \in 0 .. limit
    /\ IsConfig(w.before) /\ IsConfig(w.after)

DataOK ==
    /\ IsConfig(config) /\ version \in 1 .. MaxWrites + 1 /\ update \in Updates
    /\ DOMAIN preview = Calls /\ DOMAIN wrote = Calls
    /\ \A c \in Calls : PreviewOK(preview[c], version) /\ WriteOK(wrote[c], version)

\* The changes a preview tells are those of the operations on a configuration.
ChangesTold(p, upd, cfg) == p.changes = Changes(upd, cfg)

\* It names what the sections deleted hold there, or says it is cut.
SectionsTold(p, upd, cfg) ==
    \A k \in DOMAIN cfg \ Secrets :
        SectionOf[k] \in upd.deletes => p.cut \/ \E s \in p.sections : k \in s.keys

\* A write is of the configuration of its version, and of the operations, which
\* it takes.
WritesHold ==
    \A u \in Calls :
        /\ daemon[u] \in Committed => wrote[u].version # 0
        /\ wrote[u].version # 0 =>
              wrote[u].after = Written(wrote[u].before, update) /\ Acceptable(wrote[u].before, update)
        /\ wrote[u].version = version => wrote[u].before = config

\* What a preview tells is of the configuration as it was, at the versions it
\* read: that of now when the version is, that of any write done on it.
ToldOf(p, cfg, number, done) ==
    /\ p.from = number => ChangesTold(p, update, cfg)
    /\ done /\ p.at = number => SectionsTold(p, update, cfg)

PreviewsHold ==
    \A p \in Calls :
        /\ pc[p] \in {"start", "sent", "again"} => preview[p].from = 0
        /\ preview[p].from # 0 =>
              /\ ToldOf(preview[p], config, version, pc[p] = "done")
              /\ \A u \in Calls :
                    ToldOf(preview[p], wrote[u].before, wrote[u].version, pc[p] = "done")

-----------------------------------------------------------------------------
\* A step that reads and writes nothing: the calls only go on.
Passes ==
    /\ UNCHANGED <<config, version, update, preview, wrote>>
    /\ \A c \in Calls :
          /\ pc'[c] \in {"start", "sent", "again"} => pc[c] \in {"start", "sent", "again"}
          /\ pc'[c] = "done" => pc[c] \in {"start", "sent", "again", "done"}
          /\ daemon'[c] \in Committed => daemon[c] \in Committed

LEMMA DataCases ==
    ASSUME NEW P, ControlOK, [Next]_vars,
           ASSUME NEW c \in Calls, ReadNamed(c) PROVE P,
           ASSUME NEW c \in Calls, ReadWhole(c) PROVE P,
           ASSUME NEW c \in Calls, ReadNothing(c) PROVE P,
           ASSUME NEW c \in Calls, Commit(c) PROVE P,
           ASSUME OtherWrites PROVE P,
           ASSUME Passes PROVE P
    PROVE  P
<1> USE DEF ControlOK, asked
<1>1. ASSUME NEW c \in Calls, Refuse(c) \/ ReadAgain(c) PROVE Passes
  BY <1>1 DEF Refuse, ReadAgain, Goto, Passes
<1>2. ASSUME NEW c \in Calls, Send(c) PROVE Passes
  BY <1>2 DEF Send, Goto, Passes, Committed
<1>3. ASSUME NEW c \in Calls, Answered(c) \/ Expired(c) PROVE Passes
  <2>1. PICK what \in {"written", "unchanged", "pending"} : Tell(c, what) /\ pc[c] = "sent"
    BY <1>3 DEF Answered, Expired
  <2>2. pc' \in {[pc EXCEPT ![c] = place] : place \in {"done", "again"}}
    BY <2>1 DEF Tell, Goto
  <2> QED BY <2>1, <2>2 DEF Tell, Passes
<1>4. ASSUME NEW c \in Calls, RefusalArrives(c) \/ AnswerUnread(c) \/ AnswerLost(c) \/ GivesUp(c)
      PROVE  Passes
  <2>1. PICK why \in {"arrived", "unread", "lost", "late"} : Fails(c, why)
    BY <1>4 DEF RefusalArrives, AnswerUnread, AnswerLost, GivesUp
  <2> QED BY <2>1 DEF Fails, Goto, Passes
<1>5. ASSUME NEW c \in Calls, Tick(c) PROVE Passes
  BY <1>5 DEF Tick, Passes
<1>6. ASSUME NEW c \in Calls, DaemonRefuses(c) \/ Propagates(c) PROVE Passes
  BY <1>6 DEF DaemonRefuses, Propagates, Passes, Committed
<1>7. ASSUME UNCHANGED vars PROVE Passes
  BY <1>7 DEF vars, Passes
<1> QED BY <1>1, <1>2, <1>3, <1>4, <1>5, <1>6, <1>7 DEF Next, CallStep

\* The operations asked are operations, and their configurations typed.
LEMMA UpdateOK == DataOK => IsUpdate(update) /\ config \in Partial(Seq(Words))
  BY UpdatesAssumption, Configs DEF DataOK, IsUpdate

\* The changes of a preview are of keys, and what is written a configuration.
LEMMA ToldOfUpdate ==
    ASSUME NEW upd, IsUpdate(upd), NEW cfg, IsConfig(cfg)
    PROVE  /\ \A i \in DOMAIN Changes(upd, cfg) : Changes(upd, cfg)[i].key \in Keys
           /\ IsConfig(Written(cfg, upd))
<1>1. cfg \in Partial(Seq(Words))
  BY Configs
<1> DEFINE last == ToldSets(upd, cfg)[Len(upd.sets)]
<1>2. last \in Told /\ Written(cfg, upd) \in Partial(Seq(Words))
  BY <1>1, ToldFollows
<1>3. Changes(upd, cfg) = last.changes
  BY DEF Changes
<1> HIDE DEF last
<1>4. \A i \in DOMAIN last.changes : last.changes[i].key \in Keys
  BY <1>2, ToldParts
<1> QED BY <1>2, <1>3, <1>4, Configs

\* What a read changes of the previews.
LEMMA ReadTells ==
    ASSUME DataOK, NEW c \in Calls, ReadNamed(c) \/ ReadWhole(c) \/ ReadNothing(c)
    PROVE  /\ DOMAIN preview' = Calls /\ DOMAIN preview'[c] = Fields
           /\ \A d \in Calls \ {c} : preview'[d] = preview[d]
<1>1. DOMAIN preview = Calls /\ DOMAIN preview[c] = Fields
  BY DEF DataOK, PreviewOK
<1>2. CASE ReadNamed(c)
  BY <1>1, <1>2 DEF ReadNamed, Fields
<1>3. CASE ReadWhole(c)
  <2>1. PICK listed \in Listings(config) :
            preview' = [preview EXCEPT
                ![c].sections = Sections(update, config, listed),
                ![c].cut = listed # DOMAIN config \ Secrets,
                ![c].from = IF pc[c] = "start" THEN version ELSE @,
                ![c].changes = IF pc[c] = "start" THEN Changes(update, config) ELSE @,
                ![c].at = version,
                ![c].whole = config]
    BY <1>3 DEF ReadWhole
  <2> QED BY <1>1, <2>1 DEF Fields
<1>4. CASE ReadNothing(c)
  BY <1>1, <1>4 DEF ReadNothing, Fields
<1> QED BY <1>2, <1>3, <1>4

\* The changes told after a read of the named keys, or of nothing.
LEMMA ReadNamedTells ==
    ASSUME DataOK, NEW c \in Calls, ReadNamed(c)
    PROVE  /\ preview'[c].changes = Changes(update, config)
           /\ preview'[c].from = version /\ preview'[c].at = version
           /\ preview'[c].whole = preview[c].whole
<1>1. DOMAIN preview = Calls /\ DOMAIN preview[c] = Fields
  BY DEF DataOK, PreviewOK
<1> QED BY <1>1 DEF ReadNamed, Fields

LEMMA ReadNothingTells ==
    ASSUME DataOK, NEW c \in Calls, ReadNothing(c)
    PROVE  /\ preview'[c].changes = Changes(update, config)
           /\ preview'[c].from = preview[c].from /\ preview'[c].at = preview[c].at
           /\ preview'[c].whole = preview[c].whole
<1>1. DOMAIN preview = Calls /\ DOMAIN preview[c] = Fields
  BY DEF DataOK, PreviewOK
<1> QED BY <1>1 DEF ReadNothing, Fields

\* What is told after a read of the whole configuration.
LEMMA ReadWholeTells ==
    ASSUME DataOK, NEW c \in Calls, ReadWhole(c)
    PROVE  /\ \E listed \in Listings(config) :
                 /\ preview'[c].sections = Sections(update, config, listed)
                 /\ preview'[c].cut = (listed # DOMAIN config \ Secrets)
           /\ preview'[c].from = IF pc[c] = "start" THEN version ELSE preview[c].from
           /\ preview'[c].changes =
                 IF pc[c] = "start" THEN Changes(update, config) ELSE preview[c].changes
           /\ preview'[c].at = version /\ preview'[c].whole = config
<1>1. DOMAIN preview = Calls /\ DOMAIN preview[c] = Fields
  BY DEF DataOK, PreviewOK
<1>2. PICK listed \in Listings(config) :
          preview' = [preview EXCEPT
              ![c].sections = Sections(update, config, listed),
              ![c].cut = listed # DOMAIN config \ Secrets,
              ![c].from = IF pc[c] = "start" THEN version ELSE @,
              ![c].changes = IF pc[c] = "start" THEN Changes(update, config) ELSE @,
              ![c].at = version,
              ![c].whole = config]
  BY DEF ReadWhole
<1>3. /\ preview'[c].sections = Sections(update, config, listed)
      /\ preview'[c].cut = (listed # DOMAIN config \ Secrets)
  BY <1>1, <1>2 DEF Fields
<1>4. /\ preview'[c].from = IF pc[c] = "start" THEN version ELSE preview[c].from
      /\ preview'[c].at = version /\ preview'[c].whole = config
  BY <1>1, <1>2 DEF Fields
<1>5. preview'[c].changes =
          IF pc[c] = "start" THEN Changes(update, config) ELSE preview[c].changes
  BY <1>1, <1>2 DEF Fields
<1> QED BY <1>3, <1>4, <1>5

\* What holds under a version holds under a later one.
LEMMA LaterOK ==
    ASSUME NEW limit \in Nat, NEW later \in Nat, limit <= later
    PROVE  /\ \A p : PreviewOK(p, limit) => PreviewOK(p, later)
           /\ \A w : WriteOK(w, limit) => WriteOK(w, later)
  BY DEF PreviewOK, WriteOK

\* What a commit changes, of a write or of none.
LEMMA CommitWrites ==
    ASSUME DataOK, NEW c \in Calls, Commit(c)
    PROVE  /\ config' = Written(config, update)
           /\ \/ config' # config /\ version' = version + 1 /\ version <= MaxWrites
              \/ config' = config /\ version' = version
           /\ DOMAIN wrote' = Calls
           /\ wrote'[c].version = version /\ wrote'[c].before = config
           /\ wrote'[c].after = Written(config, update) /\ Acceptable(config, update)
           /\ \A d \in Calls \ {c} : wrote'[d] = wrote[d]
           /\ UNCHANGED <<update, pc, preview>>
<1> DEFINE after == Written(config, update)
<1>1. /\ after # config => version <= MaxWrites
      /\ config' = after
      /\ version' = IF after # config THEN version + 1 ELSE version
      /\ wrote' = [wrote EXCEPT ![c] = [version |-> version, before |-> config, after |-> after]]
      /\ Acceptable(config, update) /\ UNCHANGED <<update, pc, preview>>
  BY DEF Commit, asked
<1> HIDE DEF after
<1>2. DOMAIN wrote = Calls
  BY DEF DataOK
<1> QED BY <1>1, <1>2 DEF after

LEMMA DataStep ==
    ASSUME DataOK, ControlOK, [Next]_vars
    PROVE  DataOK'
<1>0. /\ version \in Nat /\ version >= 1 /\ MaxWrites \in Nat
      /\ \A c \in Calls : PreviewOK(preview[c], version) /\ WriteOK(wrote[c], version)
  BY TimesAssumption DEF DataOK
<1>1. ASSUME NEW c \in Calls, UNCHANGED <<config, version, update, wrote>>,
             ReadNamed(c) \/ ReadWhole(c) \/ ReadNothing(c), PreviewOK(preview'[c], version)
      PROVE  DataOK'
  <2>1. /\ DOMAIN preview' = Calls
        /\ \A d \in Calls \ {c} : preview'[d] = preview[d]
    BY <1>1, ReadTells
  <2>2. \A d \in Calls : PreviewOK(preview'[d], version)
    BY <1>0, <1>1, <2>1
  <2> QED BY <1>1, <2>1, <2>2 DEF DataOK
<1>2. \A i \in DOMAIN Changes(update, config) : Changes(update, config)[i].key \in Keys
  BY UpdateOK, ToldOfUpdate DEF DataOK
<1>3. ASSUME NEW c \in Calls, ReadNamed(c) PROVE DataOK'
  <2>1. PreviewOK(preview'[c], version)
    BY <1>0, <1>2, <1>3, ReadTells, ReadNamedTells DEF PreviewOK
  <2>2. UNCHANGED <<config, version, update, wrote>>
    BY <1>3 DEF ReadNamed, asked
  <2> QED BY <1>1, <1>3, <2>1, <2>2
<1>4. ASSUME NEW c \in Calls, ReadWhole(c) PROVE DataOK'
  <2>1. PreviewOK(preview'[c], version)
    BY <1>0, <1>2, <1>4, ReadTells, ReadWholeTells DEF PreviewOK, DataOK
  <2>2. UNCHANGED <<config, version, update, wrote>>
    BY <1>4 DEF ReadWhole, asked
  <2> QED BY <1>1, <1>4, <2>1, <2>2
<1>5. ASSUME NEW c \in Calls, ReadNothing(c) PROVE DataOK'
  <2>1. PreviewOK(preview'[c], version)
    BY <1>0, <1>2, <1>5, ReadTells, ReadNothingTells DEF PreviewOK
  <2>2. UNCHANGED <<config, version, update, wrote>>
    BY <1>5 DEF ReadNothing, asked
  <2> QED BY <1>1, <1>5, <2>1, <2>2
<1>6. ASSUME NEW c \in Calls, Commit(c) PROVE DataOK'
  <2>1. IsConfig(config) /\ IsConfig(Written(config, update))
    BY UpdateOK, ToldOfUpdate DEF DataOK
  <2>2. version' \in 1 .. MaxWrites + 1 /\ version <= version' /\ IsConfig(config')
    BY <1>0, <1>6, <2>1, CommitWrites DEF DataOK
  <2>3. WriteOK(wrote'[c], version)
    BY <1>0, <1>6, <2>1, CommitWrites DEF WriteOK
  <2>4. \A d \in Calls : WriteOK(wrote'[d], version) /\ PreviewOK(preview'[d], version)
    BY <1>0, <1>6, <2>3, CommitWrites
  <2>5. \A d \in Calls : WriteOK(wrote'[d], version') /\ PreviewOK(preview'[d], version')
    BY <1>0, <2>2, <2>4, LaterOK
  <2> QED BY <1>6, <2>2, <2>5, CommitWrites DEF DataOK
<1>7. ASSUME OtherWrites PROVE DataOK'
  <2>1. /\ version' \in 1 .. MaxWrites + 1 /\ version <= version'
        /\ UNCHANGED <<update, preview, wrote>>
    BY <1>0, <1>7 DEF OtherWrites, asked
  <2>2. IsConfig(config')
    BY <1>7, InitialsAssumption DEF OtherWrites
  <2>3. \A d \in Calls : WriteOK(wrote'[d], version') /\ PreviewOK(preview'[d], version')
    BY <1>0, <2>1, LaterOK
  <2> QED BY <2>1, <2>2, <2>3 DEF DataOK
<1>8. ASSUME Passes PROVE DataOK'
  BY <1>8 DEF Passes, DataOK
<1> QED BY <1>3, <1>4, <1>5, <1>6, <1>7, <1>8, DataCases

LEMMA WritesStep ==
    ASSUME DataOK, ControlOK, WritesHold, [Next]_vars
    PROVE  WritesHold'
<1>0. version \in Nat /\ version >= 1 /\ \A u \in Calls : wrote[u].version \in 0 .. version
  BY TimesAssumption DEF DataOK, WriteOK
<1>1. ASSUME NEW c \in Calls, ReadNamed(c) \/ ReadWhole(c) \/ ReadNothing(c) PROVE WritesHold'
  <2>1. UNCHANGED <<config, version, update, daemon, wrote>>
    BY <1>1 DEF ReadNamed, ReadWhole, ReadNothing, asked
  <2> QED BY <2>1 DEF WritesHold
<1>2. ASSUME NEW c \in Calls, Commit(c) PROVE WritesHold'
  <2>1. \A d \in Calls \ {c} : daemon'[d] = daemon[d]
    BY <1>2 DEF Commit, ControlOK
  <2>2. ASSUME NEW u \in Calls, u # c
        PROVE  /\ daemon'[u] \in Committed => wrote'[u].version # 0
               /\ wrote'[u].version # 0 => /\ wrote'[u].after = Written(wrote'[u].before, update')
                                           /\ Acceptable(wrote'[u].before, update')
               /\ wrote'[u].version = version' => wrote'[u].before = config'
    <3>1. wrote'[u] = wrote[u] /\ daemon'[u] = daemon[u] /\ update' = update
      BY <1>2, <2>1, <2>2, CommitWrites
    <3>2. wrote[u].version = version' => version' = version /\ config' = config
      BY <1>0, <1>2, CommitWrites
    <3> QED BY <3>1, <3>2 DEF WritesHold
  <2>3. /\ wrote'[c].version # 0
        /\ wrote'[c].after = Written(wrote'[c].before, update')
        /\ Acceptable(wrote'[c].before, update')
        /\ wrote'[c].version = version' => wrote'[c].before = config'
    BY <1>0, <1>2, CommitWrites
  <2> QED BY <2>2, <2>3 DEF WritesHold
<1>3. ASSUME OtherWrites PROVE WritesHold'
  <2>1. version' = version + 1 /\ UNCHANGED <<update, daemon, wrote>>
    BY <1>3 DEF OtherWrites, asked
  <2> QED BY <1>0, <2>1 DEF WritesHold
<1>4. ASSUME Passes PROVE WritesHold'
  BY <1>4 DEF Passes, WritesHold
<1> QED BY <1>1, <1>2, <1>3, <1>4, DataCases

\* What a read of the whole configuration names of the sections deleted.
LEMMA SectionsNamed ==
    ASSUME NEW upd, NEW cfg, NEW listed, NEW p, p.sections = Sections(upd, cfg, listed),
           p.cut = (listed # DOMAIN cfg \ Secrets)
    PROVE  SectionsTold(p, upd, cfg)
<1> SUFFICES ASSUME NEW k \in DOMAIN cfg \ Secrets, SectionOf[k] \in upd.deletes,
                    listed = DOMAIN cfg \ Secrets
             PROVE  \E s \in p.sections : k \in s.keys
  BY DEF SectionsTold
<1> DEFINE s == [section |-> SectionOf[k], keys |-> {j \in listed : SectionOf[j] = SectionOf[k]},
                 secrets |-> SecretsOfSection(cfg, SectionOf[k])]
<1>1. s \in p.sections
  BY DEF Sections
<1>2. k \in s.keys
  OBVIOUS
<1> QED BY <1>1, <1>2

\* A preview told of the configuration of now is told of that of any write of
\* its version.
LEMMA ToldOfNow ==
    ASSUME WritesHold, NEW p, NEW done, NEW u \in Calls, ToldOf(p, config, version, done),
           p.from # version => ToldOf(p, wrote[u].before, wrote[u].version, FALSE),
           p.at = version
    PROVE  ToldOf(p, wrote[u].before, wrote[u].version, done)
<1>1. wrote[u].version = version => wrote[u].before = config
  BY DEF WritesHold
<1>2. ASSUME p.from = wrote[u].version PROVE ChangesTold(p, update, wrote[u].before)
  BY <1>1, <1>2 DEF ToldOf
<1>3. ASSUME done, p.at = wrote[u].version PROVE SectionsTold(p, update, wrote[u].before)
  BY <1>1, <1>3 DEF ToldOf
<1> QED BY <1>2, <1>3 DEF ToldOf

LEMMA PreviewsStep ==
    ASSUME DataOK, ControlOK, WritesHold, PreviewsHold, [Next]_vars
    PROVE  PreviewsHold'
<1>0. /\ version \in Nat /\ version >= 1
      /\ \A c \in Calls : /\ wrote[c].version \in 0 .. version
                          /\ preview[c].from \in 0 .. version /\ preview[c].at \in 0 .. version
  BY TimesAssumption DEF DataOK, WriteOK, PreviewOK
<1>1. ASSUME NEW c \in Calls, ReadNamed(c) \/ ReadWhole(c) \/ ReadNothing(c),
             pc'[c] \in {"whole", "done"},
             preview'[c].from # 0 =>
                 /\ ToldOf(preview'[c], config, version, pc'[c] = "done")
                 /\ \A u \in Calls :
                        ToldOf(preview'[c], wrote[u].before, wrote[u].version, pc'[c] = "done")
      PROVE  PreviewsHold'
  <2>1. /\ UNCHANGED <<config, version, update, wrote>>
        /\ \A d \in Calls \ {c} : preview'[d] = preview[d] /\ pc'[d] = pc[d]
    BY <1>1, ReadTells DEF ReadNamed, ReadWhole, ReadNothing, asked, Goto, ControlOK
  <2>2. ASSUME NEW p \in Calls
        PROVE  /\ pc'[p] \in {"start", "sent", "again"} => preview'[p].from = 0
               /\ preview'[p].from # 0 =>
                     /\ ToldOf(preview'[p], config, version, pc'[p] = "done")
                     /\ \A u \in Calls :
                           ToldOf(preview'[p], wrote[u].before, wrote[u].version, pc'[p] = "done")
    <3>1. CASE p = c
      BY <1>1, <3>1
    <3>2. CASE p # c
      BY <2>1, <3>2 DEF PreviewsHold
    <3> QED BY <3>1, <3>2
  <2> QED BY <2>1, <2>2 DEF PreviewsHold, ToldOf, ChangesTold, SectionsTold
<1>2. ASSUME NEW c \in Calls, ReadNamed(c) PROVE PreviewsHold'
  <2> DEFINE done == pc'[c] = "done"
  <2>1. /\ preview'[c].from = version /\ preview'[c].at = version
        /\ preview'[c].changes = Changes(update, config)
    BY <1>2, ReadNamedTells
  <2>2. pc'[c] = IF update.deletes = {} THEN "done" ELSE "whole"
    BY <1>2 DEF ReadNamed, Goto, ControlOK
  <2>3. ToldOf(preview'[c], config, version, done)
    BY <2>1, <2>2 DEF ToldOf, ChangesTold, SectionsTold
  <2>4. \A u \in Calls : ToldOf(preview'[c], wrote[u].before, wrote[u].version, done)
    BY <2>1, <2>3, ToldOfNow
  <2> QED BY <1>1, <1>2, <2>2, <2>3, <2>4
<1>3. ASSUME NEW c \in Calls, ReadWhole(c) PROVE PreviewsHold'
  <2> DEFINE done == pc'[c] = "done"
  <2>1. /\ preview'[c].from = IF pc[c] = "start" THEN version ELSE preview[c].from
        /\ preview'[c].changes =
              IF pc[c] = "start" THEN Changes(update, config) ELSE preview[c].changes
        /\ preview'[c].at = version
    BY <1>3, ReadWholeTells
  <2>2. pc'[c] = "done"
    BY <1>3 DEF ReadWhole, Goto, ControlOK
  <2>3. SectionsTold(preview'[c], update, config)
    BY <1>3, ReadWholeTells, SectionsNamed
  <2>4. ASSUME preview'[c].from # 0 PROVE ToldOf(preview'[c], config, version, done)
    BY <2>1, <2>2, <2>3, <2>4 DEF PreviewsHold, ToldOf, ChangesTold
  <2>5. ASSUME preview'[c].from # 0, preview'[c].from # version, NEW u \in Calls
        PROVE  ToldOf(preview'[c], wrote[u].before, wrote[u].version, FALSE)
    BY <2>1, <2>5 DEF PreviewsHold, ToldOf, ChangesTold
  <2>6. ASSUME preview'[c].from # 0, NEW u \in Calls
        PROVE  ToldOf(preview'[c], wrote[u].before, wrote[u].version, done)
    BY <2>1, <2>4, <2>5, <2>6, ToldOfNow
  <2> QED BY <1>1, <1>3, <2>2, <2>4, <2>6
<1>4. ASSUME NEW c \in Calls, ReadNothing(c) PROVE PreviewsHold'
  <2>1. preview'[c].from = preview[c].from /\ pc[c] = "start"
    BY <1>4, ReadNothingTells DEF ReadNothing
  <2>2. preview'[c].from = 0 /\ pc'[c] = "done"
    BY <1>4, <2>1 DEF PreviewsHold, ReadNothing, Goto, ControlOK
  <2> QED BY <1>1, <1>4, <2>2
<1>5. ASSUME NEW c \in Calls, Commit(c) PROVE PreviewsHold'
  <2>1. /\ UNCHANGED <<update, pc, preview>>
        /\ \A d \in Calls \ {c} : wrote'[d] = wrote[d]
        /\ wrote'[c].version = version /\ wrote'[c].before = config
        /\ \/ version' = version /\ config' = config
           \/ version' = version + 1
    BY <1>5, CommitWrites
  <2>2. ASSUME NEW p \in Calls, preview[p].from # 0
        PROVE  ToldOf(preview[p], config', version', pc[p] = "done")
    BY <1>0, <2>1, <2>2 DEF PreviewsHold, ToldOf
  <2>3. ASSUME NEW p \in Calls, preview[p].from # 0, NEW u \in Calls
        PROVE  ToldOf(preview[p], wrote'[u].before, wrote'[u].version, pc[p] = "done")
    BY <2>1, <2>3 DEF PreviewsHold
  <2> QED BY <2>1, <2>2, <2>3 DEF PreviewsHold, ToldOf, ChangesTold, SectionsTold
<1>6. ASSUME OtherWrites PROVE PreviewsHold'
  <2>1. version' = version + 1 /\ UNCHANGED <<update, pc, preview, wrote>>
    BY <1>6 DEF OtherWrites, asked
  <2>2. \A p \in Calls : preview[p].from # version' /\ preview[p].at # version'
    BY <1>0, <2>1
  <2> QED BY <2>1, <2>2 DEF PreviewsHold, ToldOf, ChangesTold, SectionsTold
<1>7. ASSUME Passes PROVE PreviewsHold'
  <2>1. /\ UNCHANGED <<config, version, update, preview, wrote>>
        /\ \A c \in Calls :
              /\ pc'[c] \in {"start", "sent", "again"} => preview[c].from = 0
              /\ preview[c].from # 0 /\ pc'[c] = "done" => pc[c] = "done"
    BY <1>7 DEF Passes, PreviewsHold
  <2> QED BY <2>1 DEF PreviewsHold, ToldOf, ChangesTold, SectionsTold
<1> QED BY <1>2, <1>3, <1>4, <1>5, <1>6, <1>7, DataCases

\* The wait and the timeout asked, and the seconds of a request under them.
SecondsOK ==
    /\ wait \in Waits /\ timeout \in Timeouts
    /\ time \in [Calls -> [held : 0 .. timeout, other : 0 .. timeout]]

LEMMA SecondsStep ==
    ASSUME SecondsOK, [Next]_vars
    PROVE  SecondsOK'
<1> USE DEF SecondsOK, asked
<1>1. ASSUME NEW c \in Calls, Tick(c) PROVE SecondsOK'
  <2>1. timeout \in Nat /\ time[c] \in [held : 0 .. timeout, other : 0 .. timeout]
    BY TimesAssumption
  <2>2. time[c].held + 1 \in 0 .. timeout /\ time[c].other + 1 \in 0 .. timeout
    <3>1. time[c].held \in 0 .. timeout /\ time[c].other \in 0 .. timeout
      BY <2>1
    <3>2. time[c].held + time[c].other < timeout
      BY <1>1 DEF Tick, Elapsed
    <3> QED BY <2>1, <3>1, <3>2
  <2>3. /\ [time EXCEPT ![c].held = @ + 1] \in [Calls -> [held : 0 .. timeout, other : 0 .. timeout]]
        /\ [time EXCEPT ![c].other = @ + 1] \in [Calls -> [held : 0 .. timeout, other : 0 .. timeout]]
    BY <2>1, <2>2
  <2>4. UNCHANGED <<wait, timeout>>
    BY <1>1 DEF Tick
  <2> QED BY <1>1, <2>3, <2>4 DEF Tick
<1>2. ASSUME UNCHANGED <<wait, timeout, time>> PROVE SecondsOK'
  BY <1>2
<1>3. ASSUME NEW c \in Calls, CallStep(c) \/ Commit(c) \/ DaemonRefuses(c) \/ Propagates(c)
      PROVE  UNCHANGED <<wait, timeout, time>>
  BY <1>3 DEF CallStep, Refuse, ReadNamed, ReadWhole, ReadNothing, Send, Answered, Expired,
              RefusalArrives, AnswerUnread, AnswerLost, GivesUp, ReadAgain, Tell, Fails,
              Commit, DaemonRefuses, Propagates
<1>4. OtherWrites \/ UNCHANGED vars => UNCHANGED <<wait, timeout, time>>
  BY DEF OtherWrites, vars
<1> QED BY <1>1, <1>2, <1>3, <1>4 DEF Next

DataInv == DataOK /\ SecondsOK /\ WritesHold /\ PreviewsHold

LEMMA DataInvariant == Spec => [](ControlInv /\ DataInv)
<1>1. Init => DataInv
  <2> SUFFICES ASSUME Init PROVE DataInv
    OBVIOUS
  <2>1. MaxWrites \in Nat /\ timeout \in Nat
    BY TimesAssumption DEF Init
  <2>2. IsConfig([k \in {} |-> <<>>])
    BY DEF IsConfig
  <2>3. PreviewOK(Nothing, 1) /\ WriteOK(Unwritten, 1)
    BY <2>2 DEF PreviewOK, WriteOK, Nothing, Unwritten, Fields
  <2>4. DataOK
    BY <2>1, <2>3, InitialsAssumption DEF Init, DataOK
  <2>5. SecondsOK
    BY <2>1 DEF Init, SecondsOK
  <2>6. WritesHold
    BY DEF Init, WritesHold, Unwritten, Committed
  <2>7. PreviewsHold
    BY DEF Init, PreviewsHold, Nothing
  <2> QED BY <2>4, <2>5, <2>6, <2>7 DEF DataInv
<1>2. ControlInv /\ DataInv /\ [Next]_vars => DataInv'
  BY DataStep, SecondsStep, WritesStep, PreviewsStep DEF DataInv, ControlInv
<1> QED BY <1>1, <1>2, ControlInvariant, PTL DEF Spec, SafeSpec

\* For any operations, configurations and times: what is written is always a
\* configuration, and a preview dates from versions there were.
THEOREM Typed == Spec => []TypeOK
<1>1. ControlInv /\ DataInv => TypeOK
  <2> SUFFICES ASSUME ControlInv, DataInv PROVE TypeOK
    OBVIOUS
  <2>1. ASSUME NEW c \in Calls
        PROVE  /\ preview[c].from \in 0 .. version /\ preview[c].at \in preview[c].from .. version
               /\ IsConfig(preview[c].whole)
               /\ \A i \in DOMAIN preview[c].changes : preview[c].changes[i].key \in Keys
               /\ IsConfig(wrote[c].before) /\ IsConfig(wrote[c].after)
    BY DEF DataInv, DataOK, PreviewOK, WriteOK
  <2> QED BY <2>1 DEF TypeOK, ControlInv, ControlOK, DataInv, DataOK, SecondsOK
<1> QED BY <1>1, DataInvariant, PTL

\* For any operations and configurations: when nobody wrote since the reads of
\* a preview, an update does what was told (configUpdate.preview, "each from the
\* value the previous ones leave").
THEOREM PreviewsAreTrue == Spec => []PreviewTellsUpdate
<1>1. ControlInv /\ DataInv => PreviewTellsUpdate
  <2> SUFFICES ASSUME ControlInv, DataInv, NEW p \in Calls, NEW u \in Calls,
                      pc[p] = "done", daemon[u] \in Committed,
                      wrote[u].version = preview[p].from, preview[p].at = preview[p].from
               PROVE  /\ \A i \in DOMAIN preview[p].changes :
                            LastChange(p, i) /\ preview[p].changes[i].computed =>
                                Value(wrote[u].after, preview[p].changes[i].key)
                                    = preview[p].changes[i].after
                      /\ \A k \in Keys \ Secrets :
                            Value(wrote[u].after, k) # Value(wrote[u].before, k) =>
                                \/ \E i \in DOMAIN preview[p].changes : preview[p].changes[i].key = k
                                \/ preview[p].cut
                                \/ \E s \in preview[p].sections : k \in s.keys
    BY DEF PreviewTellsUpdate
  <2> DEFINE before == wrote[u].before
             last == ToldSets(update, before)[Len(update.sets)]
             changes == preview[p].changes
  <2>1. ToldOf(preview[p], before, wrote[u].version, pc[p] = "done")
    BY DEF DataInv, WritesHold, PreviewsHold
  <2>2. changes = last.changes /\ SectionsTold(preview[p], update, before)
    BY <2>1 DEF ToldOf, ChangesTold, Changes
  <2>3. wrote[u].after = Written(before, update)
    BY DEF DataInv, WritesHold
  <2>4. before \in Partial(Seq(Words)) /\ IsUpdate(update)
    BY Configs, UpdateOK DEF DataInv, DataOK, WriteOK
  <2> HIDE DEF before
  <2>5. Follows(last, Written(before, update), update, before) /\ last \in Told
    BY <2>4, ToldFollows
  <2> HIDE DEF last
  <2>6. DOMAIN changes = 1 .. Len(changes)
    BY <2>2, <2>5, ToldParts
  <2>7. ASSUME NEW i \in DOMAIN changes, LastChange(p, i), changes[i].computed
        PROVE  Value(wrote[u].after, changes[i].key) = changes[i].after
    <3>1. changes[i].computed = TRUE
      BY <2>7
    <3>2. \A j \in 1 .. Len(changes) : changes[j].key = changes[i].key => j <= i
      BY <2>6, <2>7 DEF LastChange
    <3> QED BY <2>2, <2>3, <2>5, <2>6, <2>7, <3>1, <3>2 DEF Follows, LastsHold
  <2>8. ASSUME NEW k \in Keys \ Secrets, Value(wrote[u].after, k) # Value(before, k),
               ~ \E i \in DOMAIN changes : changes[i].key = k
        PROVE  preview[p].cut \/ \E s \in preview[p].sections : k \in s.keys
    <3>1. k \notin DOMAIN last.state
      BY <2>2, <2>5, <2>6, <2>8 DEF Follows, KeysTold
    <3>2. SectionOf[k] \in update.deletes /\ k \in DOMAIN before
      BY <2>3, <2>5, <2>8, <3>1 DEF Follows, RestKept, Value
    <3> QED BY <2>2, <3>2 DEF SectionsTold
  <2> QED BY <2>7, <2>8 DEF before
<1> QED BY <1>1, DataInvariant, PTL

\* For any operations and configurations: of an update the daemon takes, a
\* preview of the same configuration computes every change but those of secrets
\* and of values that no operation replaces and that do not fit in the read,
\* alone or with the values read before them (applyConfigOperation,
\* configKeywordsOf).
THEOREM UncomputedAreCaused == Spec => []UncomputedForCause
<1>1. ControlInv /\ DataInv => UncomputedForCause
  <2> SUFFICES ASSUME ControlInv, DataInv, NEW p \in Calls, NEW u \in Calls,
                      pc[p] = "done", daemon[u] \in Committed,
                      wrote[u].version = preview[p].from, preview[p].at = preview[p].from,
                      NEW i \in DOMAIN preview[p].changes
               PROVE  \/ preview[p].changes[i].computed \/ preview[p].changes[i].key \in Secrets
                      \/ TooLong(wrote[u].before, preview[p].changes[i].key, i - Len(update.unsets))
    BY DEF UncomputedForCause
  <2> DEFINE before == wrote[u].before
             last == ToldSets(update, before)[Len(update.sets)]
             changes == preview[p].changes
  <2>1. ToldOf(preview[p], before, wrote[u].version, pc[p] = "done")
    BY DEF DataInv, WritesHold, PreviewsHold
  <2>2. changes = last.changes
    BY <2>1 DEF ToldOf, ChangesTold, Changes
  <2>3. Acceptable(before, update)
    BY DEF DataInv, WritesHold
  <2>4. before \in Partial(Seq(Words)) /\ IsUpdate(update)
    BY Configs, UpdateOK DEF DataInv, DataOK, WriteOK
  <2> HIDE DEF before
  <2>5. Caused(last, update, before, Len(update.sets)) /\ last \in Told
    BY <2>3, <2>4, ToldCaused, ToldFollows
  <2> HIDE DEF last
  <2>6. DOMAIN changes = 1 .. Len(changes)
    BY <2>2, <2>5, ToldParts
  <2>7. \/ changes[i].computed = TRUE \/ changes[i].key \in Secrets
        \/ Unknown(update, before, changes[i].key, i - Len(update.unsets))
    BY <2>2, <2>5, <2>6 DEF Caused
  <2> QED BY <2>7 DEF Unknown, TooLong, before
<1> QED BY <1>1, DataInvariant, PTL
=============================================================================
