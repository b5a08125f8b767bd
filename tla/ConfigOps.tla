----------------------------- MODULE ConfigOps -----------------------------
(***************************************************************************)
(* The operations of an update on a configuration: sections deleted, keys  *)
(* unset, set operations on lists of words.  What the daemon makes of them *)
(* (Written), and what a preview tells of them before (Changes, Sections). *)
(* A configuration is a function on the keys it sets; a key not set reads  *)
(* as no word at all, as an empty one does.                                *)
(***************************************************************************)
EXTENDS Naturals, SequencesExt

CONSTANTS
    Keys,            \* the keys, their section and scope included
    SectionOf,       \* SectionOf[k]: the section of key k
    Secrets,         \* the keys never shown: isSecretKeyword, data of a secret
    SecretKeywords,  \* those of them that name no scope, as secretKeywords does
    Order,           \* the keys, in the order a read gives them
    Words,           \* the words of values
    MaxWords,        \* the words of a value a read gives, cut beyond
    MaxRead,         \* the words of all the values a read gives, cut beyond
    MaxKeys          \* the keys a read of the whole configuration gives

ASSUME KeysAssumption ==
    /\ SecretKeywords \subseteq Secrets /\ Secrets \subseteq Keys
    /\ Order \in Seq(Keys) /\ IsInjective(Order) /\ ToSet(Order) = Keys
    /\ MaxWords \in Nat /\ MaxRead \in Nat /\ MaxKeys \in Nat

IsConfig(config) == DOMAIN config \subseteq Keys /\ config \in [DOMAIN config -> Seq(Words)]

\* A set operation, its key, operator, value and index split.
Operations ==
    [key : Keys, op : {"=", "+=", "-=", "|=", "^=", "insert"}, value : Seq(Words), index : Nat]

Value(config, k) == IF k \in DOMAIN config THEN config[k] ELSE <<>>

-----------------------------------------------------------------------------
(* The read of a preview.                                                  *)

\* The keys the preview reads by name: the secrets are not even read.
Named(update) ==
    (ToSet(update.unsets) \cup {operation.key : operation \in ToSet(update.sets)}) \ Secrets

\* The words of a value a read gives, with room for so many: the mark that ends
\* a value cut is left out.
Alone(words) == IF Len(words) > MaxWords THEN MaxWords ELSE Len(words)
Taken(words, room) == IF Alone(words) < room THEN Alone(words) ELSE room

\* The room each key leaves to those after it: the keys named are given in
\* their order, whatever the order of the operations, and share one room.
Rooms(update, config) ==
    LET room[n \in 0 .. Len(Order)] ==
            IF n = 0 THEN MaxRead
            ELSE IF Order[n] \in Named(update)
                 THEN room[n - 1] - Taken(Value(config, Order[n]), room[n - 1])
                 ELSE room[n - 1]
    IN  room

Place(k) == CHOOSE n \in DOMAIN Order : Order[n] = k

\* How much of the value of a key is read.
Given(update, config, k) ==
    Taken(Value(config, k), Rooms(update, config)[Place(k) - 1])

\* The words of the values named, up to each key in order, were each of them
\* read alone: what the room of a read is compared with.
Together(update, config) ==
    LET sum[n \in 0 .. Len(Order)] ==
            IF n = 0 THEN 0
            ELSE IF Order[n] \in Named(update) THEN sum[n - 1] + Alone(Value(config, Order[n]))
                 ELSE sum[n - 1]
    IN  sum

-----------------------------------------------------------------------------
(* Bugs the operators below could have, for mutation runs.                  *)

\* A key is previewed from the configuration read, whatever the operations
\* before left of it.
ValueOfRead(update, config, state, k) ==
    [words |-> Value(config, k), known |-> TRUE]

\* Whether a value was read whole is looked at before whether its section is
\* deleted.
ValueCutFirst(update, config, state, k) ==
    LET value == Value(config, k)
        given == Given(update, config, k)
    IN  IF k \in DOMAIN state THEN state[k]
        ELSE IF given < Len(value) THEN [words |-> SubSeq(value, 1, given), known |-> FALSE]
        ELSE [words |-> IF SectionOf[k] \in update.deletes THEN <<>> ELSE value, known |-> TRUE]

-----------------------------------------------------------------------------
(* One set operation.                                                      *)

\* An index past the words is refused, or fails.
InRange(words, operation) ==
    operation.op = "insert" /\ operation.value # <<>> => operation.index <= Len(words)

\* The words but those equal to one.
Without(words, word) ==
    LET kept[n \in 0 .. Len(words)] ==
            IF n = 0 THEN <<>>
            ELSE IF words[n] = word THEN kept[n - 1] ELSE Append(kept[n - 1], words[n])
    IN  kept[Len(words)]

\* The words a list takes, "insert" being an indexed =.  The daemon applies
\* the operator as the code says om3 does; past the words, it does not.
Applied(words, operation) ==
    LET value    == operation.value
        among    == Len(value) = 1 /\ Contains(words, value[1])
        appended == words \o value
        removed  == IF among THEN Without(words, value[1]) ELSE words
        inserted == SubSeq(words, 1, operation.index) \o value
                        \o SubSeq(words, operation.index + 1, Len(words))
    IN  CASE operation.op = "="  -> value
          [] operation.op = "+=" -> appended
          [] operation.op = "-=" -> removed
          [] operation.op = "|=" -> IF among THEN words ELSE appended
          [] operation.op = "^=" -> IF among THEN removed ELSE appended
          [] operation.op = "insert" ->
                 IF value = <<>> \/ ~InRange(words, operation) THEN words ELSE inserted

-----------------------------------------------------------------------------
(* The daemon.                                                             *)

\* A configuration, or what is known of one, once a key has a value.
Put(values, k, value) ==
    [j \in DOMAIN values \cup {k} |-> IF j = k THEN value ELSE values[j]]

\* What the deletes and the unsets leave.
Kept(config, update) ==
    [k \in {k \in DOMAIN config : /\ SectionOf[k] \notin update.deletes
                                  /\ ~Contains(update.unsets, k)} |-> config[k]]

AfterSet(left, operation) ==
    Put(left, operation.key, Applied(Value(left, operation.key), operation))

\* What the first n set operations leave, n by n, after the deletes and the
\* unsets.
AfterSets(config, update) ==
    LET left[n \in 0 .. Len(update.sets)] ==
            IF n = 0 THEN Kept(config, update) ELSE AfterSet(left[n - 1], update.sets[n])
    IN  left

Written(config, update) == AfterSets(config, update)[Len(update.sets)]

Acceptable(config, update) ==
    \A n \in DOMAIN update.sets :
        InRange(Value(AfterSets(config, update)[n - 1], update.sets[n].key), update.sets[n])

-----------------------------------------------------------------------------
(* The preview.                                                            *)

\* The value a key holds as the operations go, and whether it is known in full.
ValueOf(update, config, state, k) ==
    LET value == Value(config, k)
        given == Given(update, config, k)
    IN  IF k \in DOMAIN state THEN state[k]
        ELSE IF SectionOf[k] \in update.deletes THEN [words |-> <<>>, known |-> TRUE]
        ELSE [words |-> IF given < Len(value) THEN SubSeq(value, 1, given) ELSE value,
              known |-> given >= Len(value)]

\* The result of an operation is told when it is known.
Computed(before, operation) ==
    operation.op = "=" \/ (before.known /\ InRange(before.words, operation))

HiddenChange(k) == [key |-> k, before |-> <<>>, after |-> <<>>, computed |-> FALSE]

\* What is told of one operation more: the state its key is left in, and the
\* change.
TellUnset(update, config, told, k) ==
    [state   |-> Put(told.state, k, [words |-> <<>>, known |-> TRUE]),
     changes |-> Append(told.changes,
         IF k \in Secrets THEN HiddenChange(k)
         ELSE [key |-> k, before |-> ValueOf(update, config, told.state, k).words,
               after |-> <<>>, computed |-> TRUE])]

TellSet(update, config, told, operation) ==
    LET k        == operation.key
        before   == ValueOf(update, config, told.state, k)
        computed == k \notin Secrets /\ Computed(before, operation)
        after    == IF computed THEN Applied(before.words, operation) ELSE <<>>
    IN  [state   |-> Put(told.state, k, [words |-> after, known |-> computed]),
         changes |-> Append(told.changes,
             IF k \in Secrets THEN HiddenChange(k)
             ELSE [key |-> k, before |-> before.words, after |-> after, computed |-> computed])]

NothingTold == [state |-> [k \in {} |-> [words |-> <<>>, known |-> TRUE]], changes |-> <<>>]

\* What is told of the unsets, then of the sets, one by one: the order the
\* daemon applies them in.
ToldUnsets(update, config) ==
    LET told[n \in 0 .. Len(update.unsets)] ==
            IF n = 0 THEN NothingTold
            ELSE TellUnset(update, config, told[n - 1], update.unsets[n])
    IN  told

ToldSets(update, config) ==
    LET told[n \in 0 .. Len(update.sets)] ==
            IF n = 0 THEN ToldUnsets(update, config)[Len(update.unsets)]
            ELSE TellSet(update, config, told[n - 1], update.sets[n])
    IN  told

\* The changes told, from a read of the named keys.
Changes(update, config) == ToldSets(update, config)[Len(update.sets)].changes

\* The secrets a section holds, as counted from a read that left them out:
\* those its name is known to have, as many as the read left out.
SecretsOfSection(config, section) ==
    LET omitted == {k \in DOMAIN config \cap Secrets : SectionOf[k] # "data"}
        known   == {k \in SecretKeywords : SectionOf[k] = section}
    IN  IF section = "data"
        THEN Cardinality({k \in DOMAIN config \cap Secrets : SectionOf[k] = "data"})
        ELSE Min({Cardinality(known), Cardinality(omitted)})

\* The sections deleted, with their keys among those the read gave.
Sections(update, config, listed) ==
    {[section |-> s, keys |-> {k \in listed : SectionOf[k] = s},
      secrets |-> SecretsOfSection(config, s)] : s \in update.deletes}

\* What a read of the whole configuration may give: the secrets are left out
\* before the keys are cut.
Listings(config) ==
    LET shown == DOMAIN config \ Secrets
    IN  {listed \in SUBSET shown : Cardinality(listed) = Min({MaxKeys, Cardinality(shown)})}
=============================================================================
