---------------------------- MODULE MCConfigEdit ----------------------------
(* A cluster configuration of two sections, one with a secret and its scope;  *)
(* the values of a section fill the room of a read exactly, or pass it.       *)
EXTENDS ConfigEdit

MCTool == [c \in {"c1", "c2"} |-> IF c = "c1" THEN "preview" ELSE "update"]

MCOrder == <<"cluster.name", "cluster.secret", "cluster.secret@n1", "env.list", "env.one">>
MCKeys == ToSet(MCOrder)
MCSectionOf == [k \in MCKeys |-> IF k \in {"env.list", "env.one"} THEN "env" ELSE "cluster"]
MCSecrets == {"cluster.secret", "cluster.secret@n1"}
MCSecretKeywords == {"cluster.secret"}

MCInitials ==
    {("env.list" :> <<"a">>) @@ ("env.one" :> <<"a", "b">>) @@ ("cluster.name" :> <<"b">>),
     ("env.list" :> <<"a", "b", "a">>) @@ ("env.one" :> <<"b", "a">>)
         @@ ("cluster.secret" :> <<"a">>),
     ("cluster.name" :> <<"a">>) @@ ("cluster.secret" :> <<"a">>)
         @@ ("cluster.secret@n1" :> <<"b">>)}

Set(k, op, value) == [key |-> k, op |-> op, value |-> value, index |-> 0]
Insert(k, index, value) == [key |-> k, op |-> "insert", value |-> value, index |-> index]

MCUpdates ==
    {[deletes |-> {}, unsets |-> <<>>,
      sets |-> <<Set("env.one", "+=", <<"a">>), Set("env.list", "|=", <<"b">>),
                 Set("env.list", "^=", <<"a">>)>>],
     [deletes |-> {"env"}, unsets |-> <<>>, sets |-> <<Set("env.list", "+=", <<"b">>)>>],
     [deletes |-> {}, unsets |-> <<"env.one">>,
      sets |-> <<Insert("env.list", 2, <<"a">>), Set("env.list", "-=", <<"a">>),
                 Set("env.one", "+=", <<"a", "b">>)>>],
     [deletes |-> {"cluster"}, unsets |-> <<>>, sets |-> <<>>],
     [deletes |-> {}, unsets |-> <<"cluster.secret">>,
      sets |-> <<Set("cluster.secret@n1", "=", <<"a">>)>>],
     [deletes |-> {"cluster"}, unsets |-> <<"cluster.name">>,
      sets |-> <<Set("cluster.secret", "=", <<"b">>), Set("cluster.name", "=", <<"a">>)>>]}
=============================================================================
