---------------------------- MODULE MCDelegation ----------------------------
(* Two calls at once, on two clusters that trust a provider each.            *)
EXTENDS Delegation

MCProviderOf == [k \in {"k1", "k2"} |-> IF k = "k1" THEN "p1" ELSE "p2"]
=============================================================================
