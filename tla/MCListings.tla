----------------------------- MODULE MCListings -----------------------------
(* Four keys: the second is unfit, the third is over the budget of a page    *)
(* alone and its cursor is too long for a tool without a bound on it.        *)
EXTENDS Listings

MCRunes == [k \in 1 .. 4 |-> IF k = 3 THEN 3 ELSE 1]
=============================================================================
