------------------------- MODULE MCDelegatedSocket -------------------------
(* Three processes: one that left its socket, one that serves, one more.     *)
EXTENDS DelegatedSocket
=============================================================================
