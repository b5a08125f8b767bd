--------------------------- MODULE MCActionFollow ---------------------------
(* One call of any kind: the calls share nothing but the daemon, which      *)
(* follows each action on its own.                                         *)
EXTENDS ActionFollow

MCEndings == {"exited", "crashed"}
MCSuccesses == {"exited"}
=============================================================================
