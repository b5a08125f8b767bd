--------------------------- MODULE MCRestartWatch ---------------------------
(* One call of any tool, beside the restarts and changes of other actors.    *)
EXTENDS RestartWatch
=============================================================================
