--------------------------- MODULE MCSecretDialog ----------------------------
(* SecretDialog with ten seconds a tick: a copy or a showing may begin anew    *)
(* at every stage of an earlier one, and of the dialog's minute.               *)
EXTENDS SecretDialog
=============================================================================
