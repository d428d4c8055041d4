----------------------------- MODULE MCLockstep -----------------------------
(* The lockstep protocol on small instances. *)
EXTENDS Lockstep

\* Only the server's player may pause.
ServerAdmin == {Server}

\* The server's player, and the first client as the administrator of a headless
\* server, may pause and resume.
TwoAdmins == {Server, 1}
=============================================================================
