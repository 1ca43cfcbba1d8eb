------------------------------ MODULE MCLoadEpg ------------------------------
(* Two tasks, so that one can follow another that was broken off.          *)
EXTENDS LoadEpg
=============================================================================
