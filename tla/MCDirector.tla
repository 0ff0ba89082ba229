----------------------------- MODULE MCDirector -----------------------------
(* Director for TLC.                                                        *)
EXTENDS Director

=============================================================================
