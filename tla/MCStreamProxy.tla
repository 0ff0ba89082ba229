---------------------------- MODULE MCStreamProxy ----------------------------
(* StreamProxy for TLC: the constants are numbers given by the cfg files.  *)
EXTENDS StreamProxy

=============================================================================
