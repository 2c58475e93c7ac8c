--------------------------- MODULE MCServerLocks ----------------------------
(* Three workers that serve any requests, and one file to write to.        *)
EXTENDS ServerLocks
=============================================================================
