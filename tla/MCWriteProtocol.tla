-------------------------- MODULE MCWriteProtocol --------------------------
(* Small instances of WriteProtocol; the runs differ in their bounds.      *)
EXTENDS WriteProtocol, TLC
=============================================================================
